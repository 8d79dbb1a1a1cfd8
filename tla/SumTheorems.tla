----------------------------- MODULE SumTheorems -----------------------------
(***************************************************************************)
(* Sums over finite sets, as MapThenSumSet of FiniteSetsExt computes them. *)
(* Its recursion takes the elements in an order nobody knows; these lemmas *)
(* show that it exists, that the order does not matter, and what happens   *)
(* to a sum when an element joins, leaves or changes.  Induction is over   *)
(* sets of natural numbers, by their least element (WFMin).                *)
(***************************************************************************)
EXTENDS FiniteSetTheorems, FiniteSetsExt, TLAPS

Some(S) == CHOOSE x \in S : TRUE
Total(f, S) == MapThenSumSet(LAMBDA x : f[x], S)

\* h is the recursion of MapThenSumSet over the subsets of S
Sums(h, f, S) ==
  h = [s \in SUBSET S |-> IF s = {} THEN 0 ELSE f[Some(s)] + h[s \ {Some(s)}]]

LEMMA SomeOf == ASSUME NEW S, S # {} PROVE Some(S) \in S
  BY DEF Some

LEMMA NatByStep ==
  ASSUME NEW T, T \subseteq Nat, 0 \in T, \A n \in T : n + 1 \in T
  PROVE  T = Nat
  <1> SUFFICES ASSUME Nat \ T # {} PROVE FALSE
    OBVIOUS
  <1>1. PICK m \in Nat \ T : \A n \in Nat \ T : ~(<<n, m>> \in OpToRel(<, Nat))
    BY WFMin, NatLessThanWellFounded
  <1>2. m \in Nat /\ m \notin T /\ m # 0
    BY <1>1
  <1>3. m - 1 \in Nat /\ (m - 1) + 1 = m
    BY <1>2
  <1>5. m - 1 \notin T
    BY <1>2, <1>3, Zenon
  <1>4. <<m - 1, m>> \in OpToRel(<, Nat)
    BY <1>2, <1>3 DEF OpToRel
  <1> QED
    BY <1>1, <1>3, <1>4, <1>5

LEMMA SubsetByElement ==
  ASSUME NEW S, IsFiniteSet(S), NEW T, T \subseteq SUBSET S, {} \in T,
         \A s \in T : \A x \in S \ s : s \union {x} \in T
  PROVE  T = SUBSET S
  <1>1. PICK N : N = {n \in Nat : \A s \in SUBSET S : Cardinality(s) = n => s \in T}
    OBVIOUS
  <1>2. 0 \in N
    <2> SUFFICES ASSUME NEW s \in SUBSET S, Cardinality(s) = 0 PROVE s \in T
      BY <1>1
    <2>1. IsFiniteSet(s)
      BY FS_Subset
    <2> QED
      BY <2>1, FS_EmptySet
  <1>3. ASSUME NEW n \in N PROVE n + 1 \in N
    <2> SUFFICES ASSUME NEW s \in SUBSET S, Cardinality(s) = n + 1 PROVE s \in T
      BY <1>1
    <2>1. IsFiniteSet(s) /\ n \in Nat
      BY <1>1, FS_Subset
    <2>2. s # {}
      BY <2>1, FS_EmptySet
    <2>3. PICK x \in s : TRUE
      BY <2>2
    <2>4. Cardinality(s \ {x}) = n
      <3>1. Cardinality(s \ {x}) = Cardinality(s) - 1
        BY <2>1, <2>3, FS_RemoveElement
      <3> QED
        BY <2>1, <3>1
    <2>5. s \ {x} \in T
      BY <1>1, <2>4
    <2>6. (s \ {x}) \union {x} = s /\ x \in S \ (s \ {x})
      BY <2>3
    <2> QED
      BY <2>5, <2>6
  <1>4. N = Nat
    BY <1>1, <1>2, <1>3, NatByStep
  <1>5. ASSUME NEW s \in SUBSET S PROVE s \in T
    <2>1. Cardinality(s) \in Nat
      BY FS_Subset, FS_CardinalityType
    <2> QED
      BY <1>1, <1>4, <2>1
  <1> QED
    BY <1>5

LEMMA SumsExist ==
  ASSUME NEW S, IsFiniteSet(S), NEW f
  PROVE  \E h : Sums(h, f, S)
  <1> DEFINE Small(n) == {s \in SUBSET S : Cardinality(s) <= n}
  <1> DEFINE Upto(h, n) == h = [s \in Small(n) |-> IF s = {} THEN 0 ELSE f[Some(s)] + h[s \ {Some(s)}]]
  <1>1. PICK N : N = {n \in Nat : \E h : Upto(h, n)}
    OBVIOUS
  <1>2. ASSUME NEW s \in SUBSET S
        PROVE  IsFiniteSet(s) /\ Cardinality(s) \in Nat /\ Cardinality(s) <= Cardinality(S)
    BY FS_Subset, FS_CardinalityType
  <1>3. 0 \in N
    <2>1. ASSUME NEW s \in Small(0) PROVE s = {}
      BY <1>2, FS_EmptySet
    <2>2. PICK h : h = [s \in Small(0) |-> 0]
      OBVIOUS
    <2>3. h = [s \in Small(0) |-> IF s = {} THEN 0 ELSE f[Some(s)] + h[s \ {Some(s)}]]
      BY <2>1, <2>2
    <2> QED
      BY <1>1, <2>3
  <1>4. ASSUME NEW n \in N PROVE n + 1 \in N
    <2>1. n \in Nat
      BY <1>1
    <2>2. PICK g : Upto(g, n)
      BY <1>1
    <2>3. PICK h : h = [s \in Small(n + 1) |-> IF s = {} THEN 0 ELSE f[Some(s)] + g[s \ {Some(s)}]]
      OBVIOUS
    <2>4. ASSUME NEW s \in Small(n) PROVE s \in Small(n + 1) /\ h[s] = g[s]
      <3>1. s \in Small(n + 1)
        BY <1>2, <2>1
      <3>2. h[s] = IF s = {} THEN 0 ELSE f[Some(s)] + g[s \ {Some(s)}]
        BY <2>3, <3>1
      <3>3. g[s] = IF s = {} THEN 0 ELSE f[Some(s)] + g[s \ {Some(s)}]
        BY <2>2
      <3> QED
        BY <3>1, <3>2, <3>3
    <2>5. ASSUME NEW s \in Small(n + 1), s # {} PROVE s \ {Some(s)} \in Small(n)
      <3>1. Some(s) \in s
        BY <2>5, SomeOf
      <3>2. Cardinality(s \ {Some(s)}) = Cardinality(s) - 1
        BY <1>2, <3>1, FS_RemoveElement
      <3> QED
        BY <1>2, <2>1, <3>2
    <2>6. Upto(h, n + 1)
      <3>1. \A s \in Small(n + 1) : h[s] = IF s = {} THEN 0 ELSE f[Some(s)] + h[s \ {Some(s)}]
        BY <2>3, <2>4, <2>5
      <3> HIDE DEF Small
      <3> QED
        BY <2>3, <3>1
    <2> HIDE DEF Upto, Small
    <2>7. n + 1 \in Nat
      BY <2>1
    <2>8. \E g1 : Upto(g1, n + 1)
      BY <2>6
    <2> QED
      BY <1>1, <2>7, <2>8
  <1>5. Cardinality(S) \in N
    BY <1>1, <1>2, <1>3, <1>4, NatByStep
  <1>6. Small(Cardinality(S)) = SUBSET S
    BY <1>2
  <1>7. PICK h : Upto(h, Cardinality(S))
    BY <1>1, <1>5
  <1> QED
    BY <1>6, <1>7 DEF Sums

LEMMA SumsStep ==
  ASSUME NEW S, NEW f, NEW h, Sums(h, f, S), NEW s \in SUBSET S
  PROVE  h[s] = IF s = {} THEN 0 ELSE f[Some(s)] + h[s \ {Some(s)}]
  BY DEF Sums

\* The order in which the elements are taken does not matter.
LEMMA SumsFree ==
  ASSUME NEW S, IsFiniteSet(S), NEW f, \A x \in S : f[x] \in Int, NEW h, Sums(h, f, S)
  PROVE  \A s \in SUBSET S : h[s] \in Int /\ \A x \in s : h[s] = f[x] + h[s \ {x}]
  <1>1. PICK N : N = {n \in Nat : \A s \in SUBSET S : Cardinality(s) <= n =>
                                      h[s] \in Int /\ \A x \in s : h[s] = f[x] + h[s \ {x}]}
    OBVIOUS
  <1>2. ASSUME NEW s \in SUBSET S PROVE IsFiniteSet(s) /\ Cardinality(s) \in Nat
    BY FS_Subset, FS_CardinalityType
  <1>3. 0 \in N
    <2>1. ASSUME NEW s \in SUBSET S, Cardinality(s) <= 0 PROVE s = {}
      BY <1>2, <2>1, FS_EmptySet
    <2>2. h[{}] = 0
      BY SumsStep
    <2>3. \A s \in SUBSET S : Cardinality(s) <= 0 => h[s] \in Int /\ \A x \in s : h[s] = f[x] + h[s \ {x}]
      <3> SUFFICES ASSUME NEW s \in SUBSET S, Cardinality(s) <= 0
                   PROVE  h[s] \in Int /\ \A x \in s : h[s] = f[x] + h[s \ {x}]
        OBVIOUS
      <3>1. s = {}
        BY <2>1
      <3> QED
        BY <2>2, <3>1
    <2> QED
      BY <1>1, <2>3
  <1>4. ASSUME NEW n \in N PROVE n + 1 \in N
    <2> SUFFICES ASSUME NEW s \in SUBSET S, Cardinality(s) <= n + 1
                 PROVE  h[s] \in Int /\ \A x \in s : h[s] = f[x] + h[s \ {x}]
      BY <1>1
    <2>0. n \in Nat /\ \A r \in SUBSET S : Cardinality(r) <= n =>
                                      h[r] \in Int /\ \A x \in r : h[r] = f[x] + h[r \ {x}]
      BY <1>1
    <2>1. CASE s = {}
      BY <2>1, SumsStep
    <2>2. CASE s # {}
      <3>1. PICK c \in s : c = Some(s)
        BY <2>2, SomeOf
      <3>2. h[s] = f[c] + h[s \ {c}]
        BY <2>2, <3>1, SumsStep
      <3>3. ASSUME NEW x \in s PROVE Cardinality(s \ {x}) <= n
        BY <1>2, <2>0, FS_RemoveElement
      <3>4. h[s] \in Int
        BY <2>0, <3>2, <3>3
      <3>5. ASSUME NEW x \in s, x # c PROVE h[s] = f[x] + h[s \ {x}]
        <4>1. h[s \ {c}] = f[x] + h[(s \ {c}) \ {x}]
          BY <2>0, <3>3, <3>5
        <4>2. h[s \ {x}] = f[c] + h[(s \ {x}) \ {c}]
          BY <2>0, <3>1, <3>3, <3>5
        <4>3. (s \ {x}) \ {c} = (s \ {c}) \ {x}
          OBVIOUS
        <4>4. Cardinality((s \ {c}) \ {x}) <= n
          <5>1. IsFiniteSet(s \ {c}) /\ x \in s \ {c} /\ Cardinality(s \ {c}) \in Nat
            BY <1>2, <3>1, <3>5
          <5>2. Cardinality((s \ {c}) \ {x}) = Cardinality(s \ {c}) - 1
            BY <5>1, FS_RemoveElement
          <5> QED
            BY <2>0, <3>1, <3>3, <5>1, <5>2
        <4>5. h[(s \ {c}) \ {x}] \in Int /\ f[x] \in Int /\ f[c] \in Int
          BY <2>0, <4>4
        <4> QED
          <5>1. PICK rest : rest = h[(s \ {c}) \ {x}]
            OBVIOUS
          <5>2. h[s] = f[c] + (f[x] + rest) /\ h[s \ {x}] = f[c] + rest
            BY <3>2, <4>1, <4>2, <4>3, <5>1
          <5> QED
            BY <4>5, <5>1, <5>2
      <3> QED
        BY <3>2, <3>4, <3>5
    <2> QED
      BY <2>1, <2>2
  <1>5. N = Nat
    BY <1>1, <1>3, <1>4, NatByStep
  <1> QED
    <2> TAKE s \in SUBSET S
    <2>1. Cardinality(s) \in N /\ Cardinality(s) <= Cardinality(s)
      BY <1>2, <1>5
    <2> QED
      BY <1>1, <2>1

LEMMA SumsAgree ==
  ASSUME NEW S, IsFiniteSet(S), NEW f, NEW h, Sums(h, f, S), NEW W \in SUBSET S, NEW g, Sums(g, f, W)
  PROVE  \A s \in SUBSET W : h[s] = g[s]
  <1>1. PICK N : N = {n \in Nat : \A s \in SUBSET W : Cardinality(s) <= n => h[s] = g[s]}
    OBVIOUS
  <1>2. ASSUME NEW s \in SUBSET S PROVE IsFiniteSet(s) /\ Cardinality(s) \in Nat
    BY FS_Subset, FS_CardinalityType
  <1>3. 0 \in N
    <2>1. ASSUME NEW s \in SUBSET W, Cardinality(s) <= 0 PROVE s = {}
      BY <1>2, <2>1, FS_EmptySet
    <2>2. h[{}] = 0 /\ g[{}] = 0
      BY SumsStep
    <2> QED
      BY <1>1, <2>1, <2>2
  <1>4. ASSUME NEW n \in N PROVE n + 1 \in N
    <2> SUFFICES ASSUME NEW s \in SUBSET W, Cardinality(s) <= n + 1 PROVE h[s] = g[s]
      BY <1>1
    <2>0. CASE s = {}
      BY <2>0, SumsStep
    <2> SUFFICES ASSUME s # {} PROVE h[s] = g[s]
      BY <2>0
    <2>1. Some(s) \in s /\ s \in SUBSET S /\ n \in Nat
      BY <1>1, SomeOf
    <2>2. Cardinality(s \ {Some(s)}) = Cardinality(s) - 1
      BY <1>2, <2>1, FS_RemoveElement
    <2>3. h[s \ {Some(s)}] = g[s \ {Some(s)}]
      BY <1>1, <1>2, <2>1, <2>2
    <2> QED
      BY <2>1, <2>3, SumsStep
  <1>5. N = Nat
    BY <1>1, <1>3, <1>4, NatByStep
  <1> QED
    <2> TAKE s \in SUBSET W
    <2>1. Cardinality(s) \in N /\ Cardinality(s) <= Cardinality(s)
      BY <1>2, <1>5
    <2> QED
      BY <1>1, <2>1

LEMMA TotalIsSums ==
  ASSUME NEW S, IsFiniteSet(S), NEW f
  PROVE  \E h : Sums(h, f, S) /\ Total(f, S) = h[S]
  <1>1. PICK h : h = CHOOSE g : Sums(g, f, S)
    OBVIOUS
  <1>2. Sums(h, f, S)
    BY <1>1, SumsExist
  <1>3. Total(f, S) = h[S]
    BY <1>1 DEF Total, MapThenSumSet, MapThenFoldSet, Sums, Some
  <1> QED
    BY <1>2, <1>3

-----------------------------------------------------------------------------
(* What a total is worth                                                   *)

THEOREM TotalStep ==
  ASSUME NEW S, IsFiniteSet(S), NEW f, \A x \in S : f[x] \in Int
  PROVE  /\ Total(f, S) \in Int
         /\ \A x \in S : Total(f, S) = f[x] + Total(f, S \ {x})
         /\ S = {} => Total(f, S) = 0
  <1>1. PICK h : Sums(h, f, S) /\ Total(f, S) = h[S]
    BY TotalIsSums
  <1>2. h[S] \in Int /\ \A x \in S : h[S] = f[x] + h[S \ {x}]
    <2>1. \A s \in SUBSET S : h[s] \in Int /\ \A x \in s : h[s] = f[x] + h[s \ {x}]
      BY <1>1, SumsFree
    <2> QED
      BY <2>1
  <1>3. S = {} => h[S] = 0
    BY <1>1, SumsStep
  <1>4. ASSUME NEW x \in S PROVE Total(f, S \ {x}) = h[S \ {x}]
    <2>1. IsFiniteSet(S \ {x})
      BY FS_Subset
    <2>2. PICK g : Sums(g, f, S \ {x}) /\ Total(f, S \ {x}) = g[S \ {x}]
      BY <2>1, TotalIsSums
    <2> QED
      BY <1>1, <2>2, SumsAgree
  <1> QED
    BY <1>1, <1>2, <1>3, <1>4

\* An operator of the state is summed like the function of its values.
LEMMA TotalSame ==
  ASSUME NEW S, IsFiniteSet(S), NEW f, NEW g, \A x \in S : f[x] \in Int /\ f[x] = g[x]
  PROVE  Total(f, S) = Total(g, S)
  <1>1. PICK T : T = {s \in SUBSET S : Total(f, s) = Total(g, s)}
    OBVIOUS
  <1>2. ASSUME NEW s \in SUBSET S
        PROVE  /\ IsFiniteSet(s)
               /\ \A x \in s : f[x] \in Int /\ g[x] \in Int /\ f[x] = g[x]
    BY FS_Subset
  <1>3. {} \in T
    <2>1. Total(f, {}) = 0 /\ Total(g, {}) = 0
      BY <1>2, TotalStep
    <2> QED
      BY <1>1, <2>1
  <1>4. ASSUME NEW s \in T, NEW x \in S \ s PROVE s \union {x} \in T
    <2>1. PICK r \in SUBSET S : r = s \union {x}
      BY <1>1
    <2>2. x \in r /\ r \ {x} = s
      BY <2>1
    <2>3. Total(f, r) = f[x] + Total(f, s) /\ Total(g, r) = g[x] + Total(g, s)
      BY <1>2, <2>2, TotalStep
    <2> QED
      BY <1>1, <1>2, <2>1, <2>2, <2>3
  <1>5. T = SUBSET S
    <2>1. T \subseteq SUBSET S
      BY <1>1
    <2>2. \A s \in T : \A x \in S \ s : s \union {x} \in T
      BY <1>4
    <2> QED
      BY <1>3, <2>1, <2>2, SubsetByElement
  <1> QED
    BY <1>1, <1>5

THEOREM TotalAdd ==
  ASSUME NEW S, IsFiniteSet(S), NEW f, \A y \in S : f[y] \in Int, NEW x, x \notin S, f[x] \in Int
  PROVE  Total(f, S \union {x}) = f[x] + Total(f, S)
  <1>1. IsFiniteSet(S \union {x})
    BY FS_AddElement
  <1>2. (S \union {x}) \ {x} = S
    OBVIOUS
  <1>3. \A y \in S \union {x} : f[y] \in Int
    OBVIOUS
  <1>4. PICK R : R = S \union {x}
    OBVIOUS
  <1>5. Total(f, R) = f[x] + Total(f, R \ {x})
    BY <1>1, <1>3, <1>4, TotalStep
  <1> QED
    BY <1>2, <1>4, <1>5

\* Changing one element changes the total by as much.
THEOREM TotalChange ==
  ASSUME NEW S, IsFiniteSet(S), NEW f, NEW g, NEW x \in S,
         \A y \in S : f[y] \in Int /\ g[y] \in Int /\ (y # x => f[y] = g[y])
  PROVE  Total(g, S) = (Total(f, S) - f[x]) + g[x]
  <1>1. Total(f, S) = f[x] + Total(f, S \ {x}) /\ Total(g, S) = g[x] + Total(g, S \ {x})
    BY TotalStep
  <1>2. IsFiniteSet(S \ {x})
    BY FS_Subset
  <1>3. Total(f, S \ {x}) \in Int /\ Total(f, S \ {x}) = Total(g, S \ {x})
    BY <1>2, TotalStep, TotalSame
  <1>4. PICK rest : rest = Total(f, S \ {x})
    OBVIOUS
  <1>5. Total(f, S) = f[x] + rest /\ Total(g, S) = g[x] + rest /\ rest \in Int /\ f[x] \in Int /\ g[x] \in Int
    BY <1>1, <1>3, <1>4
  <1> QED
    BY <1>5

\* Smaller summands, a smaller total.
THEOREM TotalOrder ==
  ASSUME NEW S, IsFiniteSet(S), NEW f, NEW g, \A y \in S : f[y] \in Int /\ g[y] \in Int /\ f[y] <= g[y]
  PROVE  Total(f, S) <= Total(g, S)
  <1>1. PICK T : T = {s \in SUBSET S : Total(f, s) <= Total(g, s)}
    OBVIOUS
  <1>2. ASSUME NEW s \in SUBSET S
        PROVE  /\ IsFiniteSet(s)
               /\ \A x \in s : f[x] \in Int /\ g[x] \in Int /\ f[x] <= g[x]
    BY FS_Subset
  <1>3. {} \in T
    <2>1. Total(f, {}) = 0 /\ Total(g, {}) = 0
      BY <1>2, TotalStep
    <2> QED
      BY <1>1, <2>1
  <1>4. ASSUME NEW s \in T, NEW x \in S \ s PROVE s \union {x} \in T
    <2>1. PICK r \in SUBSET S : r = s \union {x}
      BY <1>1
    <2>2. x \in r /\ r \ {x} = s
      BY <2>1
    <2>3. Total(f, r) = f[x] + Total(f, s) /\ Total(g, r) = g[x] + Total(g, s)
      BY <1>2, <2>2, TotalStep
    <2>4. Total(f, s) \in Int /\ Total(g, s) \in Int /\ Total(f, s) <= Total(g, s)
      BY <1>1, <1>2, TotalStep
    <2>5. PICK a \in Int, b \in Int : a = Total(f, s) /\ b = Total(g, s)
      BY <2>4
    <2>6. Total(f, r) <= Total(g, r)
      BY <1>2, <2>2, <2>3, <2>4, <2>5
    <2> QED
      BY <1>1, <2>1, <2>6
  <1>5. T = SUBSET S
    <2>1. T \subseteq SUBSET S
      BY <1>1
    <2>2. \A s \in T : \A x \in S \ s : s \union {x} \in T
      BY <1>4
    <2> QED
      BY <1>3, <2>1, <2>2, SubsetByElement
  <1> QED
    BY <1>1, <1>5

THEOREM TotalNat ==
  ASSUME NEW S, IsFiniteSet(S), NEW f, \A y \in S : f[y] \in Nat
  PROVE  Total(f, S) \in Nat /\ \A x \in S : f[x] <= Total(f, S)
  <1>1. ASSUME NEW R \in SUBSET S PROVE Total(f, R) \in Nat
    <2>1. PICK zero : zero = [y \in S |-> 0]
      OBVIOUS
    <2>2. IsFiniteSet(R)
      BY FS_Subset
    <2>3. Total(zero, R) <= Total(f, R) /\ Total(f, R) \in Int
      BY <2>1, <2>2, TotalOrder, TotalStep
    <2>4. Total(zero, R) = 0
      <3>1. PICK T : T = {s \in SUBSET R : Total(zero, s) = 0}
        OBVIOUS
      <3>2. {} \in T
        BY <2>1, <2>2, <3>1, FS_EmptySet, TotalStep
      <3>3. ASSUME NEW s \in T, NEW x \in R \ s PROVE s \union {x} \in T
        <4>1. IsFiniteSet(s) /\ s \subseteq S /\ s \in SUBSET R /\ Total(zero, s) = 0
          BY <2>2, <3>1, FS_Subset
        <4>2. Total(zero, s \union {x}) = zero[x] + Total(zero, s)
          BY <2>1, <4>1, TotalAdd
        <4> QED
          BY <2>1, <3>1, <4>1, <4>2
      <3>4. T = SUBSET R
        <4>1. T \subseteq SUBSET R
          BY <3>1
        <4>2. \A s \in T : \A x \in R \ s : s \union {x} \in T
          BY <3>3
        <4> QED
          BY <2>2, <3>2, <4>1, <4>2, SubsetByElement
      <3> QED
        BY <3>1, <3>4
    <2> QED
      BY <2>3, <2>4
  <1>2. ASSUME NEW x \in S PROVE f[x] <= Total(f, S)
    <2>1. Total(f, S) = f[x] + Total(f, S \ {x})
      BY TotalStep
    <2> QED
      BY <1>1, <2>1
  <1> QED
    BY <1>1, <1>2

\* More summands, a larger total.
THEOREM TotalSubset ==
  ASSUME NEW S, IsFiniteSet(S), NEW f, \A y \in S : f[y] \in Nat, NEW W \in SUBSET S
  PROVE  Total(f, W) <= Total(f, S)
  <1>1. PICK T : T = {s \in SUBSET (S \ W) : Total(f, W) <= Total(f, W \union s)}
    OBVIOUS
  <1>2. ASSUME NEW s \in SUBSET (S \ W)
        PROVE  /\ IsFiniteSet(W \union s) /\ W \union s \subseteq S
               /\ Total(f, W \union s) \in Nat
    <2>1. W \union s \subseteq S
      OBVIOUS
    <2>2. IsFiniteSet(W \union s)
      BY <2>1, FS_Subset
    <2> QED
      BY <2>1, <2>2, TotalNat
  <1>3. {} \in T
    <2>1. W \union {} = W
      OBVIOUS
    <2>2. Total(f, W) \in Nat
      BY <1>2, <2>1
    <2> QED
      BY <1>1, <2>1, <2>2
  <1>4. ASSUME NEW s \in T, NEW x \in (S \ W) \ s PROVE s \union {x} \in T
    <2>1. s \in SUBSET (S \ W) /\ Total(f, W) <= Total(f, W \union s)
      BY <1>1
    <2>2. PICK R : R = W \union s
      OBVIOUS
    <2>3. IsFiniteSet(R) /\ R \subseteq S /\ Total(f, R) \in Nat /\ Total(f, W) <= Total(f, R)
      BY <1>2, <2>1, <2>2
    <2>4. x \notin R /\ x \in S /\ f[x] \in Nat
      BY <2>1, <2>2
    <2>5. Total(f, R \union {x}) = f[x] + Total(f, R)
      BY <2>3, <2>4, TotalAdd
    <2>6. W \union (s \union {x}) = R \union {x} /\ s \union {x} \in SUBSET (S \ W)
      BY <2>1, <2>2
    <2>7. Total(f, W) \in Nat
      BY FS_Subset, TotalNat
    <2>8. Total(f, W) <= Total(f, R \union {x})
      BY <2>3, <2>4, <2>5, <2>7
    <2> QED
      BY <1>1, <2>6, <2>8
  <1>5. IsFiniteSet(S \ W)
    BY FS_Subset
  <1>6. T = SUBSET (S \ W)
    <2>1. T \subseteq SUBSET (S \ W)
      BY <1>1
    <2>2. \A s \in T : \A x \in (S \ W) \ s : s \union {x} \in T
      BY <1>4
    <2>3. PICK R : R = S \ W
      OBVIOUS
    <2> QED
      BY <1>3, <1>5, <2>1, <2>2, <2>3, SubsetByElement
  <1>7. W \union (S \ W) = S /\ S \ W \in T
    BY <1>6
  <1> QED
    BY <1>1, <1>7

\* A part of a set sums like the whole set with nothing elsewhere.
THEOREM TotalPart ==
  ASSUME NEW S, IsFiniteSet(S), NEW f, NEW g, NEW W \in SUBSET S,
         \A y \in W : f[y] \in Int /\ g[y] = f[y], \A y \in S \ W : g[y] = 0
  PROVE  Total(f, W) = Total(g, S)
  <1>1. PICK D : D = S \ W
    OBVIOUS
  <1>2. IsFiniteSet(W) /\ IsFiniteSet(D)
    BY <1>1, FS_Subset
  <1>3. Total(f, W) = Total(g, W) /\ Total(g, W) \in Int
    BY <1>2, TotalSame, TotalStep
  <1>4. PICK T : T = {s \in SUBSET D : Total(g, W) = Total(g, W \union s)}
    OBVIOUS
  <1>5. {} \in T
    <2>1. W \union {} = W
      OBVIOUS
    <2> QED
      BY <1>4, <2>1
  <1>6. ASSUME NEW s \in T, NEW x \in D \ s PROVE s \union {x} \in T
    <2>1. PICK R : R = W \union s
      OBVIOUS
    <2>2. s \in SUBSET D /\ Total(g, W) = Total(g, R) /\ R \in SUBSET S /\ x \notin R /\ x \in S \ W
      BY <1>1, <1>4, <2>1
    <2>3. IsFiniteSet(R) /\ \A y \in R : g[y] \in Int
      BY <2>2, FS_Subset
    <2>4. g[x] = 0
      BY <2>2
    <2>5. Total(g, R \union {x}) = g[x] + Total(g, R) /\ Total(g, R) \in Int
      BY <2>2, <2>3, <2>4, TotalAdd, TotalStep
    <2>6. W \union (s \union {x}) = R \union {x} /\ s \union {x} \in SUBSET D
      BY <2>1, <2>2
    <2>7. Total(g, R \union {x}) = Total(g, R)
      BY <2>4, <2>5
    <2> QED
      BY <1>4, <2>2, <2>6, <2>7
  <1>7. T = SUBSET D
    <2>1. T \subseteq SUBSET D
      BY <1>4
    <2>2. \A s \in T : \A x \in D \ s : s \union {x} \in T
      BY <1>6
    <2> QED
      BY <1>2, <1>5, <2>1, <2>2, SubsetByElement
  <1>8. W \union D = S /\ D \in T
    BY <1>1, <1>7
  <1> QED
    BY <1>3, <1>4, <1>8

THEOREM TotalUnion ==
  ASSUME NEW S, IsFiniteSet(S), NEW f, \A y \in S : f[y] \in Int, NEW V \in SUBSET S, NEW W \in SUBSET S,
         V \intersect W = {}
  PROVE  Total(f, V \union W) = Total(f, V) + Total(f, W)
  <1>1. IsFiniteSet(V) /\ IsFiniteSet(W)
    BY FS_Subset
  <1>2. Total(f, V) \in Int
    BY <1>1, TotalStep
  <1>3. PICK T : T = {s \in SUBSET W : Total(f, V \union s) = Total(f, V) + Total(f, s)}
    OBVIOUS
  <1>4. {} \in T
    <2>1. V \union {} = V /\ Total(f, {}) = 0
      BY TotalStep, FS_EmptySet
    <2> QED
      BY <1>2, <1>3, <2>1
  <1>5. ASSUME NEW s \in T, NEW x \in W \ s PROVE s \union {x} \in T
    <2>1. PICK R : R = V \union s
      OBVIOUS
    <2>2. /\ s \in SUBSET W /\ Total(f, R) = Total(f, V) + Total(f, s)
          /\ R \in SUBSET S /\ x \notin R /\ x \notin s /\ x \in S
      BY <1>3, <2>1
    <2>3. IsFiniteSet(R) /\ IsFiniteSet(s)
      BY <2>2, FS_Subset
    <2>4. Total(f, R \union {x}) = f[x] + Total(f, R) /\ Total(f, s \union {x}) = f[x] + Total(f, s)
      BY <2>2, <2>3, TotalAdd
    <2>5. Total(f, s) \in Int /\ f[x] \in Int
      BY <2>2, <2>3, TotalStep
    <2>6. V \union (s \union {x}) = R \union {x} /\ s \union {x} \in SUBSET W
      BY <2>1, <2>2
    <2>7. PICK a \in Int, b \in Int, c \in Int : a = Total(f, V) /\ b = Total(f, s) /\ c = f[x]
      BY <1>2, <2>5
    <2>8. Total(f, R \union {x}) = a + (c + b)
      BY <2>2, <2>4, <2>7
    <2>9. Total(f, R \union {x}) = Total(f, V) + Total(f, s \union {x})
      BY <2>4, <2>7, <2>8
    <2> QED
      BY <1>3, <2>6, <2>9
  <1>6. T = SUBSET W
    <2>1. T \subseteq SUBSET W
      BY <1>3
    <2>2. \A s \in T : \A x \in W \ s : s \union {x} \in T
      BY <1>5
    <2> QED
      BY <1>1, <1>4, <2>1, <2>2, SubsetByElement
  <1> QED
    BY <1>3, <1>6
=============================================================================
