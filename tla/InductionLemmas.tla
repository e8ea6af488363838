--------------------------- MODULE InductionLemmas ----------------------------
(***************************************************************************)
(* Induction over the natural numbers, stated for a set instead of a       *)
(* predicate, and what it is needed for: the recursion behind the sum of a *)
(* function over a finite set exists, the order in which the set is gone   *)
(* through does not matter, one element more adds its value, and smaller   *)
(* values give a smaller sum.                                              *)
(***************************************************************************)
EXTENDS Integers, FiniteSets, Functions, FiniteSetTheorems, WellFoundedInduction, TLAPS

LEMMA SetInduction ==
  ASSUME NEW T, 0 \in T, \A n \in Nat : n \in T => n + 1 \in T
  PROVE  \A n \in Nat : n \in T
<1> DEFINE U == Nat \ T
           R == OpToRel(<, Nat)
<1> SUFFICES ASSUME U # {} PROVE FALSE
  OBVIOUS
<1>1. \A m, n \in Nat : m < n => <<m, n>> \in R
  BY DEF OpToRel
<1>2. U \subseteq Nat
  OBVIOUS
<1>3. PICK m \in U : \A n \in U : <<n, m>> \notin R
  <2>1. IsWellFoundedOn(R, Nat)
    BY NatLessThanWellFounded
  <2> HIDE DEF R, U
  <2> QED
    BY <1>2, <2>1, WFMin
<1>4. m \in Nat \ {0} /\ m - 1 \in Nat /\ m - 1 < m
  <2>1. m \in Nat /\ m # 0
    OBVIOUS
  <2> QED
    BY ONLY <2>1
<1>5. m - 1 \in T
  BY <1>1, <1>3, <1>4
<1>6. (m - 1) + 1 = m
  BY <1>4
<1> QED
  BY <1>3, <1>4, <1>5, <1>6

-------------------------------------------------------------------------------
(* The recursion of SumFunctionOnSet. *)

\* the element the fold takes next
Pick(s) == CHOOSE x \in s : TRUE

\* g gives the sum of F over each of the sets in P
Folded(g, F, P) ==
  g = [s \in P |-> IF s = {} THEN 0 ELSE F[Pick(s)] + g[s \ {Pick(s)}]]

\* the subsets of D with at most n elements
Small(D, n) == { s \in SUBSET D : Cardinality(s) <= n }

LEMMA SmallerSet ==
  ASSUME NEW s, IsFiniteSet(s), s # {}
  PROVE  /\ Pick(s) \in s /\ s \ {Pick(s)} \subseteq s /\ IsFiniteSet(s \ {Pick(s)})
         /\ Cardinality(s) \in Nat /\ Cardinality(s \ {Pick(s)}) = Cardinality(s) - 1
<1>1. Pick(s) \in s
  BY DEF Pick
<1> QED
  BY <1>1, FS_RemoveElement, FS_CardinalityType

(* Two recursions over functions that agree on a set give the same sum of it. *)
LEMMA FoldedAgree ==
  ASSUME NEW F, NEW G, NEW P, NEW Q, NEW f, NEW g, Folded(f, F, P), Folded(g, G, Q),
         \A s \in P \cap Q : s # {} => s \ {Pick(s)} \in P \cap Q,
         \A s \in P \cap Q : IsFiniteSet(s)
  PROVE  \A s \in P \cap Q : (\A x \in s : F[x] = G[x]) => f[s] = g[s]
<1> DEFINE T == { n \in Nat : \A s \in P \cap Q : Cardinality(s) = n /\ (\A x \in s : F[x] = G[x])
                                                     => f[s] = g[s] }
<1>0. \A s : s \in P \cap Q =>
        /\ f[s] = IF s = {} THEN 0 ELSE F[Pick(s)] + f[s \ {Pick(s)}]
        /\ g[s] = IF s = {} THEN 0 ELSE G[Pick(s)] + g[s \ {Pick(s)}]
  <2> SUFFICES ASSUME NEW s, s \in P \cap Q
               PROVE  /\ f[s] = IF s = {} THEN 0 ELSE F[Pick(s)] + f[s \ {Pick(s)}]
                      /\ g[s] = IF s = {} THEN 0 ELSE G[Pick(s)] + g[s \ {Pick(s)}]
    OBVIOUS
  <2>1. f = [t \in P |-> IF t = {} THEN 0 ELSE F[Pick(t)] + f[t \ {Pick(t)}]]
    BY DEF Folded
  <2>2. g = [t \in Q |-> IF t = {} THEN 0 ELSE G[Pick(t)] + g[t \ {Pick(t)}]]
    BY DEF Folded
  <2> QED
    BY <2>1, <2>2
<1>1. 0 \in T
  <2> SUFFICES ASSUME NEW s \in P \cap Q, Cardinality(s) = 0 PROVE f[s] = g[s]
    OBVIOUS
  <2>1. s = {}
    BY FS_EmptySet
  <2> QED
    BY <1>0, <2>1
<1>2. ASSUME NEW n \in Nat, n \in T PROVE n + 1 \in T
  <2> SUFFICES ASSUME NEW s \in P \cap Q, Cardinality(s) = n + 1, \A x \in s : F[x] = G[x]
               PROVE  f[s] = g[s]
    OBVIOUS
  <2> DEFINE r == s \ {Pick(s)}
  <2>1. s # {}
    BY FS_EmptySet
  <2>2. Pick(s) \in s /\ r \subseteq s /\ Cardinality(r) = n /\ r \in P \cap Q
    <3>1. IsFiniteSet(s)
      OBVIOUS
    <3>2. r \in P \cap Q
      BY <2>1
    <3>3. Pick(s) \in s /\ r \subseteq s /\ Cardinality(r) = Cardinality(s) - 1
      BY <2>1, <3>1, SmallerSet
    <3> QED
      BY <3>2, <3>3
  <2>3. f[r] = g[r]
    BY <1>2, <2>2
  <2> QED
    BY <1>0, <2>1, <2>2, <2>3
<1> HIDE DEF T
<1>3. \A n \in Nat : n \in T
  BY <1>1, <1>2, SetInduction
<1> SUFFICES ASSUME NEW s \in P \cap Q, \A x \in s : F[x] = G[x] PROVE f[s] = g[s]
  OBVIOUS
<1>4. Cardinality(s) \in Nat
  BY FS_CardinalityType
<1> QED
  BY <1>3, <1>4 DEF T

LEMMA FoldedExists ==
  ASSUME NEW F, NEW D, IsFiniteSet(D)
  PROVE  \E g : Folded(g, F, SUBSET D)
<1> DEFINE T == { n \in Nat : \E g : Folded(g, F, Small(D, n)) }
<1>f. \A s \in SUBSET D : IsFiniteSet(s) /\ Cardinality(s) \in Nat /\ Cardinality(s) <= Cardinality(D)
  BY FS_Subset, FS_CardinalityType
<1>e. {} \in SUBSET D /\ Cardinality({}) = 0
  BY FS_EmptySet
<1>1. 0 \in T
  <2> DEFINE g == [s \in Small(D, 0) |-> 0]
  <2>1. \A s \in Small(D, 0) : s = {}
    <3> SUFFICES ASSUME NEW s \in SUBSET D, Cardinality(s) <= 0 PROVE s = {}
      BY DEF Small
    <3>1. Cardinality(s) = 0
      BY <1>f
    <3> QED
      BY <1>f, <3>1, FS_EmptySet
  <2>2. Folded(g, F, Small(D, 0))
    BY <2>1 DEF Folded
  <2> QED
    BY <2>2
<1>2. ASSUME NEW n \in Nat, n \in T PROVE n + 1 \in T
  <2>1. PICK g : Folded(g, F, Small(D, n))
    BY <1>2
  <2>g. g = [s \in Small(D, n) |-> IF s = {} THEN 0 ELSE F[Pick(s)] + g[s \ {Pick(s)}]]
    BY <2>1 DEF Folded
  <2> DEFINE h == [s \in Small(D, n + 1) |->
                     IF s = {} THEN 0 ELSE F[Pick(s)] + g[s \ {Pick(s)}]]
  <2>2. \A s \in Small(D, n + 1) : s # {} => s \ {Pick(s)} \in Small(D, n)
    <3> SUFFICES ASSUME NEW s \in SUBSET D, Cardinality(s) <= n + 1, s # {}
                 PROVE  s \ {Pick(s)} \in Small(D, n)
      BY DEF Small
    <3>1. Cardinality(s \ {Pick(s)}) = Cardinality(s) - 1 /\ s \ {Pick(s)} \subseteq s
      BY <1>f, SmallerSet
    <3> QED
      BY <1>f, <3>1 DEF Small
  <2>3. ASSUME NEW s \in Small(D, n) PROVE s \in Small(D, n + 1) /\ h[s] = g[s]
    <3>1. s \in Small(D, n + 1)
      BY <1>f DEF Small
    <3>2. g[s] = IF s = {} THEN 0 ELSE F[Pick(s)] + g[s \ {Pick(s)}]
      BY <2>g
    <3> QED
      BY <3>1, <3>2
  <2>4. Folded(h, F, Small(D, n + 1))
    <3>1. ASSUME NEW s \in Small(D, n + 1)
          PROVE  h[s] = IF s = {} THEN 0 ELSE F[Pick(s)] + h[s \ {Pick(s)}]
      <4>1. s # {} => h[s \ {Pick(s)}] = g[s \ {Pick(s)}]
        BY <2>2, <2>3
      <4> QED
        BY <4>1
    <3> HIDE DEF h
    <3>2. h = [s \in Small(D, n + 1) |-> h[s]]
      BY DEF h
    <3> QED
      BY <3>1, <3>2 DEF Folded
  <2> HIDE DEF h
  <2> QED
    BY <2>4
<1> HIDE DEF T
<1>3. \A n \in Nat : n \in T
  BY <1>1, <1>2, SetInduction
<1>4. Cardinality(D) \in Nat
  BY FS_CardinalityType
<1>5. Small(D, Cardinality(D)) = SUBSET D
  BY <1>f DEF Small
<1> QED
  BY <1>3, <1>4, <1>5 DEF T

LEMMA SumFolded ==
  ASSUME NEW F, NEW D, IsFiniteSet(D)
  PROVE  \E g : Folded(g, F, SUBSET D) /\ SumFunctionOnSet(F, D) = g[D]
<1>1. \E g : Folded(g, F, SUBSET D)
  BY FoldedExists
<1> DEFINE iter == CHOOSE g : Folded(g, F, SUBSET D)
<1>2. Folded(iter, F, SUBSET D)
  BY <1>1
<1>3. SumFunctionOnSet(F, D) = iter[D]
  BY DEF SumFunctionOnSet, FoldFunctionOnSet, MapThenFoldSet, Folded, Pick
<1> QED
  BY <1>2, <1>3

(* The sum of nothing is 0; the sum of a set is the value of any of its elements and the
   sum of the others; and a sum depends on the values in its set only. *)
LEMMA SumNone == ASSUME NEW F PROVE SumFunctionOnSet(F, {}) = 0
<1>1. PICK g : Folded(g, F, SUBSET {}) /\ SumFunctionOnSet(F, {}) = g[{}]
  BY FS_EmptySet, SumFolded
<1> QED
  BY <1>1 DEF Folded

LEMMA SumAgree ==
  ASSUME NEW F, NEW G, NEW D, IsFiniteSet(D), \A x \in D : F[x] = G[x]
  PROVE  SumFunctionOnSet(F, D) = SumFunctionOnSet(G, D)
<1>1. PICK f : Folded(f, F, SUBSET D) /\ SumFunctionOnSet(F, D) = f[D]
  BY SumFolded
<1>2. PICK g : Folded(g, G, SUBSET D) /\ SumFunctionOnSet(G, D) = g[D]
  BY SumFolded
<1>3. \A s \in (SUBSET D) \cap (SUBSET D) : IsFiniteSet(s) /\ (s # {} => s \ {Pick(s)} \in (SUBSET D) \cap (SUBSET D))
  BY FS_Subset
<1>4. f[D] = g[D]
  BY <1>1, <1>2, <1>3, FoldedAgree
<1> QED
  BY <1>1, <1>2, <1>4

LEMMA SumPick ==
  ASSUME NEW F, NEW D, IsFiniteSet(D), D # {}
  PROVE  SumFunctionOnSet(F, D) = F[Pick(D)] + SumFunctionOnSet(F, D \ {Pick(D)})
<1> DEFINE R == D \ {Pick(D)}
<1>1. PICK f : Folded(f, F, SUBSET D) /\ SumFunctionOnSet(F, D) = f[D]
  BY SumFolded
<1>2. IsFiniteSet(R) /\ R \subseteq D
  BY SmallerSet
<1> HIDE DEF R
<1>3. PICK g : Folded(g, F, SUBSET R) /\ SumFunctionOnSet(F, R) = g[R]
  BY <1>2, SumFolded
<1>4. \A s \in (SUBSET D) \cap (SUBSET R) :
        IsFiniteSet(s) /\ (s # {} => s \ {Pick(s)} \in (SUBSET D) \cap (SUBSET R))
  BY <1>2, FS_Subset
<1>5. R \in (SUBSET D) \cap (SUBSET R)
  BY <1>2
<1>6. f[R] = g[R]
  BY <1>1, <1>3, <1>4, <1>5, FoldedAgree
<1>7. f[D] = F[Pick(D)] + f[R]
  <2>1. f = [s \in SUBSET D |-> IF s = {} THEN 0 ELSE F[Pick(s)] + f[s \ {Pick(s)}]]
    BY <1>1 DEF Folded
  <2>2. f[D] = IF D = {} THEN 0 ELSE F[Pick(D)] + f[D \ {Pick(D)}]
    BY <2>1
  <2> QED
    BY <2>2 DEF R
<1> QED
  BY <1>1, <1>3, <1>6, <1>7 DEF R

LEMMA SumAdd ==
  ASSUME NEW F, NEW D, IsFiniteSet(D), \A x \in D : F[x] \in Nat, NEW y \in D
  PROVE  /\ SumFunctionOnSet(F, D) \in Nat
         /\ SumFunctionOnSet(F, D) = F[y] + SumFunctionOnSet(F, D \ {y})
<1> DEFINE S(s) == SumFunctionOnSet(F, s)
           T == { n \in Nat : \A s \in SUBSET D : Cardinality(s) <= n =>
                    /\ S(s) \in Nat
                    /\ \A x \in s : S(s) = F[x] + S(s \ {x}) }
<1>f. \A s \in SUBSET D : IsFiniteSet(s) /\ Cardinality(s) \in Nat
  BY FS_Subset, FS_CardinalityType
<1>p. \A s \in SUBSET D : s # {} => S(s) = F[Pick(s)] + S(s \ {Pick(s)})
  BY <1>f, SumPick
<1>n. S({}) = 0
  BY SumNone
<1>c. \A s \in SUBSET D : \A x \in s : Cardinality(s \ {x}) = Cardinality(s) - 1
  BY <1>f, FS_RemoveElement
<1> HIDE DEF S
<1>1. 0 \in T
  <2>1. \A s \in SUBSET D : Cardinality(s) <= 0 => s = {}
    BY <1>f, FS_EmptySet
  <2> QED
    BY <1>n, <2>1
<1>2. ASSUME NEW n \in Nat, n \in T PROVE n + 1 \in T
  <2>h. ASSUME NEW s \in SUBSET D, Cardinality(s) <= n
        PROVE  S(s) \in Nat /\ \A x \in s : S(s) = F[x] + S(s \ {x})
    BY <1>2, <2>h
  <2> HIDE DEF T
  <2>1. ASSUME NEW s \in SUBSET D, Cardinality(s) = n + 1
        PROVE  S(s) \in Nat /\ \A x \in s : S(s) = F[x] + S(s \ {x})
    <3> DEFINE p == Pick(s)
    <3>1. s # {}
      BY <2>1, FS_EmptySet
    <3>2. p \in s /\ p \in D
      BY <3>1 DEF Pick
    <3>3. S(s) = F[p] + S(s \ {p})
      BY <1>p, <3>1
    <3>4. s \ {p} \in SUBSET D /\ Cardinality(s \ {p}) = n
      BY <1>c, <2>1, <3>2
    <3> HIDE DEF p
    <3>5. F[p] \in Nat /\ S(s \ {p}) \in Nat
      BY <2>h, <3>2, <3>4
    <3>6. ASSUME NEW x \in s, x # p PROVE S(s) = F[x] + S(s \ {x})
      <4> DEFINE a == s \ {p}
                 b == s \ {x}
                 c == s \ {p, x}
      <4>1. x \in a /\ p \in b /\ a \ {x} = c /\ b \ {p} = c
        BY <3>2, <3>6
      <4>2. b \in SUBSET D /\ Cardinality(b) = n
        BY <1>c, <2>1
      <4>3. S(a) = F[x] + S(c)
        BY <2>h, <3>4, <4>1
      <4>4. S(b) = F[p] + S(c) /\ S(b) \in Nat
        BY <2>h, <4>1, <4>2
      <4>5. F[x] \in Nat
        OBVIOUS
      <4>6. S(c) \in Nat
        <5>1. c \in SUBSET D /\ Cardinality(c) = n - 1
          BY <1>c, <4>1, <4>2
        <5> QED
          BY <2>h, <5>1
      <4> QED
        BY <3>3, <3>5, <4>3, <4>4, <4>5, <4>6
    <3>7. \A x \in s : S(s) = F[x] + S(s \ {x})
      BY <3>3, <3>6
    <3> QED
      BY <3>3, <3>5, <3>7
  <2>2. \A s \in SUBSET D : Cardinality(s) <= n + 1 => Cardinality(s) <= n \/ Cardinality(s) = n + 1
    BY <1>f
  <2> QED
    BY <2>h, <2>1, <2>2 DEF T
<1> HIDE DEF T
<1>3. \A n \in Nat : n \in T
  BY <1>1, <1>2, SetInduction
<1>4. Cardinality(D) \in Nat
  BY <1>f
<1>5. S(D) \in Nat /\ \A x \in D : S(D) = F[x] + S(D \ {x})
  BY <1>3, <1>4 DEF T
<1> QED
  BY <1>5 DEF S

LEMMA SumNatural ==
  ASSUME NEW F, NEW D, IsFiniteSet(D), \A x \in D : F[x] \in Nat
  PROVE  SumFunctionOnSet(F, D) \in Nat
<1>1. CASE D = {}
  BY <1>1, SumNone
<1>2. CASE D # {}
  <2>1. PICK y : y \in D
    BY <1>2
  <2> QED
    BY <2>1, SumAdd
<1> QED
  BY <1>1, <1>2

(* A sum of smaller values is smaller. *)
LEMMA SumLess ==
  ASSUME NEW F, NEW G, NEW D, IsFiniteSet(D),
         \A x \in D : F[x] \in Nat /\ G[x] \in Nat /\ G[x] <= F[x]
  PROVE  SumFunctionOnSet(G, D) <= SumFunctionOnSet(F, D)
<1> DEFINE T == { n \in Nat : \A s \in SUBSET D : Cardinality(s) = n
                                => SumFunctionOnSet(G, s) <= SumFunctionOnSet(F, s) }
<1>f. \A s \in SUBSET D : IsFiniteSet(s) /\ Cardinality(s) \in Nat
  BY FS_Subset, FS_CardinalityType
<1>1. 0 \in T
  <2>1. \A s \in SUBSET D : Cardinality(s) = 0 => s = {}
    BY <1>f, FS_EmptySet
  <2> QED
    BY <2>1, SumNone
<1>2. ASSUME NEW n \in Nat, n \in T PROVE n + 1 \in T
  <2>1. ASSUME NEW s \in SUBSET D, Cardinality(s) = n + 1
        PROVE  SumFunctionOnSet(G, s) <= SumFunctionOnSet(F, s)
    <3>1. PICK y : y \in s
      BY <1>f, <2>1, FS_EmptySet
    <3> DEFINE r == s \ {y}
    <3>2. r \in SUBSET D /\ Cardinality(r) = n /\ IsFiniteSet(s) /\ IsFiniteSet(r)
      <4>1. IsFiniteSet(s) /\ Cardinality(s) = n + 1
        BY <1>f, <2>1
      <4>2. IsFiniteSet(r) /\ Cardinality(r) = Cardinality(s) - 1
        BY <3>1, <4>1, FS_RemoveElement
      <4> QED
        BY <4>1, <4>2
    <3>3. SumFunctionOnSet(G, r) <= SumFunctionOnSet(F, r)
      BY <1>2, <3>2
    <3>4. SumFunctionOnSet(F, s) = F[y] + SumFunctionOnSet(F, r)
      BY <3>1, <3>2, SumAdd
    <3>5. SumFunctionOnSet(G, s) = G[y] + SumFunctionOnSet(G, r)
      BY <3>1, <3>2, SumAdd
    <3>6. \A x \in r : F[x] \in Nat /\ G[x] \in Nat
      BY <3>2
    <3> HIDE DEF r
    <3>7. SumFunctionOnSet(F, r) \in Nat /\ SumFunctionOnSet(G, r) \in Nat
      BY <3>2, <3>6, SumNatural
    <3> QED
      BY <3>1, <3>3, <3>4, <3>5, <3>7
  <2> QED
    BY <2>1
<1> HIDE DEF T
<1>3. \A n \in Nat : n \in T
  BY <1>1, <1>2, SetInduction
<1> QED
  BY <1>3, <1>f DEF T

LEMMA SumSmaller ==
  ASSUME NEW F, NEW G, NEW D, IsFiniteSet(D),
         \A x \in D : F[x] \in Nat /\ G[x] \in Nat /\ G[x] <= F[x],
         NEW k \in D, G[k] < F[k]
  PROVE  SumFunctionOnSet(G, D) < SumFunctionOnSet(F, D)
<1> DEFINE r == D \ {k}
<1>1. IsFiniteSet(r)
  BY FS_RemoveElement
<1>2. SumFunctionOnSet(G, r) <= SumFunctionOnSet(F, r)
  BY <1>1, SumLess
<1>3. SumFunctionOnSet(F, D) = F[k] + SumFunctionOnSet(F, r)
  BY SumAdd
<1>4. SumFunctionOnSet(G, D) = G[k] + SumFunctionOnSet(G, r)
  BY SumAdd
<1>5. SumFunctionOnSet(F, r) \in Nat /\ SumFunctionOnSet(G, r) \in Nat
  BY <1>1, SumNatural
<1> QED
  BY <1>2, <1>3, <1>4, <1>5

===============================================================================
