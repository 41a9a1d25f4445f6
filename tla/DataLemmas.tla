----------------------------- MODULE DataLemmas -----------------------------
(***************************************************************************)
(* Facts about numbers and finite sets that several of the proofs need.    *)
(* Induction is stated over sets of numbers, so that a caller gives the    *)
(* set of numbers its claim holds of.                                      *)
(***************************************************************************)
EXTENDS Naturals, FiniteSets, FiniteSetsExt, Functions, FiniteSetTheorems,
        WellFoundedInduction, TLAPS

(* A set of numbers that is not empty has a least one.                     *)
LEMMA LeastNumber ==
    ASSUME NEW T \in SUBSET Nat, T # {}
    PROVE  \E n \in T : \A m \in T : n <= m
<1>1. PICK n \in T : \A m \in T : <<m, n>> \notin OpToRel(<, Nat)
  BY NatLessThanWellFounded, WFMin, Zenon
<1>2. \A m \in T : ~(m < n)
  BY <1>1 DEF OpToRel
<1>3. QED
  BY <1>2

(* Induction: a set with 0 and with the successor of each of its members   *)
(* holds every number.                                                     *)
LEMMA SetInduction ==
    ASSUME NEW T, 0 \in T, \A n \in Nat : n \in T => n + 1 \in T
    PROVE  Nat \subseteq T
<1>1. SUFFICES ASSUME Nat \ T # {} PROVE FALSE
  OBVIOUS
<1>2. PICK n \in Nat \ T : \A m \in Nat \ T : n <= m
  BY <1>1, LeastNumber
<1>3. n # 0 /\ n - 1 \in Nat /\ n - 1 \notin Nat \ T
  BY <1>2
<1>4. QED
  BY <1>2, <1>3

(* A finite set of numbers that is not empty has a largest one.            *)
LEMMA MaxOfFinite ==
    ASSUME NEW S \in SUBSET Nat, S # {}, IsFiniteSet(S)
    PROVE  Max(S) \in S /\ \A n \in S : Max(S) >= n
<1> DEFINE HasMax(U) == \E x \in U : \A y \in U : x >= y
           T == {n \in Nat : \A U \in SUBSET S :
                               U # {} /\ Cardinality(U) = n => HasMax(U)}
<1>1. \A U \in SUBSET S : IsFiniteSet(U) /\ Cardinality(U) \in Nat
  BY FS_Subset, FS_CardinalityType
<1>2. 0 \in T
  BY <1>1, FS_EmptySet
<1>3. ASSUME NEW n \in Nat, n \in T PROVE n + 1 \in T
  <2> SUFFICES ASSUME NEW U \in SUBSET S, U # {}, Cardinality(U) = n + 1
               PROVE  HasMax(U)
    OBVIOUS
  <2>1. PICK x \in U : TRUE
    OBVIOUS
  <2> DEFINE V == U \ {x}
  <2>2. Cardinality(V) = n
    BY <1>1, FS_RemoveElement
  <2>3. CASE V = {}
    BY <2>3
  <2>4. CASE V # {}
    <3>1. PICK y \in V : \A z \in V : y >= z
      BY <1>3, <2>2, <2>4
    <3>2. x \in Nat /\ y \in Nat /\ U \subseteq Nat
      OBVIOUS
    <3>3. \A z \in U : z = x \/ z \in V
      OBVIOUS
    <3> HIDE DEF V
    <3>4. CASE x >= y
      <4>1. \A z \in U : x >= z
        BY <3>1, <3>2, <3>3, <3>4
      <4>2. QED BY <4>1
    <3>5. CASE ~(x >= y)
      <4>1. \A z \in U : y >= z
        BY <3>1, <3>2, <3>3, <3>5
      <4>2. y \in U BY DEF V
      <4>3. QED BY <4>1, <4>2
    <3>6. QED BY <3>4, <3>5
  <2>5. QED BY <2>3, <2>4
<1> HIDE DEF T
<1>4. Nat \subseteq T
  BY <1>2, <1>3, SetInduction
<1>5. HasMax(S)
  <2>1. Cardinality(S) \in T
    BY <1>1, <1>4
  <2>2. QED BY <2>1 DEF T
<1>6. QED BY <1>5 DEF Max

(* What the inductions over the subsets of a finite set use.               *)
LEMMA SubsetCard ==
    ASSUME NEW T, IsFiniteSet(T)
    PROVE  \A s \in SUBSET T :
              /\ IsFiniteSet(s) /\ Cardinality(s) \in Nat
              /\ Cardinality(s) = 0 <=> s = {}
              /\ \A y \in s : Cardinality(s \ {y}) = Cardinality(s) - 1
<1> SUFFICES ASSUME NEW s \in SUBSET T
             PROVE  /\ IsFiniteSet(s) /\ Cardinality(s) \in Nat
                    /\ Cardinality(s) = 0 <=> s = {}
                    /\ \A y \in s : Cardinality(s \ {y}) = Cardinality(s) - 1
  OBVIOUS
<1>1. IsFiniteSet(s)
  BY FS_Subset
<1>2. Cardinality(s) \in Nat /\ (Cardinality(s) = 0 <=> s = {})
  BY <1>1, FS_CardinalityType, FS_EmptySet
<1>3. ASSUME NEW y \in s PROVE Cardinality(s \ {y}) = Cardinality(s) - 1
  BY <1>1, FS_RemoveElement
<1>4. QED BY <1>1, <1>2, <1>3

(* The values of a function on a finite set, and a function that never     *)
(* takes a value twice.                                                    *)
LEMMA ImageFinite ==
    ASSUME NEW S, IsFiniteSet(S), NEW T, NEW f \in [S -> T],
           \A t \in T : \E s \in S : f[s] = t
    PROVE  IsFiniteSet(T) /\ Cardinality(T) <= Cardinality(S)
<1>1. f \in Surjection(S, T)
  BY DEF Surjection
<1>2. QED BY <1>1, FS_Surjection

LEMMA OneToOne ==
    ASSUME NEW S, NEW T, IsFiniteSet(T), NEW f \in [S -> T],
           \A r, s \in S : f[r] = f[s] => r = s
    PROVE  IsFiniteSet(S) /\ Cardinality(S) <= Cardinality(T)
<1>1. f \in Injection(S, T)
  BY DEF Injection, IsInjective
<1>2. QED BY <1>1, FS_Injection

LEMMA DisjointCard ==
    ASSUME NEW S, NEW T, IsFiniteSet(S), IsFiniteSet(T), S \cap T = {}
    PROVE  Cardinality(S \cup T) = Cardinality(S) + Cardinality(T)
<1>1. Cardinality(S \cup T) = Cardinality(S) + Cardinality(T) - Cardinality({})
  BY FS_Union
<1>2. Cardinality(S) \in Nat /\ Cardinality(T) \in Nat /\ Cardinality({}) = 0
  BY FS_CardinalityType, FS_EmptySet
<1>3. QED BY <1>1, <1>2

-----------------------------------------------------------------------------
(* Sums.  SumFunction of the library adds the values of a function in the  *)
(* order in which CHOOSE picks the arguments.                              *)
Picked(s) == CHOOSE x \in s : TRUE
Sums(f, T, g) ==
    g = [s \in SUBSET T |-> IF s = {} THEN 0 ELSE f[Picked(s)] + g[s \ {Picked(s)}]]

LEMMA SumIsChosen ==
    ASSUME NEW T, NEW f \in [T -> Nat]
    PROVE  SumFunction(f) = (CHOOSE g : Sums(f, T, g))[T]
  BY DEF SumFunction, SumFunctionOnSet, FoldFunctionOnSet, MapThenFoldSet, Sums, Picked

(* The recursion behind the sum has a solution, and its values are numbers. *)
LEMMA SumsExists ==
    ASSUME NEW T, IsFiniteSet(T), NEW f \in [T -> Nat]
    PROVE  \E g \in [SUBSET T -> Nat] : Sums(f, T, g)
<1> DEFINE Small(n) == {s \in SUBSET T : Cardinality(s) <= n}
           Solves(n, g) ==
              \A s \in Small(n) :
                 g[s] = IF s = {} THEN 0 ELSE f[Picked(s)] + g[s \ {Picked(s)}]
           K == {n \in Nat : \E g \in [SUBSET T -> Nat] : Solves(n, g)}
<1>1. \A s \in SUBSET T : Cardinality(s) \in Nat
  BY SubsetCard
<1>2. \A s \in SUBSET T : s # {} =>
         /\ Picked(s) \in s
         /\ s \ {Picked(s)} \in SUBSET T
         /\ Cardinality(s \ {Picked(s)}) = Cardinality(s) - 1
  <2>1. \A s \in SUBSET T : s # {} => Picked(s) \in s
    BY DEF Picked
  <2>2. QED BY <2>1, SubsetCard
<1>3. \A s \in SUBSET T : Cardinality(s) = 0 <=> s = {}
  BY SubsetCard
<1>4. 0 \in K
  <2> DEFINE g == [s \in SUBSET T |-> 0]
  <2>1. g \in [SUBSET T -> Nat]
    OBVIOUS
  <2>2. \A s \in Small(0) : s = {}
    BY <1>1, <1>3
  <2>3. Solves(0, g)
    BY <2>2
  <2>4. QED BY <2>1, <2>3
<1>5. ASSUME NEW n \in Nat, n \in K PROVE n + 1 \in K
  <2>1. PICK g \in [SUBSET T -> Nat] : Solves(n, g)
    BY <1>5
  <2> DEFINE h == [s \in SUBSET T |->
                     IF Cardinality(s) = n + 1 THEN f[Picked(s)] + g[s \ {Picked(s)}]
                     ELSE g[s]]
  <2>2. h \in [SUBSET T -> Nat]
    <3> SUFFICES ASSUME NEW s \in SUBSET T, Cardinality(s) = n + 1
                 PROVE  f[Picked(s)] + g[s \ {Picked(s)}] \in Nat
      OBVIOUS
    <3>1. s # {}
      BY <1>3
    <3>2. Picked(s) \in T /\ s \ {Picked(s)} \in SUBSET T
      BY <1>2, <3>1
    <3>3. f[Picked(s)] \in Nat /\ g[s \ {Picked(s)}] \in Nat
      BY <3>2
    <3>4. QED BY <3>3
  <2>3. ASSUME NEW s \in Small(n + 1), s # {}
        PROVE  h[s] = f[Picked(s)] + h[s \ {Picked(s)}]
    <3> DEFINE r == s \ {Picked(s)}
    <3>1. r \in SUBSET T /\ Cardinality(r) = Cardinality(s) - 1 /\ Cardinality(s) \in Nat
          /\ Cardinality(s) <= n + 1 /\ s \in SUBSET T
      BY <1>1, <1>2, <2>3
    <3>2. h[r] = g[r]
      BY <3>1
    <3>3. CASE Cardinality(s) = n + 1
      BY <3>1, <3>2, <3>3
    <3>4. CASE Cardinality(s) # n + 1
      <4>1. s \in Small(n)
        BY <3>1, <3>4
      <4>2. g[s] = f[Picked(s)] + g[r]
        BY <2>1, <2>3, <4>1
      <4>3. QED BY <3>1, <3>2, <3>4, <4>2
    <3>5. QED BY <3>3, <3>4
  <2>4. h[{}] = 0
    <3>1. Cardinality({}) = 0 /\ {} \in Small(n)
      BY <1>3
    <3>2. g[{}] = 0
      BY <2>1, <3>1
    <3>3. QED BY <3>1, <3>2
  <2> HIDE DEF h
  <2>5. Solves(n + 1, h)
    BY <2>3, <2>4
  <2> HIDE DEF Solves
  <2>6. QED BY <2>2, <2>5
<1> HIDE DEF K
<1>6. Nat \subseteq K
  BY <1>4, <1>5, SetInduction
<1>7. PICK g \in [SUBSET T -> Nat] : Solves(Cardinality(T), g)
  BY <1>1, <1>6 DEF K
<1>8. \A s \in SUBSET T : s \in Small(Cardinality(T))
  BY FS_Subset
<1>9. Sums(f, T, g)
  BY <1>7, <1>8 DEF Sums
<1>10. QED BY <1>9

(* Any argument may be added last: the order does not matter.              *)
LEMMA SumsRemove ==
    ASSUME NEW T, IsFiniteSet(T), NEW f \in [T -> Nat],
           NEW g \in [SUBSET T -> Nat], Sums(f, T, g)
    PROVE  /\ g[{}] = 0
           /\ \A s \in SUBSET T : \A y \in s : g[s] = f[y] + g[s \ {y}]
<1> DEFINE K == {n \in Nat : \A s \in SUBSET T : Cardinality(s) = n =>
                               \A y \in s : g[s] = f[y] + g[s \ {y}]}
<1>1. \A s \in SUBSET T : Cardinality(s) \in Nat
  BY SubsetCard
<1>2. g[{}] = 0
  BY DEF Sums
<1>3. \A s \in SUBSET T : s # {} => g[s] = f[Picked(s)] + g[s \ {Picked(s)}]
  BY DEF Sums
<1>4. \A s \in SUBSET T : \A y \in s : Cardinality(s \ {y}) = Cardinality(s) - 1
  BY SubsetCard
<1>5. 0 \in K
  BY SubsetCard
<1>6. ASSUME NEW n \in Nat, n \in K PROVE n + 1 \in K
  <2> SUFFICES ASSUME NEW s \in SUBSET T, Cardinality(s) = n + 1, NEW y \in s
               PROVE  g[s] = f[y] + g[s \ {y}]
    OBVIOUS
  <2> DEFINE x == Picked(s)
             sx == s \ {x}
             sy == s \ {y}
             sxy == sx \ {y}
  <2>1. x \in s
    BY DEF Picked
  <2>2. g[s] = f[x] + g[sx]
    BY <1>3
  <2>3. CASE y = x
    BY <2>2, <2>3
  <2>4. CASE y # x
    <3>1. sx \in SUBSET T /\ sy \in SUBSET T /\ Cardinality(sx) = n /\ Cardinality(sy) = n
      BY <1>4, <2>1
    <3>2. y \in sx /\ x \in sy /\ sy \ {x} = sxy
      BY <2>1, <2>4
    <3>3. g[sx] = f[y] + g[sxy]
      BY <1>6, <3>1, <3>2
    <3>4. g[sy] = f[x] + g[sy \ {x}]
      BY <1>6, <3>1, <3>2
    <3>a. g[sy] = f[x] + g[sxy]
      BY <3>2, <3>4
    <3>5. f[x] \in Nat /\ f[y] \in Nat /\ g[sxy] \in Nat
      BY <2>1, <3>1
    <3> HIDE DEF x, sx, sy, sxy
    <3>6. g[s] = f[y] + g[sy]
      BY <2>2, <3>3, <3>a, <3>5
    <3>7. QED BY <3>6 DEF sy
  <2>5. QED BY <2>3, <2>4
<1> HIDE DEF K
<1>7. Nat \subseteq K
  BY <1>5, <1>6, SetInduction
<1>8. QED BY <1>1, <1>2, <1>7 DEF K

(* The sum of f is the value of a function of the sets of its arguments to *)
(* which each argument adds its value, whichever order they are taken in.  *)
Additive(f, T, g) ==
    /\ g[{}] = 0
    /\ \A s \in SUBSET T : \A y \in s : g[s] = f[y] + g[s \ {y}]

LEMMA SumIsSums ==
    ASSUME NEW T, IsFiniteSet(T), NEW f \in [T -> Nat]
    PROVE  \E g \in [SUBSET T -> Nat] :
              SumFunction(f) = g[T] /\ Additive(f, T, g)
<1> DEFINE g == CHOOSE g : Sums(f, T, g)
<1>1. PICK h \in [SUBSET T -> Nat] : Sums(f, T, h)
  BY SumsExists
<1>2. Sums(f, T, g)
  BY <1>1
<1> HIDE DEF g
<1>3. \A s \in SUBSET T : g[s] = h[s]
  <2> DEFINE K == {n \in Nat : \A s \in SUBSET T : Cardinality(s) = n => g[s] = h[s]}
  <2>1. \A s \in SUBSET T : Cardinality(s) \in Nat
    BY SubsetCard
  <2>2. 0 \in K
    <3> SUFFICES ASSUME NEW s \in SUBSET T, Cardinality(s) = 0 PROVE g[s] = h[s]
      OBVIOUS
    <3>1. s = {}
      BY SubsetCard
    <3>2. QED BY <1>1, <1>2, <3>1 DEF Sums
  <2>3. ASSUME NEW n \in Nat, n \in K PROVE n + 1 \in K
    <3> SUFFICES ASSUME NEW s \in SUBSET T, Cardinality(s) = n + 1 PROVE g[s] = h[s]
      OBVIOUS
    <3>1. s # {}
      BY SubsetCard
    <3>2. Picked(s) \in s
      BY <3>1 DEF Picked
    <3>3. Cardinality(s \ {Picked(s)}) = n
      BY <3>2, SubsetCard
    <3>4. g[s \ {Picked(s)}] = h[s \ {Picked(s)}]
      BY <2>3, <3>3
    <3>5. g[s] = f[Picked(s)] + g[s \ {Picked(s)}]
      BY <1>2, <3>1 DEF Sums
    <3>6. h[s] = f[Picked(s)] + h[s \ {Picked(s)}]
      BY <1>1, <3>1 DEF Sums
    <3>7. QED BY <3>4, <3>5, <3>6
  <2> HIDE DEF K
  <2>4. Nat \subseteq K
    BY <2>2, <2>3, SetInduction
  <2>5. QED BY <2>1, <2>4 DEF K
<1>4. g[T] = h[T]
  BY <1>3
<1>5. SumFunction(f) = h[T]
  BY <1>4, SumIsChosen DEF g
<1>6. Additive(f, T, h)
  BY <1>1, SumsRemove DEF Additive
<1>7. QED BY <1>5, <1>6

LEMMA SumIsNat ==
    ASSUME NEW T, IsFiniteSet(T), NEW f \in [T -> Nat]
    PROVE  SumFunction(f) \in Nat
<1>1. PICK g \in [SUBSET T -> Nat] : SumFunction(f) = g[T] /\ Additive(f, T, g)
  BY SumIsSums
<1>2. QED BY <1>1

(* When each argument of f with a value that is not 0 is reached from one  *)
(* of h whose value is no smaller, f sums to no more than h.               *)
LEMMA SumDominated ==
    ASSUME NEW T, IsFiniteSet(T), NEW f \in [T -> Nat],
           NEW U, IsFiniteSet(U), NEW h \in [U -> Nat], NEW e \in [U -> T],
           \A u \in U : f[e[u]] <= h[u],
           \A t \in T : f[t] # 0 => \E u \in U : e[u] = t
    PROVE  SumFunction(f) <= SumFunction(h)
<1>f. PICK gf \in [SUBSET T -> Nat] : SumFunction(f) = gf[T] /\ Additive(f, T, gf)
  BY SumIsSums
<1>h. PICK gh \in [SUBSET U -> Nat] : SumFunction(h) = gh[U] /\ Additive(h, U, gh)
  BY SumIsSums
<1>1. /\ gf[{}] = 0
      /\ \A s \in SUBSET T : \A y \in s : gf[s] = f[y] + gf[s \ {y}]
  BY <1>f DEF Additive
<1>2. \A v \in SUBSET U : \A y \in v : gh[v] = h[y] + gh[v \ {y}]
  BY <1>h DEF Additive
<1> DEFINE Covers(v, s) == \A t \in s : f[t] # 0 => \E u \in v : e[u] = t
           K == {n \in Nat : \A v \in SUBSET U : Cardinality(v) = n =>
                   \A s \in SUBSET T : Covers(v, s) => gf[s] <= gh[v]}
<1>3. \A v \in SUBSET U : Cardinality(v) \in Nat
  BY SubsetCard
<1>4. \A s \in SUBSET T : (\A t \in s : f[t] = 0) => gf[s] = 0
  <2> DEFINE Z == {n \in Nat : \A s \in SUBSET T :
                     Cardinality(s) = n /\ (\A t \in s : f[t] = 0) => gf[s] = 0}
  <2>1. \A s \in SUBSET T : Cardinality(s) \in Nat
    BY SubsetCard
  <2>2. 0 \in Z
    BY <1>1, SubsetCard
  <2>3. ASSUME NEW n \in Nat, n \in Z PROVE n + 1 \in Z
    <3> SUFFICES ASSUME NEW s \in SUBSET T, Cardinality(s) = n + 1, \A t \in s : f[t] = 0
                 PROVE  gf[s] = 0
      OBVIOUS
    <3>1. PICK y \in s : TRUE
      BY SubsetCard
    <3>a. Cardinality(s \ {y}) = Cardinality(s) - 1
      BY <3>1, SubsetCard
    <3>2. Cardinality(s \ {y}) = n
      BY <3>a
    <3>3. gf[s \ {y}] = 0
      BY <2>3, <3>2
    <3>4. gf[s] = f[y] + gf[s \ {y}]
      BY <1>1
    <3>5. QED BY <3>3, <3>4
  <2> HIDE DEF Z
  <2>4. Nat \subseteq Z
    BY <2>2, <2>3, SetInduction
  <2>5. QED BY <2>1, <2>4 DEF Z
<1>5. 0 \in K
  <2> SUFFICES ASSUME NEW v \in SUBSET U, Cardinality(v) = 0,
                      NEW s \in SUBSET T, Covers(v, s)
               PROVE  gf[s] <= gh[v]
    OBVIOUS
  <2>1. v = {}
    BY SubsetCard
  <2>2. \A t \in s : f[t] = 0
    BY <2>1
  <2>3. gf[s] = 0 /\ gh[v] \in Nat
    BY <1>4, <2>2
  <2>4. QED BY <2>3
<1>6. ASSUME NEW n \in Nat, n \in K PROVE n + 1 \in K
  <2> SUFFICES ASSUME NEW v \in SUBSET U, Cardinality(v) = n + 1,
                      NEW s \in SUBSET T, Covers(v, s)
               PROVE  gf[s] <= gh[v]
    OBVIOUS
  <2>1. PICK u \in v : TRUE
    BY SubsetCard
  <2> DEFINE r == s \ {e[u]}
             w == v \ {u}
  <2>2. w \in SUBSET U /\ Cardinality(w) = n /\ r \in SUBSET T
    BY <2>1, SubsetCard
  <2>3. Covers(w, r)
    OBVIOUS
  <2>4. gf[r] <= gh[w]
    BY <1>6, <2>2, <2>3
  <2>5. gh[v] = h[u] + gh[w]
    BY <1>2
  <2>6. gf[r] \in Nat /\ gh[w] \in Nat /\ h[u] \in Nat /\ e[u] \in T /\ f[e[u]] \in Nat
    BY <2>2
  <2>7. gf[s] = gf[r] \/ gf[s] = f[e[u]] + gf[r]
    <3>1. CASE e[u] \in s
      BY <1>1, <3>1
    <3>2. CASE e[u] \notin s
      BY <3>2
    <3>3. QED BY <3>1, <3>2
  <2>8. f[e[u]] <= h[u]
    OBVIOUS
  <2> HIDE DEF r, w
  <2>9. QED BY <2>4, <2>5, <2>6, <2>7, <2>8
<1>7. Covers(U, T)
  OBVIOUS
<1> HIDE DEF K
<1>8. Nat \subseteq K
  BY <1>5, <1>6, SetInduction
<1>9. Cardinality(U) \in K
  BY <1>3, <1>8
<1>10. gf[T] <= gh[U]
  BY <1>7, <1>9 DEF K
<1>11. QED BY <1>f, <1>h, <1>10
=============================================================================
