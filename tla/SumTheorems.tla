------------------------------ MODULE SumTheorems ------------------------------
(***************************************************************************)
(* Facts about sums over finite sets, of any size, and about the least     *)
(* element of a set of numbers.  Total is the sum the community modules    *)
(* compute with SumFunction and MapThenSumSet: the same recursion over the *)
(* subsets, which takes one element away at a time.                        *)
(*                                                                         *)
(* Induction is over sets of sets, which needs no operator parameter: a    *)
(* finite set of subsets has a smallest one.                               *)
(***************************************************************************)
EXTENDS Integers, FiniteSets, FiniteSetTheorems, WellFoundedInduction, TLAPS

Pick(S)         == CHOOSE x \in S : TRUE
Partial(f, g, s) == IF s = {} THEN 0 ELSE f[Pick(s)] + g[s \ {Pick(s)}]
IsSum(g, f, S)  == g = [s \in SUBSET S |-> Partial(f, g, s)]
Total(f, S)     == (CHOOSE g : IsSum(g, f, S))[S]

-----------------------------------------------------------------------------
(* A finite set of sets has a smallest one.                                *)
LEMMA SmallestSet ==
  ASSUME NEW S, IsFiniteSet(S), NEW T \in SUBSET SUBSET S, T # {}
  PROVE  \E x \in T : \A y \in T : y \subseteq x => y = x
<1>1. FiniteSubsetsOf(S) = SUBSET S
  BY FS_FiniteSubsetsOfFinite
<1>2. IsWellFoundedOn(StrictSubsetOrdering(S), SUBSET S)
  BY <1>1, FS_StrictSubsetOrderingWellFounded
<1>3. PICK x \in T : \A y \in T : ~ (<<y, x>> \in StrictSubsetOrdering(S))
  BY <1>2, WFMin
<1>4. \A y \in T : y \subseteq x => y = x
  BY <1>3 DEF StrictSubsetOrdering
<1> QED BY <1>4

(* What holds of {} and survives one more element holds of a finite set.   *)
LEMMA OneByOne ==
  ASSUME NEW S, IsFiniteSet(S), NEW Good \in SUBSET SUBSET S, {} \in Good,
         \A T \in Good, x \in S : T \cup {x} \in Good
  PROVE  \A T \in SUBSET S : T \in Good
<1> DEFINE Bad == (SUBSET S) \ Good
<1> SUFFICES ASSUME Bad # {} PROVE FALSE
  OBVIOUS
<1>1. Bad \in SUBSET SUBSET S
  OBVIOUS
<1>2. PICK B \in Bad : \A C \in Bad : C \subseteq B => C = B
  <2> HIDE DEF Bad
  <2> QED BY <1>1, SmallestSet
<1>3. PICK x \in B : TRUE
  OBVIOUS
<1>4. B \ {x} \in Good /\ x \in S /\ (B \ {x}) \cup {x} = B
  BY <1>2
<1> QED BY <1>2, <1>4

(* A set of numbers has a least one.                                       *)
Below(S, n) == {k \in S : k <= n}

LEMMA LeastNumber ==
  ASSUME NEW S \in SUBSET Nat, S # {}
  PROVE  \E m \in S : \A n \in S : m <= n
<1>1. PICK b \in S : TRUE
  OBVIOUS
<1> DEFINE B     == Below(S, b)
           Downs == {Below(S, n) : n \in B}
<1>2. B \in SUBSET Nat /\ b \in B /\ \A k \in B : k <= b
  <2>1. b \in B
    BY DEF Below
  <2>2. \A k \in B : k \in Nat /\ k <= b
    BY DEF Below
  <2> QED BY <2>1, <2>2
<1>3. IsFiniteSet(B)
  <2> b \in Nat
    OBVIOUS
  <2> HIDE DEF B
  <2> QED BY <1>2, FS_BoundedSetOfNaturals
<1>4. \A n \in B : Below(S, n) \in SUBSET B
  <2> SUFFICES ASSUME NEW n \in B, NEW k \in Below(S, n) PROVE k \in B
    OBVIOUS
  <2>1. k \in S /\ n \in S /\ k <= n /\ n <= b
    BY DEF Below
  <2>2. k <= b
    BY <2>1
  <2> QED BY <2>1, <2>2 DEF Below
<1>5. PICK D \in Downs : \A y \in Downs : y \subseteq D => y = D
  <2>1. Downs \in SUBSET SUBSET B /\ Downs # {}
    <3> HIDE DEF B
    <3> QED BY <1>2, <1>4, Zenon
  <2> HIDE DEF Downs, B
  <2> QED BY <1>3, <2>1, SmallestSet
<1>6. PICK m \in B : D = Below(S, m)
  BY <1>5, Zenon
<1>7. m \in S /\ m <= b
  BY DEF Below
<1>8. ASSUME NEW n \in S, n < m PROVE FALSE
  <2>1. n \in B
    BY <1>7, <1>8 DEF Below
  <2>2. \A k \in Below(S, n) : k \in Below(S, m)
    <3> SUFFICES ASSUME NEW k \in Below(S, n) PROVE k \in Below(S, m)
      OBVIOUS
    <3>1. k \in S /\ k <= n
      BY DEF Below
    <3>2. k <= m
      BY <1>7, <1>8, <3>1
    <3> QED BY <3>1, <3>2 DEF Below
  <2>3. m \notin Below(S, n) /\ m \in Below(S, m)
    BY <1>7, <1>8 DEF Below
  <2>4. Below(S, n) \in Downs
    BY <2>1, Zenon
  <2> HIDE DEF Downs, B
  <2> QED BY <1>5, <1>6, <2>2, <2>3, <2>4
<1>9. \A n \in S : m <= n
  BY <1>7, <1>8
<1> QED BY <1>7, <1>9

-----------------------------------------------------------------------------
(* The recursion has one solution.                                         *)

LEMMA PickFrom == \A S : S # {} => Pick(S) \in S
BY DEF Pick

LEMMA SumsAgree ==
  ASSUME NEW S, IsFiniteSet(S), NEW V, NEW T, T \in SUBSET S, T \in SUBSET V,
         NEW f, NEW g, NEW h, IsSum(g, f, S), IsSum(h, f, V)
  PROVE  g[T] = h[T]
<1> DEFINE Bad == {U \in SUBSET (S \cap V) : g[U] # h[U]}
<1> SUFFICES ASSUME Bad # {} PROVE FALSE
  OBVIOUS
<1>1. PICK U \in Bad : \A C \in Bad : C \subseteq U => C = U
  <2>1. Bad \in SUBSET SUBSET S
    OBVIOUS
  <2> HIDE DEF Bad
  <2> QED BY <2>1, SmallestSet
<1>2. U \in SUBSET S /\ U \in SUBSET V /\ g[U] # h[U]
  OBVIOUS
<1>3. g[U] = Partial(f, g, U) /\ h[U] = Partial(f, h, U)
  BY <1>2 DEF IsSum
<1>4. U # {}
  BY <1>2, <1>3 DEF Partial
<1>5. Pick(U) \in U
  BY <1>4, PickFrom
<1>6. g[U \ {Pick(U)}] = h[U \ {Pick(U)}]
  <2>1. U \ {Pick(U)} \in SUBSET (S \cap V) /\ U \ {Pick(U)} \subseteq U /\ U \ {Pick(U)} # U
    BY <1>2, <1>5
  <2>2. U \ {Pick(U)} \notin Bad
    BY <1>1, <2>1
  <2> QED BY <2>1, <2>2
<1> QED BY <1>2, <1>3, <1>4, <1>6 DEF Partial

LEMMA SumExists ==
  ASSUME NEW S, IsFiniteSet(S), NEW f
  PROVE  \E g : IsSum(g, f, S)
<1> DEFINE Good == {T \in SUBSET S : \E g : IsSum(g, f, T)}
           Bad  == (SUBSET S) \ Good
<1> SUFFICES ASSUME Bad # {} PROVE FALSE
  OBVIOUS
<1>1. PICK T \in Bad : \A C \in Bad : C \subseteq T => C = T
  <2>1. Bad \in SUBSET SUBSET S
    OBVIOUS
  <2> HIDE DEF Bad
  <2> QED BY <2>1, SmallestSet
<1> DEFINE G(U) == CHOOSE g : IsSum(g, f, U)
           h(U) == G(U)[U]
<1>2. ASSUME NEW U \in SUBSET T, U # T PROVE IsSum(G(U), f, U)
  <2>1. U \notin Bad
    BY <1>1, <1>2
  <2>2. \E g : IsSum(g, f, U)
    BY <2>1
  <2> HIDE DEF IsSum
  <2> QED BY <2>2
<1>3. ASSUME NEW U \in SUBSET T, U # T PROVE h(U) = IF U = {} THEN 0 ELSE f[Pick(U)] + h(U \ {Pick(U)})
  <2>1. G(U) = [s \in SUBSET U |-> Partial(f, G(U), s)]
    BY <1>2, <1>3 DEF IsSum
  <2>2. h(U) = Partial(f, G(U), U)
    <3> HIDE DEF G
    <3> QED BY <2>1
  <2>3. CASE U = {}
    BY <2>2, <2>3 DEF Partial
  <2>4. CASE U # {}
    <3> DEFINE V == U \ {Pick(U)}
    <3>1. Pick(U) \in U
      BY <2>4, PickFrom
    <3>2. V \in SUBSET T /\ V # T /\ V \in SUBSET U
      BY <3>1
    <3>3. IsSum(G(V), f, V) /\ IsSum(G(U), f, U)
      BY <1>2, <1>3, <3>2
    <3>4. IsFiniteSet(U)
      BY FS_Subset
    <3>5. G(U)[V] = G(V)[V]
      <4> HIDE DEF G, V
      <4> QED BY <3>2, <3>3, <3>4, SumsAgree
    <3>6. h(U) = f[Pick(U)] + G(U)[V]
      BY <2>2, <2>4 DEF Partial
    <3> QED BY <2>4, <3>5, <3>6
  <2> QED BY <2>3, <2>4
<1> DEFINE k == [U \in SUBSET T |-> IF U = {} THEN 0 ELSE f[Pick(U)] + h(U \ {Pick(U)})]
<1>4. ASSUME NEW U \in SUBSET T PROVE k[U] = Partial(f, k, U)
  <2>1. CASE U = {}
    BY <2>1 DEF Partial
  <2>2. CASE U # {}
    <3> DEFINE V == U \ {Pick(U)}
    <3>1. Pick(U) \in U
      BY <2>2, PickFrom
    <3>2. V \in SUBSET T /\ V # T
      BY <3>1
    <3>3. k[V] = h(V)
      <4>1. k[V] = IF V = {} THEN 0 ELSE f[Pick(V)] + h(V \ {Pick(V)})
        <5> HIDE DEF h, V
        <5> QED BY <3>2
      <4>2. h(V) = IF V = {} THEN 0 ELSE f[Pick(V)] + h(V \ {Pick(V)})
        <5> HIDE DEF h, V
        <5> QED BY <1>3, <3>2
      <4> QED BY <4>1, <4>2
    <3>4. k[U] = f[Pick(U)] + h(V)
      <4> HIDE DEF h
      <4> QED BY <2>2
    <3> HIDE DEF k, h
    <3> QED BY <2>2, <3>3, <3>4 DEF Partial
  <2> QED BY <2>1, <2>2
<1>5. IsSum(k, f, T)
  <2>1. k = [U \in SUBSET T |-> k[U]]
    <3> HIDE DEF h
    <3> QED OBVIOUS
  <2> HIDE DEF k
  <2> QED BY <1>4, <2>1, Zenon DEF IsSum
<1>6. ~ \E g : IsSum(g, f, T)
  BY <1>1
<1> HIDE DEF k
<1> QED BY <1>5, <1>6

(* Total unfolds as the recursion does.                                    *)
LEMMA TotalRecurses ==
  ASSUME NEW S, IsFiniteSet(S), NEW f
  PROVE  /\ Total(f, {}) = 0
         /\ S # {} => Total(f, S) = f[Pick(S)] + Total(f, S \ {Pick(S)})
<1> DEFINE G(U) == CHOOSE g : IsSum(g, f, U)
<1>1. \A U \in SUBSET S : IsSum(G(U), f, U)
  <2> SUFFICES ASSUME NEW U \in SUBSET S PROVE IsSum(G(U), f, U)
    OBVIOUS
  <2>1. \E g : IsSum(g, f, U)
    BY FS_Subset, SumExists
  <2> HIDE DEF IsSum
  <2> QED BY <2>1
<1>2. \A U \in SUBSET S : Total(f, U) = Partial(f, G(U), U)
  <2> SUFFICES ASSUME NEW U \in SUBSET S PROVE Total(f, U) = Partial(f, G(U), U)
    OBVIOUS
  <2>1. G(U) = [s \in SUBSET U |-> Partial(f, G(U), s)]
    BY <1>1 DEF IsSum
  <2>2. Total(f, U) = G(U)[U]
    BY DEF Total
  <2> HIDE DEF G
  <2> QED BY <2>1, <2>2
<1>3. Total(f, {}) = 0
  BY <1>2 DEF Partial
<1>4. ASSUME S # {} PROVE Total(f, S) = f[Pick(S)] + Total(f, S \ {Pick(S)})
  <2> DEFINE V == S \ {Pick(S)}
  <2>1. V \in SUBSET S
    OBVIOUS
  <2>2. G(S)[V] = G(V)[V]
    <3> HIDE DEF G, V
    <3> QED BY <1>1, <2>1, SumsAgree
  <2>3. Total(f, V) = G(V)[V]
    BY DEF Total
  <2>4. Total(f, S) = f[Pick(S)] + G(S)[V]
    BY <1>2, <1>4 DEF Partial
  <2> QED BY <2>2, <2>3, <2>4
<1> QED BY <1>3, <1>4

-----------------------------------------------------------------------------
(* What the proofs use.                                                    *)

(* An empty sum is 0, and sums are integers.                               *)
LEMMA TotalType ==
  ASSUME NEW S, IsFiniteSet(S), NEW f, \A x \in S : f[x] \in Int
  PROVE  Total(f, {}) = 0 /\ Total(f, S) \in Int
<1> DEFINE Bad == {T \in SUBSET S : Total(f, T) \notin Int}
<1>1. Total(f, {}) = 0
  BY TotalRecurses
<1> SUFFICES ASSUME Bad # {} PROVE FALSE
  BY <1>1
<1>2. PICK T \in Bad : \A C \in Bad : C \subseteq T => C = T
  <2>1. Bad \in SUBSET SUBSET S
    OBVIOUS
  <2> HIDE DEF Bad
  <2> QED BY <2>1, SmallestSet
<1>3. T \in SUBSET S /\ T # {} /\ Total(f, T) \notin Int
  BY <1>1
<1>4. Pick(T) \in T /\ f[Pick(T)] \in Int
  BY <1>3, PickFrom
<1>5. Total(f, T \ {Pick(T)}) \in Int
  <2>1. T \ {Pick(T)} \in SUBSET S /\ T \ {Pick(T)} \subseteq T /\ T \ {Pick(T)} # T
    BY <1>3, <1>4
  <2>2. T \ {Pick(T)} \notin Bad
    BY <1>2, <2>1
  <2> QED BY <2>1, <2>2
<1>6. IsFiniteSet(T)
  BY <1>3, FS_Subset
<1>7. Total(f, T) = f[Pick(T)] + Total(f, T \ {Pick(T)})
  BY <1>3, <1>6, TotalRecurses
<1> HIDE DEF Bad
<1> QED BY <1>3, <1>4, <1>5, <1>7

(* The order in which the elements are taken does not matter.              *)
LEMMA TotalAdd ==
  ASSUME NEW S, IsFiniteSet(S), NEW f, NEW x, x \notin S, \A y \in S \cup {x} : f[y] \in Int
  PROVE  Total(f, S \cup {x}) = Total(f, S) + f[x]
<1> DEFINE Bad == {T \in SUBSET S : ~ \A y \in (S \cup {x}) \ T :
                     Total(f, T \cup {y}) = Total(f, T) + f[y]}
<1> SUFFICES ASSUME Bad # {} PROVE FALSE
  OBVIOUS
<1>1. PICK T \in Bad : \A C \in Bad : C \subseteq T => C = T
  <2>1. Bad \in SUBSET SUBSET S
    OBVIOUS
  <2> HIDE DEF Bad
  <2> QED BY <2>1, SmallestSet
<1>2. PICK y \in (S \cup {x}) \ T : Total(f, T \cup {y}) # Total(f, T) + f[y]
  OBVIOUS
<1>3. \A U \in SUBSET T : U # T =>
        \A z \in (S \cup {x}) \ U : Total(f, U \cup {z}) = Total(f, U) + f[z]
  <2> SUFFICES ASSUME NEW U \in SUBSET T, U # T
               PROVE  \A z \in (S \cup {x}) \ U : Total(f, U \cup {z}) = Total(f, U) + f[z]
    OBVIOUS
  <2>1. U \notin Bad
    BY <1>1
  <2> QED BY <2>1
<1>4. T \in SUBSET S /\ IsFiniteSet(T) /\ IsFiniteSet(T \cup {y})
  BY FS_Subset, FS_AddElement
<1>5. \A U \in SUBSET (T \cup {y}) : Total(f, U) \in Int
  <2> SUFFICES ASSUME NEW U \in SUBSET (T \cup {y}) PROVE Total(f, U) \in Int
    OBVIOUS
  <2>1. IsFiniteSet(U) /\ \A z \in U : f[z] \in Int
    BY <1>4, FS_Subset
  <2> HIDE DEF Bad
  <2> QED BY <2>1, TotalType
<1> DEFINE c == Pick(T \cup {y})
<1>6. c \in T \cup {y} /\ Total(f, T \cup {y}) = f[c] + Total(f, (T \cup {y}) \ {c})
  <2>1. T \cup {y} # {}
    OBVIOUS
  <2> HIDE DEF Bad
  <2> QED BY <1>4, <2>1, PickFrom, TotalRecurses
<1> HIDE DEF c, Bad
<1>7. f[y] \in Int /\ f[c] \in Int
  BY <1>4, <1>6
<1>8. CASE c = y
  <2>1. (T \cup {y}) \ {c} = T
    BY <1>8
  <2>2. Total(f, T) \in Int
    BY <1>5
  <2>3. Total(f, T \cup {y}) = f[y] + Total(f, T)
    BY <1>6, <1>8, <2>1
  <2> QED BY <1>2, <1>7, <2>2, <2>3
<1>9. CASE c # y
  <2> DEFINE U == T \ {c}
  <2>1. U \in SUBSET T /\ U # T /\ y \in (S \cup {x}) \ U /\ c \in (S \cup {x}) \ U
    BY <1>4, <1>6, <1>9
  <2>2. (T \cup {y}) \ {c} = U \cup {y} /\ U \cup {c} = T
    BY <1>6, <1>9
  <2> HIDE DEF U
  <2>3. Total(f, U \cup {y}) = Total(f, U) + f[y]
    BY <1>3, <2>1
  <2>4. Total(f, T) = Total(f, U) + f[c]
    BY <1>3, <2>1, <2>2
  <2>5. Total(f, T \cup {y}) = f[c] + Total(f, U \cup {y})
    BY <1>6, <2>2
  <2>6. Total(f, U) \in Int
    BY <1>5, <2>1
  <2> QED BY <1>2, <1>7, <2>3, <2>4, <2>5, <2>6
<1> QED BY <1>8, <1>9

(* A sum of sums, element by element.                                      *)
Adds(h, f, g, S) == \A x \in S : f[x] \in Int /\ g[x] \in Int /\ h[x] = f[x] + g[x]

LEMMA OneMore ==
  ASSUME NEW T, IsFiniteSet(T), NEW x, x \notin T, NEW f, NEW g, NEW h,
         Adds(h, f, g, T \cup {x})
  PROVE  Total(h, T) = Total(f, T) + Total(g, T)
           => Total(h, T \cup {x}) = Total(f, T \cup {x}) + Total(g, T \cup {x})
<1>1. \A y \in T \cup {x} : f[y] \in Int
  BY DEF Adds
<1>2. \A y \in T \cup {x} : g[y] \in Int
  BY DEF Adds
<1>3. \A y \in T \cup {x} : h[y] \in Int
  BY DEF Adds
<1>4. Total(f, T \cup {x}) = Total(f, T) + f[x] /\ Total(f, T) \in Int
  BY <1>1, TotalAdd, TotalType
<1>5. Total(g, T \cup {x}) = Total(g, T) + g[x] /\ Total(g, T) \in Int
  BY <1>2, TotalAdd, TotalType
<1>6. Total(h, T \cup {x}) = Total(h, T) + h[x]
  BY <1>3, TotalAdd
<1>7. f[x] \in Int /\ g[x] \in Int /\ h[x] = f[x] + g[x]
  BY DEF Adds
<1> QED BY <1>4, <1>5, <1>6, <1>7

LEMMA TotalPlus ==
  ASSUME NEW S, IsFiniteSet(S), NEW f, NEW g, NEW h, Adds(h, f, g, S)
  PROVE  Total(h, S) = Total(f, S) + Total(g, S)
<1> DEFINE Good == {T \in SUBSET S : Total(h, T) = Total(f, T) + Total(g, T)}
<1>1. {} \in Good
  <2>1. Total(h, {}) = 0 /\ Total(f, {}) = 0 /\ Total(g, {}) = 0
    BY TotalRecurses
  <2> QED BY <2>1
<1>2. ASSUME NEW T \in Good, NEW x \in S PROVE T \cup {x} \in Good
  <2>1. T \in SUBSET S /\ T \cup {x} \in SUBSET S /\ Total(h, T) = Total(f, T) + Total(g, T)
    OBVIOUS
  <2>2. CASE x \in T
    <3>1. T \cup {x} = T
      BY <2>2
    <3> QED BY <3>1
  <2>3. CASE x \notin T
    <3>1. IsFiniteSet(T)
      BY <2>1, FS_Subset
    <3>2. Adds(h, f, g, T \cup {x})
      BY <2>1 DEF Adds
    <3>3. Total(h, T \cup {x}) = Total(f, T \cup {x}) + Total(g, T \cup {x})
      BY <2>1, <2>3, <3>1, <3>2, OneMore
    <3> QED BY <2>1, <3>3
  <2> QED BY <2>2, <2>3
<1>3. Good \in SUBSET SUBSET S
  OBVIOUS
<1> HIDE DEF Good
<1>4. S \in Good
  BY <1>1, <1>2, <1>3, OneByOne
<1> QED BY <1>4 DEF Good

(* Sums depend on what is summed only.                                     *)
LEMMA TotalSame ==
  ASSUME NEW S, IsFiniteSet(S), NEW f, NEW h, \A x \in S : f[x] \in Int /\ h[x] = f[x]
  PROVE  Total(h, S) = Total(f, S)
<1> DEFINE z == [x \in S |-> 0]
<1>1. Total(z, S) = Total(z, S) + Total(z, S) /\ Total(z, S) \in Int /\ Total(f, S) \in Int
  <2>1. Adds(z, z, z, S) /\ \A x \in S : z[x] \in Int
    BY DEF Adds
  <2> HIDE DEF z
  <2> QED BY <2>1, TotalPlus, TotalType
<1>2. Total(h, S) = Total(f, S) + Total(z, S)
  <2>1. Adds(h, f, z, S)
    BY DEF Adds
  <2> HIDE DEF z
  <2> QED BY <2>1, TotalPlus
<1> HIDE DEF z
<1>3. Total(z, S) = 0
  <2>1. \A n \in Int : n = n + n => n = 0
    OBVIOUS
  <2> QED BY <1>1, <2>1
<1> QED BY <1>1, <1>2, <1>3

(* Of numbers that are not negative, a sum is at least each of them, and   *)
(* 0 only where all of them are.                                           *)
LEMMA TotalNat ==
  ASSUME NEW S, IsFiniteSet(S), NEW f, \A x \in S : f[x] \in Nat
  PROVE  Total(f, S) \in Nat /\ \A x \in S : f[x] <= Total(f, S)
<1> DEFINE Good == {T \in SUBSET S : Total(f, T) \in Nat /\ \A x \in T : f[x] <= Total(f, T)}
<1>1. {} \in Good
  <2>1. Total(f, {}) = 0
    BY TotalRecurses
  <2> QED BY <2>1
<1>2. ASSUME NEW T \in Good, NEW x \in S PROVE T \cup {x} \in Good
  <2>1. CASE x \in T
    <3>1. T \cup {x} = T
      BY <2>1
    <3> QED BY <3>1
  <2>2. CASE x \notin T
    <3>1. T \in SUBSET S
      OBVIOUS
    <3>2. Total(f, T) \in Nat /\ \A y \in T : f[y] <= Total(f, T)
      OBVIOUS
    <3> HIDE DEF Good
    <3>3. Total(f, T \cup {x}) = Total(f, T) + f[x]
      <4>1. IsFiniteSet(T)
        BY <3>1, FS_Subset
      <4>2. \A y \in T \cup {x} : f[y] \in Int
        BY <3>1
      <4> QED BY <2>2, <4>1, <4>2, TotalAdd
    <3>4. f[x] \in Nat /\ \A y \in T : f[y] \in Nat
      BY <3>1
    <3>5. Total(f, T \cup {x}) \in Nat /\ \A y \in T \cup {x} : f[y] <= Total(f, T \cup {x})
      BY <3>2, <3>3, <3>4
    <3>6. T \cup {x} \in SUBSET S
      BY <3>1
    <3> QED BY <3>5, <3>6 DEF Good
  <2> QED BY <2>1, <2>2
<1>3. Good \in SUBSET SUBSET S
  OBVIOUS
<1> HIDE DEF Good
<1>4. S \in Good
  BY <1>1, <1>2, <1>3, OneByOne
<1> QED BY <1>4 DEF Good

(* One of the numbers changes.                                             *)
LEMMA TotalChange ==
  ASSUME NEW S, IsFiniteSet(S), NEW f, NEW h, NEW x \in S,
         \A y \in S : f[y] \in Int /\ h[y] \in Int, \A y \in S \ {x} : h[y] = f[y]
  PROVE  /\ Total(f, S) \in Int /\ Total(h, S) \in Int
         /\ Total(h, S) = Total(f, S) - f[x] + h[x]
<1> DEFINE T == S \ {x}
<1>1. IsFiniteSet(T) /\ T \cup {x} = S /\ x \notin T
  BY FS_RemoveElement
<1>2. \A y \in T : f[y] \in Int /\ h[y] \in Int /\ h[y] = f[y]
  OBVIOUS
<1>3. f[x] \in Int /\ h[x] \in Int
  OBVIOUS
<1> HIDE DEF T
<1>4. Total(f, S) = Total(f, T) + f[x] /\ Total(h, S) = Total(h, T) + h[x]
  <2>0. IsFiniteSet(T) /\ x \notin T
    BY <1>1
  <2>1. \A y \in T \cup {x} : f[y] \in Int
    BY <1>2, <1>3
  <2>2. Total(f, T \cup {x}) = Total(f, T) + f[x]
    BY <2>0, <2>1, TotalAdd
  <2>3. \A y \in T \cup {x} : h[y] \in Int
    BY <1>2, <1>3
  <2>4. Total(h, T \cup {x}) = Total(h, T) + h[x]
    BY <2>0, <2>3, TotalAdd
  <2> QED BY <1>1, <2>2, <2>4
<1>5. Total(h, T) = Total(f, T) /\ Total(f, T) \in Int
  BY <1>1, <1>2, TotalSame, TotalType
<1> QED BY <1>3, <1>4, <1>5

(* Nothing adds up to nothing.                                             *)
LEMMA TotalZero ==
  ASSUME NEW S, IsFiniteSet(S), NEW f, \A x \in S : f[x] = 0
  PROVE  Total(f, S) = 0
<1>1. Adds(f, f, f, S) /\ \A x \in S : f[x] \in Int
  BY DEF Adds
<1>2. Total(f, S) = Total(f, S) + Total(f, S) /\ Total(f, S) \in Int
  BY <1>1, TotalPlus, TotalType
<1>3. \A n \in Int : n = n + n => n = 0
  OBVIOUS
<1> QED BY <1>2, <1>3

(* The sum over a part of a set is the sum over the set of what is nothing *)
(* outside that part.                                                      *)
LEMMA TotalPart ==
  ASSUME NEW S, IsFiniteSet(S), NEW T \in SUBSET S, NEW f, NEW h,
         \A x \in S : h[x] \in Int, \A x \in T : h[x] = f[x], \A x \in S \ T : h[x] = 0
  PROVE  Total(h, S) = Total(f, T)
<1> DEFINE Good == {U \in SUBSET S : Total(h, U) = Total(f, U \cap T)}
<1>0. ASSUME NEW V, IsFiniteSet(V), NEW y, y \notin V, \A z \in V \cup {y} : h[z] \in Int
      PROVE  Total(h, V \cup {y}) = Total(h, V) + h[y]
  BY ONLY <1>0, TotalAdd
<1>1. {} \in Good
  <2>1. {} \cap T = {} /\ Total(h, {}) = 0 /\ Total(f, {}) = 0
    BY FS_EmptySet, TotalRecurses
  <2> QED BY <2>1
<1>2. ASSUME NEW U \in Good, NEW x \in S PROVE U \cup {x} \in Good
  <2>1. /\ U \in SUBSET S /\ U \cup {x} \in SUBSET S /\ Total(h, U) = Total(f, U \cap T)
        /\ IsFiniteSet(U) /\ IsFiniteSet(U \cap T)
    BY FS_Subset
  <2>2. CASE x \in U
    <3>1. U \cup {x} = U
      BY <2>2
    <3> QED BY <3>1
  <2>3. CASE x \notin U
    <3>1. Total(h, U \cup {x}) = Total(h, U) + h[x]
      <4>1. \A y \in U \cup {x} : h[y] \in Int
        BY <2>1
      <4> QED BY <1>0, <2>1, <2>3, <4>1
    <3>2. CASE x \in T
      <4>1. (U \cup {x}) \cap T = (U \cap T) \cup {x} /\ x \notin U \cap T
        BY <2>3, <3>2
      <4>2. \A y \in (U \cap T) \cup {x} : f[y] \in Int
        BY <2>1, <3>2
      <4>3. Total(f, (U \cap T) \cup {x}) = Total(f, U \cap T) + f[x]
        BY <2>1, <4>1, <4>2, TotalAdd
      <4> QED BY <2>1, <3>1, <3>2, <4>1, <4>3
    <3>3. CASE x \notin T
      <4>1. (U \cup {x}) \cap T = U \cap T /\ h[x] = 0
        BY <3>3
      <4>2. Total(h, U) \in Int
        <5>1. \A y \in U : h[y] \in Int
          BY <2>1
        <5> QED BY <2>1, <5>1, TotalType
      <4>3. Total(h, U \cup {x}) = Total(h, U)
        BY ONLY <3>1, <4>1, <4>2
      <4> QED BY <2>1, <4>1, <4>3
    <3> QED BY <3>2, <3>3
  <2> QED BY <2>2, <2>3
<1>3. S \in Good
  <2> HIDE DEF Good
  <2>1. Good \in SUBSET SUBSET S
    BY DEF Good
  <2> QED BY <1>1, <1>2, <2>1, OneByOne
<1>4. S \cap T = T
  OBVIOUS
<1> QED BY <1>3, <1>4

(* A table adds up alike by rows and by columns.                           *)
Column(f, S, y) == [x \in S |-> f[x][y]]
ByRows(f, S, T) == [x \in S |-> Total(f[x], T)]
ByColumns(f, S, U, T) == [y \in T |-> Total(Column(f, S, y), U)]

LEMMA TotalSwap ==
  ASSUME NEW S, IsFiniteSet(S), NEW T, IsFiniteSet(T), NEW f,
         \A x \in S : \A y \in T : f[x][y] \in Int
  PROVE  Total(ByRows(f, S, T), S) = Total(ByColumns(f, S, S, T), T)
<1> DEFINE Good == {U \in SUBSET S : Total(ByRows(f, S, T), U) = Total(ByColumns(f, S, U, T), T)}
<1>1. {} \in Good
  <2>1. Total(ByRows(f, S, T), {}) = 0
    BY TotalRecurses
  <2>2. \A y \in T : ByColumns(f, S, {}, T)[y] = 0
    BY TotalRecurses DEF ByColumns
  <2>3. Total(ByColumns(f, S, {}, T), T) = 0
    BY <2>2, TotalZero
  <2> QED BY <2>1, <2>3
<1>2. ASSUME NEW U \in Good, NEW x \in S PROVE U \cup {x} \in Good
  <2>0. U \in SUBSET S /\ U \cup {x} \in SUBSET S
        /\ Total(ByRows(f, S, T), U) = Total(ByColumns(f, S, U, T), T)
    OBVIOUS
  <2> HIDE DEF Good
  <2>1. CASE x \in U
    <3>1. U \cup {x} = U
      BY <2>1
    <3> QED BY <1>2, <3>1
  <2>2. CASE x \notin U
    <3>1. IsFiniteSet(U)
      BY <2>0, FS_Subset
    <3>2. \A z \in S : Total(f[z], T) \in Int
      <4> SUFFICES ASSUME NEW z \in S PROVE Total(f[z], T) \in Int
        OBVIOUS
      <4>1. \A y \in T : f[z][y] \in Int
        OBVIOUS
      <4> QED BY <4>1, TotalType
    <3>3. \A z \in U \cup {x} : ByRows(f, S, T)[z] \in Int
      BY <2>0, <3>2 DEF ByRows
    <3>4. Total(ByRows(f, S, T), U \cup {x}) = Total(ByRows(f, S, T), U) + Total(f[x], T)
      <4>1. ByRows(f, S, T)[x] = Total(f[x], T)
        BY DEF ByRows
      <4> QED BY <2>2, <3>1, <3>3, <4>1, TotalAdd
    <3>5. Adds(ByColumns(f, S, U \cup {x}, T), ByColumns(f, S, U, T), f[x], T)
      <4> SUFFICES ASSUME NEW y \in T
                   PROVE  /\ Total(Column(f, S, y), U) \in Int /\ f[x][y] \in Int
                          /\ Total(Column(f, S, y), U \cup {x})
                               = Total(Column(f, S, y), U) + f[x][y]
        BY DEF Adds, ByColumns
      <4>1. \A z \in U \cup {x} : Column(f, S, y)[z] \in Int
        BY <2>0 DEF Column
      <4>2. Column(f, S, y)[x] = f[x][y]
        BY DEF Column
      <4>3. Total(Column(f, S, y), U \cup {x}) = Total(Column(f, S, y), U) + f[x][y]
        BY <2>2, <3>1, <4>1, <4>2, TotalAdd
      <4>4. \A z \in U : Column(f, S, y)[z] \in Int
        BY <4>1
      <4>5. Total(Column(f, S, y), U) \in Int
        BY <3>1, <4>4, TotalType
      <4> QED BY <4>3, <4>5
    <3>6. Total(ByColumns(f, S, U \cup {x}, T), T)
            = Total(ByColumns(f, S, U, T), T) + Total(f[x], T)
      BY <3>5, TotalPlus
    <3> QED BY <2>0, <3>4, <3>6 DEF Good
  <2> QED BY <2>1, <2>2
<1>3. Good \in SUBSET SUBSET S
  OBVIOUS
<1> HIDE DEF Good
<1>4. S \in Good
  <2>1. \A U \in Good, x \in S : U \cup {x} \in Good
    BY <1>2
  <2> QED BY <1>1, <1>3, <2>1, OneByOne
<1> QED BY <1>4 DEF Good

-----------------------------------------------------------------------------
(* Counting pairs, and adding up twos and ones.                            *)

LEMMA Parted ==
  ASSUME NEW S, IsFiniteSet(S), NEW A \in SUBSET S, NEW B \in SUBSET S, A \cup B = S, A \cap B = {}
  PROVE  /\ Cardinality(S) = Cardinality(A) + Cardinality(B)
         /\ Cardinality(A) \in Nat /\ Cardinality(B) \in Nat
<1>1. IsFiniteSet(A) /\ IsFiniteSet(B)
  BY FS_Subset
<1>2. Cardinality(A) \in Nat /\ Cardinality(B) \in Nat /\ Cardinality({}) = 0
  BY <1>1, FS_CardinalityType, FS_EmptySet
<1>3. Cardinality(A \cup B) = Cardinality(A) + Cardinality(B) - Cardinality(A \cap B)
  BY <1>1, FS_Union
<1>4. Cardinality(S) = Cardinality(A) + Cardinality(B) - Cardinality({})
  BY ONLY <1>3, A \cup B = S, A \cap B = {}, Zenon
<1> QED BY ONLY <1>2, <1>4

Fibre(R, e, D) == {d \in D : <<e, d>> \in R}
Fibres(R, E, D) == [e \in E |-> Cardinality(Fibre(R, e, D))]

LEMMA PairsOfOne ==
  ASSUME NEW D, IsFiniteSet(D), NEW E, NEW R \in SUBSET (E \X D), NEW e \in E
  PROVE  LET Q == {x \in R : x[1] = e} IN
         /\ IsFiniteSet(Q) /\ IsFiniteSet(Fibre(R, e, D))
         /\ Cardinality(Q) = Cardinality(Fibre(R, e, D))
<1> DEFINE Q == {x \in R : x[1] = e}
           F == Fibre(R, e, D)
           f == [d \in F |-> <<e, d>>]
<1>1. F \in SUBSET D
  BY DEF Fibre
<1>2. IsFiniteSet(F)
  <2> HIDE DEF F
  <2> QED BY <1>1, FS_Subset
<1>3. f \in [F -> Q]
  BY DEF Fibre
<1>4. \A a, b \in F : f[a] = f[b] => a = b
  OBVIOUS
<1>5. \A q \in Q : \E d \in F : f[d] = q
  <2> SUFFICES ASSUME NEW q \in Q PROVE \E d \in F : f[d] = q
    OBVIOUS
  <2>1. q \in R /\ q[1] = e /\ q \in E \X D
    OBVIOUS
  <2>2. q = <<e, q[2]>> /\ q[2] \in D
    BY <2>1
  <2>3. q[2] \in F
    BY <2>1, <2>2 DEF Fibre
  <2> QED BY <2>2, <2>3
<1>6. ExistsBijection(F, Q)
  <2> HIDE DEF f, F, Q
  <2>1. f \in Bijection(F, Q)
    BY ONLY <1>3, <1>4, <1>5 DEF Bijection, Injection, Surjection, IsInjective
  <2> QED BY <2>1 DEF ExistsBijection
<1>7. IsFiniteSet(Q) /\ Cardinality(Q) = Cardinality(F)
  <2> HIDE DEF Q, F
  <2> QED BY <1>2, <1>6, FS_Bijection
<1> QED BY <1>2, <1>7

LEMMA PairsAddUp ==
  ASSUME NEW E, IsFiniteSet(E), NEW D, IsFiniteSet(D), NEW R \in SUBSET (E \X D)
  PROVE  /\ Cardinality(R) = Total(Fibres(R, E, D), E)
         /\ \A e \in E : Fibres(R, E, D)[e] \in Nat
<1>0. PICK f : f = Fibres(R, E, D)
  OBVIOUS
<1> DEFINE Of(U) == {x \in R : x[1] \in U}
           Good == {U \in SUBSET E : Cardinality(Of(U)) = Total(f, U)}
<1>1. IsFiniteSet(R)
  <2>1. IsFiniteSet(E \X D)
    BY FS_Product
  <2> QED BY <2>1, FS_Subset
<1>2. \A e \in E : f[e] = Cardinality(Fibre(R, e, D)) /\ f[e] \in Nat
  <2> SUFFICES ASSUME NEW e \in E PROVE f[e] = Cardinality(Fibre(R, e, D)) /\ f[e] \in Nat
    OBVIOUS
  <2>1. IsFiniteSet(Fibre(R, e, D))
    BY PairsOfOne
  <2>2. Cardinality(Fibre(R, e, D)) \in Nat
    BY <2>1, FS_CardinalityType
  <2> QED BY <1>0, <2>2 DEF Fibres
<1>3. {} \in Good
  <2>1. Of({}) = {} /\ Cardinality({}) = 0 /\ Total(f, {}) = 0
    BY FS_EmptySet, TotalRecurses
  <2> QED BY <2>1
<1>4. ASSUME NEW U \in Good, NEW e \in E PROVE U \cup {e} \in Good
  <2>1. U \in SUBSET E /\ U \cup {e} \in SUBSET E /\ Cardinality(Of(U)) = Total(f, U)
    OBVIOUS
  <2>2. CASE e \in U
    <3>1. U \cup {e} = U
      BY <2>2
    <3> QED BY <3>1
  <2>3. CASE e \notin U
    <3> DEFINE Q == {x \in R : x[1] = e}
               A == Of(U)
               S == Of(U \cup {e})
    <3>1. /\ A \in SUBSET S /\ Q \in SUBSET S /\ A \cup Q = S /\ A \cap Q = {} /\ S \in SUBSET R
      BY <2>3
    <3>2. Cardinality(Q) = f[e]
      <4>1. Cardinality(Q) = Cardinality(Fibre(R, e, D))
        BY PairsOfOne
      <4> HIDE DEF Q
      <4> QED BY <1>2, <4>1
    <3>3. Cardinality(S) = Cardinality(A) + Cardinality(Q)
      <4> HIDE DEF Q, A, S
      <4>1. IsFiniteSet(S)
        BY <1>1, <3>1, FS_Subset
      <4> QED BY <3>1, <4>1, Parted
    <3>4. Total(f, U \cup {e}) = Total(f, U) + f[e]
      <4>1. IsFiniteSet(U)
        BY <2>1, FS_Subset
      <4>2. \A x \in U \cup {e} : f[x] \in Int
        BY <1>2, <2>1
      <4> HIDE DEF Good, Of, Q, A, S
      <4> QED BY ONLY <2>3, <4>1, <4>2, TotalAdd
    <3>5. Cardinality(Of(U \cup {e})) = Total(f, U \cup {e})
      <4> QED BY <2>1, <3>2, <3>3, <3>4
    <3> QED BY <2>1, <3>5
  <2> QED BY <2>2, <2>3
<1>5. E \in Good
  <2> HIDE DEF Good
  <2>1. Good \in SUBSET SUBSET E
    BY DEF Good
  <2> QED BY <1>3, <1>4, <2>1, OneByOne
<1>6. Of(E) = R
  OBVIOUS
<1> QED BY <1>0, <1>2, <1>5, <1>6

LEMMA TwosAndOnes ==
  ASSUME NEW S, IsFiniteSet(S), NEW f, NEW A \in SUBSET S, NEW B \in SUBSET S, A \cap B = {},
         \A x \in A : f[x] = 2, \A x \in B : f[x] = 1, \A x \in S \ (A \cup B) : f[x] = 0
  PROVE  Total(f, S) = 2 * Cardinality(A) + Cardinality(B)
<1> DEFINE Good == {T \in SUBSET S : Total(f, T) = 2 * Cardinality(A \cap T) + Cardinality(B \cap T)}
<1>1. \A x \in S : f[x] \in Int
  <2> SUFFICES ASSUME NEW x \in S PROVE f[x] \in Int
    OBVIOUS
  <2>1. f[x] = 2 \/ f[x] = 1 \/ f[x] = 0
    BY Zenon
  <2> QED BY ONLY <2>1
<1>2. {} \in Good
  <2>1. A \cap {} = {} /\ B \cap {} = {} /\ Cardinality({}) = 0 /\ Total(f, {}) = 0
    BY FS_EmptySet, TotalRecurses
  <2> QED BY <2>1
<1>3. ASSUME NEW T \in Good, NEW x \in S PROVE T \cup {x} \in Good
  <2>1. T \in SUBSET S /\ T \cup {x} \in SUBSET S
        /\ Total(f, T) = 2 * Cardinality(A \cap T) + Cardinality(B \cap T)
    OBVIOUS
  <2>2. CASE x \in T
    <3>1. T \cup {x} = T
      BY <2>2
    <3> QED BY <3>1
  <2>3. CASE x \notin T
    <3>1. IsFiniteSet(T) /\ IsFiniteSet(A \cap T) /\ IsFiniteSet(B \cap T)
      <4>1. IsFiniteSet(T)
        BY <2>1, FS_Subset
      <4> QED BY <4>1, FS_Intersection
    <3>2. Total(f, T \cup {x}) = Total(f, T) + f[x]
      <4>1. \A y \in T \cup {x} : f[y] \in Int
        BY <1>1, <2>1
      <4> QED BY ONLY <2>3, <3>1, <4>1, TotalAdd
    <3>3. /\ Cardinality(A \cap T) \in Nat /\ Cardinality(B \cap T) \in Nat
          /\ Cardinality((A \cap T) \cup {x}) = Cardinality(A \cap T) + 1
          /\ Cardinality((B \cap T) \cup {x}) = Cardinality(B \cap T) + 1
      <4>1. x \notin A \cap T /\ x \notin B \cap T
        BY <2>3
      <4> QED BY <3>1, <4>1, FS_CardinalityType, FS_AddElement
    <3>4. Total(f, T \cup {x}) = 2 * Cardinality(A \cap (T \cup {x})) + Cardinality(B \cap (T \cup {x}))
      <4>1. CASE x \in A
        <5>1. A \cap (T \cup {x}) = (A \cap T) \cup {x} /\ B \cap (T \cup {x}) = B \cap T /\ f[x] = 2
          BY <4>1
        <5>2. Total(f, T \cup {x}) = 2 * Cardinality((A \cap T) \cup {x}) + Cardinality(B \cap T)
          BY ONLY <2>1, <3>2, <3>3, <5>1
        <5> QED BY ONLY <5>1, <5>2, Zenon
      <4>2. CASE x \in B
        <5>1. B \cap (T \cup {x}) = (B \cap T) \cup {x} /\ A \cap (T \cup {x}) = A \cap T /\ f[x] = 1
          BY <4>2
        <5>2. Total(f, T \cup {x}) = 2 * Cardinality(A \cap T) + Cardinality((B \cap T) \cup {x})
          BY ONLY <2>1, <3>2, <3>3, <5>1
        <5> QED BY ONLY <5>1, <5>2, Zenon
      <4>3. CASE x \notin A \cup B
        <5>1. B \cap (T \cup {x}) = B \cap T /\ A \cap (T \cup {x}) = A \cap T /\ f[x] = 0
          BY <4>3
        <5>2. Total(f, T \cup {x}) = 2 * Cardinality(A \cap T) + Cardinality(B \cap T)
          BY ONLY <2>1, <3>2, <3>3, <5>1
        <5> QED BY ONLY <5>1, <5>2, Zenon
      <4> QED BY <4>1, <4>2, <4>3
    <3> QED BY <2>1, <3>4
  <2> QED BY <2>2, <2>3
<1>4. S \in Good
  <2> HIDE DEF Good
  <2>1. Good \in SUBSET SUBSET S
    BY DEF Good
  <2> QED BY <1>2, <1>3, <2>1, OneByOne
<1>5. A \cap S = A /\ B \cap S = B
  OBVIOUS
<1> QED BY <1>4, <1>5
================================================================================
