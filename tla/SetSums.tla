------------------------------ MODULE SetSums ------------------------------
(***************************************************************************)
(* Sums over finite sets, as the modules of this project write them with   *)
(* MapThenSumSet: what the sum is of no element and of one more.           *)
(*                                                                         *)
(* The induction is over the finite subsets of a set: a property that      *)
(* fails somewhere fails at a subset that is minimal for inclusion.  So    *)
(* the property is a set of subsets, and no theorem is needed that takes   *)
(* an operator.                                                            *)
(***************************************************************************)
EXTENDS Integers, FiniteSets, FiniteSetsExt, FiniteSetTheorems, WellFoundedInduction, TLAPS

-----------------------------------------------------------------------------
(* Induction over finite sets *)

LEMMA SubsetInduction ==
    ASSUME NEW S, IsFiniteSet(S), NEW Q,
           \A T \in SUBSET S : (\A U \in SUBSET T : U # T => U \in Q) => T \in Q
    PROVE  SUBSET S \subseteq Q
<1> DEFINE Bad == (SUBSET S) \ Q
<1> SUFFICES ASSUME Bad # {} PROVE FALSE
  OBVIOUS
<1>1. IsWellFoundedOn(StrictSubsetOrdering(S), FiniteSubsetsOf(S))
  BY FS_StrictSubsetOrderingWellFounded
<1>2. Bad \subseteq FiniteSubsetsOf(S)
  BY FS_Subset DEF FiniteSubsetsOf
<1> HIDE DEF Bad
<1>3. PICK T \in Bad : \A U \in Bad : <<U, T>> \notin StrictSubsetOrdering(S)
  BY <1>1, <1>2, WFMin
<1>4. T \in SUBSET S /\ T \notin Q
  BY DEF Bad
<1>5. \A U \in SUBSET T : U # T => U \in Q
  BY <1>3, <1>4 DEF Bad, StrictSubsetOrdering
<1> QED
  BY <1>4, <1>5

-----------------------------------------------------------------------------
(* The function that MapThenSumSet folds with *)

First(s) == CHOOSE x \in s : TRUE

Adds(v, S, g) == g = [s \in SUBSET S |-> IF s = {} THEN 0 ELSE v[First(s)] + g[s \ {First(s)}]]

SumOf(v, S) == MapThenSumSet(LAMBDA x : v[x], S)

LEMMA FirstOf ==
    ASSUME NEW s, s # {}
    PROVE  First(s) \in s
BY DEF First

\* It exists: for the subsets of growing size.
LEMMA AddsExists ==
    ASSUME NEW S, IsFiniteSet(S), NEW v, \A x \in S : v[x] \in Int
    PROVE  \E g \in [SUBSET S -> Int] : Adds(v, S, g)
<1> DEFINE Small(s, T) == Cardinality(s) <= Cardinality(T)
           Step(g, s) == IF s = {} THEN 0 ELSE v[First(s)] + g[s \ {First(s)}]
           Q == {T \in SUBSET S : \E g \in [SUBSET S -> Int] :
                    \A s \in SUBSET S : Small(s, T) => g[s] = Step(g, s)}
<1>1. \A s \in SUBSET S : IsFiniteSet(s) /\ Cardinality(s) \in Nat /\ (Cardinality(s) = 0 <=> s = {})
  BY FS_Subset, FS_CardinalityType, FS_EmptySet
<1>2. \A s \in SUBSET S : s # {} =>
         /\ First(s) \in s /\ s \ {First(s)} \in SUBSET S
         /\ Cardinality(s \ {First(s)}) = Cardinality(s) - 1
  BY <1>1, FirstOf, FS_RemoveElement
<1>3. ASSUME NEW T \in SUBSET S, \A U \in SUBSET T : U # T => U \in Q
      PROVE  T \in Q
  <2>1. CASE T = {}
    <3>1. PICK g \in [SUBSET S -> Int] : \A s \in SUBSET S : g[s] = 0
      <4>1. [s \in SUBSET S |-> 0] \in [SUBSET S -> Int]
        OBVIOUS
      <4> QED
        BY <4>1
    <3>2. \A s \in SUBSET S : Small(s, T) => g[s] = Step(g, s)
      BY <1>1, <2>1, <3>1
    <3> QED
      BY <3>1, <3>2
  <2>2. CASE T # {}
    <3>1. PICK U : U = T \ {First(T)}
      OBVIOUS
    <3>2. U \in Q /\ Cardinality(U) = Cardinality(T) - 1
      BY <1>2, <1>3, <2>2, <3>1
    <3>3. PICK g \in [SUBSET S -> Int] : \A s \in SUBSET S : Small(s, U) => g[s] = Step(g, s)
      BY <3>2
    <3>4. PICK h : h = [s \in SUBSET S |-> IF Small(s, U) THEN g[s] ELSE Step(g, s)]
      OBVIOUS
    <3>5. h \in [SUBSET S -> Int]
      BY <1>2, <3>3, <3>4
    <3>6. ASSUME NEW s \in SUBSET S, Small(s, T) PROVE h[s] = Step(h, s)
      <4>1. h[s] = Step(g, s)
        BY <3>3, <3>4
      <4>2. s # {} => h[s \ {First(s)}] = g[s \ {First(s)}]
        BY <1>1, <1>2, <3>2, <3>4, <3>6
      <4> QED
        BY <4>1, <4>2
    <3> QED
      BY <3>5, <3>6
  <2> QED
    BY <2>1, <2>2
<1>4. S \in Q
  <2> HIDE DEF Q
  <2> QED
    BY <1>3, SubsetInduction
<1>5. PICK g \in [SUBSET S -> Int] : \A s \in SUBSET S : Small(s, S) => g[s] = Step(g, s)
  BY <1>4
<1>6. \A s \in SUBSET S : g[s] = Step(g, s)
  BY <1>5, FS_Subset
<1>7. g = [s \in SUBSET S |-> g[s]]
  BY <1>5
<1>8. g = [s \in SUBSET S |-> Step(g, s)]
  BY <1>6, <1>7, Zenon
<1> QED
  BY <1>5, <1>8 DEF Adds

\* What it says of a set depends on the elements of that set only.
LEMMA AddsDetermined ==
    ASSUME NEW S, NEW T, IsFiniteSet(T), T \subseteq S, NEW v, NEW w, NEW g, NEW h,
           Adds(v, S, g), Adds(w, T, h), \A x \in T : v[x] = w[x]
    PROVE  g[T] = h[T]
<1> DEFINE Q == {U \in SUBSET T : g[U] = h[U]}
<1>1. ASSUME NEW U \in SUBSET T, \A V \in SUBSET U : V # U => V \in Q
      PROVE  U \in Q
  <2>1. /\ g[U] = IF U = {} THEN 0 ELSE v[First(U)] + g[U \ {First(U)}]
        /\ h[U] = IF U = {} THEN 0 ELSE w[First(U)] + h[U \ {First(U)}]
    BY DEF Adds
  <2>2. CASE U = {}
    BY <2>1, <2>2
  <2>3. CASE U # {}
    <3>1. First(U) \in U
      BY <2>3, FirstOf
    <3>2. g[U \ {First(U)}] = h[U \ {First(U)}]
      BY <1>1, <3>1
    <3> QED
      BY <2>1, <2>3, <3>1, <3>2
  <2> QED
    BY <2>2, <2>3
<1>2. SUBSET T \subseteq Q
  <2> HIDE DEF Q
  <2> QED
    BY <1>1, SubsetInduction
<1> QED
  BY <1>2

LEMMA SumIs ==
    ASSUME NEW S, IsFiniteSet(S), NEW v, \A x \in S : v[x] \in Int
    PROVE  \E g \in [SUBSET S -> Int] : Adds(v, S, g) /\ SumOf(v, S) = g[S]
<1>1. PICK g \in [SUBSET S -> Int] : Adds(v, S, g)
  BY AddsExists
<1>2. PICK h : h = CHOOSE f : Adds(v, S, f)
  OBVIOUS
<1>3. Adds(v, S, h)
  BY <1>1, <1>2
<1>4. SumOf(v, S) = h[S]
  BY <1>2 DEF SumOf, MapThenSumSet, MapThenFoldSet, Adds, First
<1>5. g[S] = h[S]
  BY <1>1, <1>3, AddsDetermined
<1> QED
  BY <1>1, <1>4, <1>5

-----------------------------------------------------------------------------
(* What clients cite *)

LEMMA SumType ==
    ASSUME NEW S, IsFiniteSet(S), NEW v, \A x \in S : v[x] \in Int
    PROVE  SumOf(v, S) \in Int
<1>1. PICK g \in [SUBSET S -> Int] : SumOf(v, S) = g[S]
  BY SumIs
<1> QED
  BY <1>1

LEMMA SumEmpty == ASSUME NEW v PROVE SumOf(v, {}) = 0
<1>1. PICK g : Adds(v, {}, g) /\ SumOf(v, {}) = g[{}]
  BY SumIs, FS_EmptySet
<1> QED
  BY <1>1 DEF Adds

LEMMA SumSame ==
    ASSUME NEW S, IsFiniteSet(S), NEW v, NEW w, \A x \in S : v[x] \in Int /\ v[x] = w[x]
    PROVE  SumOf(v, S) = SumOf(w, S)
<1>1. PICK g : Adds(v, S, g) /\ SumOf(v, S) = g[S]
  BY SumIs
<1>2. PICK h : Adds(w, S, h) /\ SumOf(w, S) = h[S]
  BY SumIs
<1> QED
  BY <1>1, <1>2, AddsDetermined

\* One element more, whichever the fold begins with.
LEMMA SumFirst ==
    ASSUME NEW S, IsFiniteSet(S), S # {}, NEW v, \A x \in S : v[x] \in Int
    PROVE  SumOf(v, S) = v[First(S)] + SumOf(v, S \ {First(S)})
<1>1. PICK g : Adds(v, S, g) /\ SumOf(v, S) = g[S]
  BY SumIs
<1>2. First(S) \in S /\ IsFiniteSet(S \ {First(S)})
  BY FirstOf, FS_Subset
<1>3. PICK h : Adds(v, S \ {First(S)}, h) /\ SumOf(v, S \ {First(S)}) = h[S \ {First(S)}]
  BY <1>2, SumIs
<1>4. g[S \ {First(S)}] = h[S \ {First(S)}]
  BY <1>1, <1>2, <1>3, AddsDetermined
<1>5. g[S] = v[First(S)] + g[S \ {First(S)}]
  BY <1>1 DEF Adds
<1> QED
  BY <1>1, <1>3, <1>4, <1>5

LEMMA SumRemove ==
    ASSUME NEW S, IsFiniteSet(S), NEW v, \A x \in S : v[x] \in Int, NEW e \in S
    PROVE  SumOf(v, S) = v[e] + SumOf(v, S \ {e})
<1> DEFINE Q == {T \in SUBSET S : \A x \in T : SumOf(v, T) = v[x] + SumOf(v, T \ {x})}
<1>1. ASSUME NEW T \in SUBSET S, \A U \in SUBSET T : U # T => U \in Q, NEW x \in T
      PROVE  SumOf(v, T) = v[x] + SumOf(v, T \ {x})
  <2>0. PICK y : y = First(T)
    OBVIOUS
  <2>1. /\ y \in T /\ IsFiniteSet(T) /\ IsFiniteSet(T \ {x}) /\ IsFiniteSet(T \ {y})
        /\ IsFiniteSet((T \ {y}) \ {x})
    BY <2>0, FirstOf, FS_Subset
  <2>2. SumOf(v, T) = v[y] + SumOf(v, T \ {y})
    BY <2>0, <2>1, SumFirst
  <2>3. CASE y = x
    BY <2>2, <2>3
  <2>4. CASE y # x
    <3>1. SumOf(v, T \ {y}) = v[x] + SumOf(v, (T \ {y}) \ {x})
      BY <1>1, <2>1, <2>4
    <3>2. SumOf(v, T \ {x}) = v[y] + SumOf(v, (T \ {x}) \ {y})
      BY <1>1, <2>1, <2>4
    <3>3. (T \ {y}) \ {x} = (T \ {x}) \ {y}
      OBVIOUS
    <3>4. PICK z \in Int : z = SumOf(v, (T \ {y}) \ {x})
      BY <2>1, SumType
    <3>5. SumOf(v, T) = v[y] + (v[x] + z) /\ SumOf(v, T \ {x}) = v[y] + z
      BY <2>2, <3>1, <3>2, <3>3, <3>4
    <3>6. v[x] \in Int /\ v[y] \in Int
      BY <2>1
    <3> QED
      BY <3>4, <3>5, <3>6
  <2> QED
    BY <2>3, <2>4
<1>2. SUBSET S \subseteq Q
  <2>1. \A T \in SUBSET S : (\A U \in SUBSET T : U # T => U \in Q) => T \in Q
    BY <1>1
  <2> HIDE DEF Q
  <2> QED
    BY <2>1, SubsetInduction
<1> QED
  BY <1>2

LEMMA SumAdd ==
    ASSUME NEW S, IsFiniteSet(S), NEW e, e \notin S, NEW v, \A x \in S \cup {e} : v[x] \in Int
    PROVE  SumOf(v, S \cup {e}) = v[e] + SumOf(v, S)
<1>1. IsFiniteSet(S \cup {e}) /\ (S \cup {e}) \ {e} = S
  BY FS_AddElement
<1> QED
  BY <1>1, SumRemove

\* One summand changed.
LEMMA SumChanged ==
    ASSUME NEW S, IsFiniteSet(S), NEW v, NEW w, NEW e \in S,
           \A x \in S : v[x] \in Int /\ w[x] \in Int,
           \A x \in S \ {e} : w[x] = v[x]
    PROVE  SumOf(w, S) = SumOf(v, S) + w[e] - v[e]
<1>1. IsFiniteSet(S \ {e})
  BY FS_Subset
<1>2. PICK z \in Int : z = SumOf(v, S \ {e})
  BY <1>1, SumType
<1>3. SumOf(w, S \ {e}) = z
  BY <1>1, <1>2, SumSame
<1>4. SumOf(v, S) = v[e] + z /\ SumOf(w, S) = w[e] + z
  BY <1>2, <1>3, SumRemove
<1>5. v[e] \in Int /\ w[e] \in Int
  OBVIOUS
<1> QED
  BY <1>2, <1>4, <1>5

LEMMA SumZero ==
    ASSUME NEW S, IsFiniteSet(S), NEW v, \A x \in S : v[x] = 0
    PROVE  SumOf(v, S) = 0
<1> DEFINE Q == {T \in SUBSET S : SumOf(v, T) = 0}
<1>1. ASSUME NEW T \in SUBSET S, \A U \in SUBSET T : U # T => U \in Q
      PROVE  T \in Q
  <2>1. CASE T = {}
    BY <2>1, SumEmpty
  <2>2. CASE T # {}
    <3>1. PICK x \in T : TRUE
      BY <2>2
    <3>2. IsFiniteSet(T) /\ SumOf(v, T \ {x}) = 0 /\ \A y \in T : v[y] \in Int
      BY <1>1, <3>1, FS_Subset
    <3>3. SumOf(v, T) = v[x] + SumOf(v, T \ {x})
      BY <3>1, <3>2, SumRemove
    <3> QED
      BY <3>2, <3>3
  <2> QED
    BY <2>1, <2>2
<1>2. SUBSET S \subseteq Q
  <2> HIDE DEF Q
  <2> QED
    BY <1>1, SubsetInduction
<1> QED
  BY <1>2

LEMMA SumNat ==
    ASSUME NEW S, IsFiniteSet(S), NEW v, \A x \in S : v[x] \in Nat
    PROVE  SumOf(v, S) \in Nat
<1> DEFINE Q == {T \in SUBSET S : SumOf(v, T) \in Nat}
<1>1. ASSUME NEW T \in SUBSET S, \A U \in SUBSET T : U # T => U \in Q
      PROVE  T \in Q
  <2>1. CASE T = {}
    BY <2>1, SumEmpty
  <2>2. CASE T # {}
    <3>1. PICK x \in T : TRUE
      BY <2>2
    <3>2. IsFiniteSet(T) /\ SumOf(v, T \ {x}) \in Nat /\ v[x] \in Nat
      BY <1>1, <3>1, FS_Subset
    <3>3. SumOf(v, T) = v[x] + SumOf(v, T \ {x})
      BY <3>1, <3>2, SumRemove
    <3> QED
      BY <3>2, <3>3
  <2> QED
    BY <2>1, <2>2
<1>2. SUBSET S \subseteq Q
  <2> HIDE DEF Q
  <2> QED
    BY <1>1, SubsetInduction
<1> QED
  BY <1>2

LEMMA SumUnion ==
    ASSUME NEW S, IsFiniteSet(S), NEW T, IsFiniteSet(T), S \cap T = {},
           NEW v, \A x \in S \cup T : v[x] \in Int
    PROVE  SumOf(v, S \cup T) = SumOf(v, S) + SumOf(v, T)
<1> DEFINE Q == {U \in SUBSET T : SumOf(v, S \cup U) = SumOf(v, S) + SumOf(v, U)}
<1>1. ASSUME NEW U \in SUBSET T, \A V \in SUBSET U : V # U => V \in Q
      PROVE  U \in Q
  <2>0. PICK s \in Int : s = SumOf(v, S)
    BY SumType
  <2>1. CASE U = {}
    BY <2>0, <2>1, SumEmpty
  <2>2. CASE U # {}
    <3>1. PICK x \in U : TRUE
      BY <2>2
    <3>2. PICK V : V = U \ {x}
      OBVIOUS
    <3>3. /\ IsFiniteSet(U) /\ IsFiniteSet(V) /\ IsFiniteSet(S \cup U) /\ (S \cup U) \ {x} = S \cup V
          /\ x \in S \cup U /\ v[x] \in Int
          /\ \A y \in S \cup U : v[y] \in Int
          /\ \A y \in U : v[y] \in Int
          /\ \A y \in V : v[y] \in Int
      BY <3>1, <3>2, FS_Subset, FS_Union
    <3>4. PICK t \in Int : t = SumOf(v, V)
      BY <3>3, SumType
    <3>5. SumOf(v, S \cup V) = s + t
      BY <1>1, <2>0, <3>1, <3>2, <3>4
    <3>6. SumOf(v, S \cup U) = v[x] + (s + t)
      BY <3>3, <3>5, SumRemove
    <3>7. SumOf(v, U) = v[x] + t
      BY <3>1, <3>2, <3>3, <3>4, SumRemove
    <3> QED
      BY <2>0, <3>3, <3>4, <3>6, <3>7
  <2> QED
    BY <2>1, <2>2
<1>2. SUBSET T \subseteq Q
  <2> HIDE DEF Q
  <2> QED
    BY <1>1, SubsetInduction
<1> QED
  BY <1>2

LEMMA SumOfSubset ==
    ASSUME NEW S, IsFiniteSet(S), NEW T \in SUBSET S, NEW v, \A x \in S : v[x] \in Nat
    PROVE  SumOf(v, T) <= SumOf(v, S)
<1>1. /\ IsFiniteSet(T) /\ IsFiniteSet(S \ T) /\ T \cup (S \ T) = S /\ T \cap (S \ T) = {}
      /\ \A x \in S : v[x] \in Int
  BY FS_Subset
<1>2. SumOf(v, T \cup (S \ T)) = SumOf(v, T) + SumOf(v, S \ T)
  BY <1>1, SumUnion
<1>3. PICK t \in Nat : t = SumOf(v, T)
  BY <1>1, SumNat
<1>4. PICK u \in Nat : u = SumOf(v, S \ T)
  BY <1>1, SumNat
<1>5. SumOf(v, S) = t + u
  BY <1>1, <1>2, <1>3, <1>4
<1> QED
  BY <1>3, <1>4, <1>5
=============================================================================
