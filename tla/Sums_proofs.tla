----------------------------- MODULE Sums_proofs -----------------------------
(***************************************************************************)
(* The facts about data that the proofs about Leaves and Portal share:     *)
(* what SumFunctionOnSet computes, that is, that the sum over a finite set *)
(* does not depend on the order it is taken in and follows a change of the *)
(* values or of the set; how a finite set is put in line; and what is      *)
(* joined, page by page or sequence by sequence. The induction is over     *)
(* sets of numbers, for no theorem with an operator as its parameter can   *)
(* be used.                                                                *)
(***************************************************************************)
EXTENDS Integers, Sequences, SequenceTheorems, FiniteSets, Functions,
    FunctionTheorems, FiniteSetTheorems, WellFoundedInduction, TLAPS

-----------------------------------------------------------------------------
(* Induction over the natural numbers, for sets.                           *)

Below == {ss \in Nat \X Nat : ss[1] < ss[2]}

LEMMA BelowWellFounded == IsWellFoundedOn(Below, Nat)
  BY NatLessThanWellFounded DEF OpToRel, Below

LEMMA LeastNatural ==
    ASSUME NEW S, S \subseteq Nat, S # {}
    PROVE  \E n \in S : \A m \in S : n <= m
  <1>1. PICK n \in S : \A m \in S : ~(<<m, n>> \in Below)
    BY BelowWellFounded, WFMin
  <1>2. ASSUME NEW m \in S PROVE n <= m
    <2>1. <<m, n>> \notin Below /\ m \in Nat /\ n \in Nat
      BY <1>1
    <2>2. ~(m < n)
      BY <2>1 DEF Below
    <2> QED
      BY <2>1, <2>2
  <1> QED
    BY <1>2

LEMMA SetInduction ==
    ASSUME NEW S, 0 \in S, \A n \in Nat : n \in S => n + 1 \in S
    PROVE  \A n \in Nat : n \in S
  <1> DEFINE Out == {n \in Nat : n \notin S}
  <1> SUFFICES ASSUME Out # {} PROVE FALSE
    OBVIOUS
  <1>1. PICK n \in Out : \A m \in Out : n <= m
    BY LeastNatural
  <1>2. n # 0 /\ n - 1 \in Nat
    BY <1>1
  <1>3. n - 1 \notin Out
    BY <1>1, <1>2
  <1> QED
    BY <1>2, <1>3

-----------------------------------------------------------------------------
(* The recursive function inside the fold.                                 *)

First(s) == CHOOSE x \in s : TRUE
Iterates(g, f, U) ==
    g = [s \in U |-> IF s = {} THEN 0 ELSE f[First(s)] + g[s \ {First(s)}]]

LEMMA FirstOf == \A s : s # {} => First(s) \in s
  BY DEF First

LEMMA WithoutFirst ==
    ASSUME NEW s, IsFiniteSet(s), s # {}
    PROVE  /\ IsFiniteSet(s \ {First(s)})
           /\ Cardinality(s \ {First(s)}) = Cardinality(s) - 1
           /\ Cardinality(s) \in Nat \ {0}
  BY FirstOf, FS_RemoveElement, FS_CardinalityType, FS_EmptySet

\* The subsets of S with at most n elements.
UpTo(S, n) == {s \in SUBSET S : Cardinality(s) <= n}

LEMMA IterationExists ==
    ASSUME NEW S, IsFiniteSet(S), NEW f
    PROVE  \E g : Iterates(g, f, SUBSET S)
  <1> DEFINE Good == {n \in Nat : \E g : Iterates(g, f, UpTo(S, n))}
  <1>1. \A s \in SUBSET S : IsFiniteSet(s) /\ Cardinality(s) \in Nat
    BY FS_Subset, FS_CardinalityType
  <1>2. 0 \in Good
    <2> DEFINE g == [s \in UpTo(S, 0) |-> 0]
    <2>1. \A s \in UpTo(S, 0) : s = {}
      BY <1>1, FS_EmptySet DEF UpTo
    <2>2. Iterates(g, f, UpTo(S, 0))
      BY <2>1 DEF Iterates
    <2> QED
      BY <2>2
  <1>3. ASSUME NEW n \in Nat, n \in Good PROVE n + 1 \in Good
    <2>1. PICK g : Iterates(g, f, UpTo(S, n))
      BY <1>3
    <2> DEFINE h == [s \in UpTo(S, n + 1) |->
                        IF s = {} THEN 0 ELSE f[First(s)] + g[s \ {First(s)}]]
    <2>2. ASSUME NEW s \in UpTo(S, n) PROVE h[s] = g[s]
      <3>1. s \in UpTo(S, n + 1)
        BY <1>1, <2>2 DEF UpTo
      <3> QED
        BY <2>1, <3>1 DEF Iterates
    <2>3. ASSUME NEW s \in UpTo(S, n + 1), s # {} PROVE s \ {First(s)} \in UpTo(S, n)
      BY <1>1, <2>3, WithoutFirst DEF UpTo
    <2>4. Iterates(h, f, UpTo(S, n + 1))
      BY <2>2, <2>3 DEF Iterates
    <2> QED
      BY <2>4
  <1> HIDE DEF Good
  <1>4. Cardinality(S) \in Good
    BY <1>1, <1>2, <1>3, SetInduction
  <1>5. UpTo(S, Cardinality(S)) = SUBSET S
    BY FS_Subset DEF UpTo
  <1> QED
    BY <1>4, <1>5 DEF Good

LEMMA SumIterates ==
    ASSUME NEW S, IsFiniteSet(S), NEW f
    PROVE  \E g : Iterates(g, f, SUBSET S) /\ SumFunctionOnSet(f, S) = g[S]
  <1> DEFINE g == CHOOSE h : Iterates(h, f, SUBSET S)
  <1>1. Iterates(g, f, SUBSET S)
    BY IterationExists
  <1>2. SumFunctionOnSet(f, S) = g[S]
    BY DEF SumFunctionOnSet, FoldFunctionOnSet, MapThenFoldSet, Iterates, First
  <1> QED
    BY <1>1, <1>2

LEMMA IterationsAgree ==
    ASSUME NEW S, IsFiniteSet(S), NEW T, IsFiniteSet(T), NEW f, NEW g, NEW h,
           Iterates(g, f, SUBSET S), Iterates(h, f, SUBSET T)
    PROVE  \A s : s \subseteq S /\ s \subseteq T => g[s] = h[s]
  <1> DEFINE Good == {n \in Nat : \A s \in SUBSET (S \cap T) :
                                     Cardinality(s) = n => g[s] = h[s]}
  <1>1. \A s \in SUBSET (S \cap T) : IsFiniteSet(s) /\ Cardinality(s) \in Nat
    BY FS_Subset, FS_CardinalityType
  <1>2. ASSUME NEW s \in SUBSET (S \cap T)
        PROVE  /\ g[s] = IF s = {} THEN 0 ELSE f[First(s)] + g[s \ {First(s)}]
               /\ h[s] = IF s = {} THEN 0 ELSE f[First(s)] + h[s \ {First(s)}]
    BY DEF Iterates
  <1>3. 0 \in Good
    BY <1>1, <1>2, FS_EmptySet
  <1>4. ASSUME NEW n \in Nat, n \in Good PROVE n + 1 \in Good
    <2> SUFFICES ASSUME NEW s \in SUBSET (S \cap T), Cardinality(s) = n + 1
                 PROVE  g[s] = h[s]
      OBVIOUS
    <2>1. s # {} /\ IsFiniteSet(s)
      BY <1>1, FS_EmptySet
    <2>2. s \ {First(s)} \in SUBSET (S \cap T) /\ Cardinality(s \ {First(s)}) = n
      BY <1>1, <2>1, WithoutFirst
    <2>3. g[s \ {First(s)}] = h[s \ {First(s)}]
      BY <1>4, <2>2
    <2> QED
      BY <1>2, <2>1, <2>3
  <1> HIDE DEF Good
  <1>5. \A n \in Nat : n \in Good
    BY <1>3, <1>4, SetInduction
  <1> SUFFICES ASSUME NEW s, s \subseteq S, s \subseteq T PROVE g[s] = h[s]
    OBVIOUS
  <1>6. s \in SUBSET (S \cap T)
    OBVIOUS
  <1> QED
    BY <1>1, <1>5, <1>6 DEF Good

-----------------------------------------------------------------------------
(* Sums.                                                                   *)

LEMMA SumOfNothing == \A f : SumFunctionOnSet(f, {}) = 0
  <1> TAKE f
  <1>1. PICK g : Iterates(g, f, SUBSET {}) /\ SumFunctionOnSet(f, {}) = g[{}]
    BY SumIterates, FS_EmptySet
  <1>2. {} \in SUBSET {}
    OBVIOUS
  <1>3. g[{}] = 0
    BY <1>1, <1>2 DEF Iterates
  <1> QED
    BY <1>1, <1>3

LEMMA SumWithFirst ==
    ASSUME NEW S, IsFiniteSet(S), S # {}, NEW f
    PROVE  SumFunctionOnSet(f, S) = f[First(S)] + SumFunctionOnSet(f, S \ {First(S)})
  <1> DEFINE R == S \ {First(S)}
  <1>1. IsFiniteSet(R) /\ R \subseteq S
    BY FS_Subset
  <1> HIDE DEF R
  <1>2. PICK g : Iterates(g, f, SUBSET S) /\ SumFunctionOnSet(f, S) = g[S]
    BY SumIterates
  <1>3. PICK h : Iterates(h, f, SUBSET R) /\ SumFunctionOnSet(f, R) = h[R]
    BY <1>1, SumIterates
  <1>4. g[R] = h[R]
    <2>1. \A s : s \subseteq S /\ s \subseteq R => g[s] = h[s]
      BY <1>1, <1>2, <1>3, IterationsAgree
    <2>2. R \subseteq R
      OBVIOUS
    <2> QED
      BY <1>1, <2>1, <2>2
  <1>5. g[S] = f[First(S)] + g[R]
    BY <1>2 DEF Iterates, R
  <1> QED
    BY <1>2, <1>3, <1>4, <1>5 DEF R

LEMMA SumIsNumber ==
    ASSUME NEW S, IsFiniteSet(S), NEW f, \A x \in S : f[x] \in Int
    PROVE  SumFunctionOnSet(f, S) \in Int
  <1> DEFINE Good == {n \in Nat : \A T \in SUBSET S :
                         Cardinality(T) = n => SumFunctionOnSet(f, T) \in Int}
  <1>1. \A T \in SUBSET S : IsFiniteSet(T) /\ Cardinality(T) \in Nat
    BY FS_Subset, FS_CardinalityType
  <1>2. 0 \in Good
    BY <1>1, FS_EmptySet, SumOfNothing
  <1>3. ASSUME NEW n \in Nat, n \in Good PROVE n + 1 \in Good
    <2> SUFFICES ASSUME NEW T \in SUBSET S, Cardinality(T) = n + 1
                 PROVE  SumFunctionOnSet(f, T) \in Int
      OBVIOUS
    <2>1. T # {} /\ IsFiniteSet(T)
      BY <1>1, FS_EmptySet
    <2>2. T \ {First(T)} \in SUBSET S /\ Cardinality(T \ {First(T)}) = n /\ First(T) \in S
      BY <1>1, <2>1, WithoutFirst, FirstOf
    <2>3. SumFunctionOnSet(f, T \ {First(T)}) \in Int
      BY <1>3, <2>2
    <2>4. SumFunctionOnSet(f, T) = f[First(T)] + SumFunctionOnSet(f, T \ {First(T)})
      BY <2>1, SumWithFirst
    <2> QED
      BY <2>2, <2>3, <2>4
  <1> HIDE DEF Good
  <1>4. Cardinality(S) \in Good
    BY <1>1, <1>2, <1>3, SetInduction
  <1> QED
    BY <1>4 DEF Good

\* Any element may be taken first.
LEMMA SumWith ==
    ASSUME NEW S, IsFiniteSet(S), NEW f, \A y \in S : f[y] \in Int, NEW x \in S
    PROVE  SumFunctionOnSet(f, S) = f[x] + SumFunctionOnSet(f, S \ {x})
  <1> DEFINE Sum(T) == SumFunctionOnSet(f, T)
             Good == {n \in Nat : \A T \in SUBSET S : Cardinality(T) = n =>
                         \A y \in T : Sum(T) = f[y] + Sum(T \ {y})}
  <1>1. \A T \in SUBSET S : IsFiniteSet(T) /\ Cardinality(T) \in Nat
    BY FS_Subset, FS_CardinalityType
  <1>2. \A T \in SUBSET S : Sum(T) \in Int
    BY <1>1, SumIsNumber
  <1>3. \A T \in SUBSET S : T # {} => Sum(T) = f[First(T)] + Sum(T \ {First(T)})
    BY <1>1, SumWithFirst
  <1> HIDE DEF Sum
  <1>4. 0 \in Good
    BY <1>1, FS_EmptySet
  <1>5. ASSUME NEW n \in Nat, n \in Good PROVE n + 1 \in Good
    <2> SUFFICES ASSUME NEW T \in SUBSET S, Cardinality(T) = n + 1, NEW y \in T
                 PROVE  Sum(T) = f[y] + Sum(T \ {y})
      OBVIOUS
    <2> DEFINE z == First(T)
    <2>1. z \in T /\ Sum(T) = f[z] + Sum(T \ {z})
      BY <1>3, FirstOf
    <2> HIDE DEF z
    <2>2. CASE y = z
      BY <2>1, <2>2
    <2>3. CASE y # z
      <3>1. Cardinality(T \ {z}) = n /\ Cardinality(T \ {y}) = n
        BY <1>1, <2>1, FS_RemoveElement
      <3>2. Sum(T \ {z}) = f[y] + Sum((T \ {z}) \ {y})
        BY <1>5, <2>1, <2>3, <3>1
      <3>3. Sum(T \ {y}) = f[z] + Sum((T \ {y}) \ {z})
        BY <1>5, <2>1, <2>3, <3>1
      <3>4. (T \ {z}) \ {y} = (T \ {y}) \ {z}
        OBVIOUS
      <3>5. f[y] \in Int /\ f[z] \in Int /\ Sum((T \ {y}) \ {z}) \in Int
        BY <1>2, <2>1
      <3> DEFINE rest == Sum((T \ {y}) \ {z})
                 without == Sum(T \ {z})
      <3>6. without = f[y] + rest /\ Sum(T \ {y}) = f[z] + rest /\ Sum(T) = f[z] + without
        BY <2>1, <3>2, <3>3, <3>4
      <3>7. rest \in Int
        BY <3>5
      <3> HIDE DEF rest, without
      <3>8. f[z] + (f[y] + rest) = f[y] + (f[z] + rest)
        BY <3>5, <3>7
      <3> QED
        BY <3>6, <3>8
    <2> QED
      BY <2>2, <2>3
  <1> HIDE DEF Good
  <1>6. Cardinality(S) \in Good
    BY <1>1, <1>4, <1>5, SetInduction
  <1> QED
    BY <1>6 DEF Good, Sum

\* Only the values in the set count.
LEMMA SumOfSame ==
    ASSUME NEW S, IsFiniteSet(S), NEW f, NEW g, \A x \in S : f[x] \in Int /\ f[x] = g[x]
    PROVE  SumFunctionOnSet(f, S) = SumFunctionOnSet(g, S)
  <1> DEFINE Good == {n \in Nat : \A T \in SUBSET S : Cardinality(T) = n =>
                         SumFunctionOnSet(f, T) = SumFunctionOnSet(g, T)}
  <1>1. \A T \in SUBSET S : IsFiniteSet(T) /\ Cardinality(T) \in Nat
    BY FS_Subset, FS_CardinalityType
  <1>2. 0 \in Good
    BY <1>1, FS_EmptySet, SumOfNothing
  <1>3. ASSUME NEW n \in Nat, n \in Good PROVE n + 1 \in Good
    <2> SUFFICES ASSUME NEW T \in SUBSET S, Cardinality(T) = n + 1
                 PROVE  SumFunctionOnSet(f, T) = SumFunctionOnSet(g, T)
      OBVIOUS
    <2>1. T # {} /\ IsFiniteSet(T)
      BY <1>1, FS_EmptySet
    <2>2. T \ {First(T)} \in SUBSET S /\ Cardinality(T \ {First(T)}) = n /\ First(T) \in S
      BY <1>1, <2>1, WithoutFirst, FirstOf
    <2>3. SumFunctionOnSet(f, T \ {First(T)}) = SumFunctionOnSet(g, T \ {First(T)})
      BY <1>3, <2>2
    <2>4. /\ SumFunctionOnSet(f, T) = f[First(T)] + SumFunctionOnSet(f, T \ {First(T)})
          /\ SumFunctionOnSet(g, T) = g[First(T)] + SumFunctionOnSet(g, T \ {First(T)})
      BY <2>1, SumWithFirst
    <2> QED
      BY <2>2, <2>3, <2>4
  <1> HIDE DEF Good
  <1>4. Cardinality(S) \in Good
    BY <1>1, <1>2, <1>3, SetInduction
  <1> QED
    BY <1>4 DEF Good

\* The sum follows the set ...
LEMMA SumAdded ==
    ASSUME NEW S, IsFiniteSet(S), NEW f, NEW x, \A y \in S \cup {x} : f[y] \in Int, x \notin S
    PROVE  SumFunctionOnSet(f, S \cup {x}) = SumFunctionOnSet(f, S) + f[x]
  <1>1. IsFiniteSet(S \cup {x}) /\ (S \cup {x}) \ {x} = S
    BY FS_AddElement
  <1>2. SumFunctionOnSet(f, S) \in Int
    BY SumIsNumber
  <1> QED
    BY <1>1, <1>2, SumWith

\* The sum of what the elements of a set stand for, each for another.
LEMMA SumOfImage ==
    ASSUME NEW S, IsFiniteSet(S), NEW f, NEW g, NEW at,
           \A x, y \in S : at[x] = at[y] => x = y,
           \A x \in S : g[x] = f[at[x]] /\ f[at[x]] \in Int
    PROVE  SumFunctionOnSet(g, S) = SumFunctionOnSet(f, {at[x] : x \in S})
  <1> DEFINE Image(T) == {at[x] : x \in T}
             Good == {n \in Nat : \A T \in SUBSET S : Cardinality(T) = n =>
                         /\ IsFiniteSet(Image(T))
                         /\ SumFunctionOnSet(g, T) = SumFunctionOnSet(f, Image(T))}
  <1>1. \A T \in SUBSET S : IsFiniteSet(T) /\ Cardinality(T) \in Nat
    BY FS_Subset, FS_CardinalityType
  <1>2. 0 \in Good
    <2>1. Image({}) = {}
      OBVIOUS
    <2>2. \A T \in SUBSET S : Cardinality(T) = 0 => T = {}
      BY <1>1, FS_EmptySet
    <2> HIDE DEF Image
    <2> QED
      BY <2>1, <2>2, FS_EmptySet, SumOfNothing
  <1>3. ASSUME NEW n \in Nat, n \in Good PROVE n + 1 \in Good
    <2> SUFFICES ASSUME NEW T \in SUBSET S, Cardinality(T) = n + 1
                 PROVE  IsFiniteSet(Image(T)) /\ SumFunctionOnSet(g, T) = SumFunctionOnSet(f, Image(T))
      OBVIOUS
    <2> DEFINE x == First(T)
               R == T \ {x}
    <2>1. T # {} /\ IsFiniteSet(T)
      BY <1>1, FS_EmptySet
    <2>2. R \in SUBSET S /\ Cardinality(R) = n /\ x \in S /\ x \in T
      BY <1>1, <2>1, WithoutFirst, FirstOf
    <2>3. IsFiniteSet(Image(R)) /\ SumFunctionOnSet(g, R) = SumFunctionOnSet(f, Image(R))
      BY <1>3, <2>2
    <2>4. SumFunctionOnSet(g, T) = g[x] + SumFunctionOnSet(g, R)
      BY <2>1, SumWithFirst
    <2>5. Image(T) = Image(R) \cup {at[x]} /\ at[x] \notin Image(R)
      BY <2>2
    <2>6. \A y \in Image(R) \cup {at[x]} : f[y] \in Int
      BY <2>2
    <2> HIDE DEF Image, x, R
    <2>7. SumFunctionOnSet(f, Image(R) \cup {at[x]}) = SumFunctionOnSet(f, Image(R)) + f[at[x]]
      <3>1. PICK I, z : I = Image(R) /\ z = at[x]
        OBVIOUS
      <3>2. IsFiniteSet(I) /\ z \notin I /\ \A y \in I \cup {z} : f[y] \in Int
        BY <2>3, <2>5, <2>6, <3>1
      <3>3. SumFunctionOnSet(f, I \cup {z}) = SumFunctionOnSet(f, I) + f[z]
        BY <3>2, SumAdded
      <3> QED
        BY <3>1, <3>3
    <2>8. SumFunctionOnSet(f, Image(R)) \in Int /\ g[x] = f[at[x]] /\ f[at[x]] \in Int
      BY <2>2, <2>3, <2>6, SumIsNumber
    <2>9. IsFiniteSet(Image(T))
      BY <2>3, <2>5, FS_AddElement
    <2> QED
      BY <2>3, <2>4, <2>5, <2>7, <2>8, <2>9
  <1> HIDE DEF Good
  <1>4. Cardinality(S) \in Good
    BY <1>1, <1>2, <1>3, SetInduction
  <1> QED
    BY <1>4 DEF Good

\* A set has a part of each size up to its own.
LEMMA PartOfSize ==
    ASSUME NEW S, IsFiniteSet(S), NEW k \in Nat, k <= Cardinality(S)
    PROVE  \E T \in SUBSET S : Cardinality(T) = k
  <1>1. Cardinality(S) \in Nat /\ ExistsBijection(1 .. Cardinality(S), S)
    BY FS_CardinalityType
  <1>2. PICK f : f \in Bijection(1 .. Cardinality(S), S)
    BY <1>1 DEF ExistsBijection
  <1>3. /\ f \in [1 .. Cardinality(S) -> S]
        /\ \A a, b \in 1 .. Cardinality(S) : f[a] = f[b] => a = b
    BY <1>2, Fun_BijectionProperties
  <1> DEFINE T == {f[j] : j \in 1 .. k}
             g == [j \in 1 .. k |-> f[j]]
  <1>4. 1 .. k \subseteq 1 .. Cardinality(S)
    BY <1>1
  <1>5. T \in SUBSET S
    BY <1>3, <1>4
  <1>6. g \in Bijection(1 .. k, T)
    <2>1. g \in [1 .. k -> T] /\ \A t \in T : \E s \in 1 .. k : g[s] = t
      OBVIOUS
    <2>2. \A a, b \in 1 .. k : g[a] = g[b] => a = b
      BY <1>3, <1>4
    <2> HIDE DEF g, T
    <2> QED
      BY <2>1, <2>2, Fun_IsBij
  <1>7. ExistsBijection(1 .. k, T)
    BY <1>6 DEF ExistsBijection
  <1>8. IsFiniteSet(1 .. k) /\ Cardinality(1 .. k) = k
    BY FS_Interval
  <1> HIDE DEF T
  <1>9. Cardinality(T) = k
    BY <1>7, <1>8, FS_Bijection
  <1> QED
    BY <1>5, <1>9

\* ... and grows with it and with the values.
LEMMA SumAtMost ==
    ASSUME NEW S, NEW T, IsFiniteSet(T), S \subseteq T, NEW f, NEW g,
           \A x \in T : f[x] \in Int /\ g[x] \in Nat,
           \A x \in S : f[x] <= g[x]
    PROVE  SumFunctionOnSet(f, S) <= SumFunctionOnSet(g, T)
  <1> DEFINE Good == {n \in Nat : \A U \in SUBSET T : Cardinality(U) = n =>
                         SumFunctionOnSet(f, S \cap U) <= SumFunctionOnSet(g, U)}
  <1>1. \A U \in SUBSET T : IsFiniteSet(U) /\ Cardinality(U) \in Nat
    BY FS_Subset, FS_CardinalityType
  <1>2. \A U \in SUBSET T : /\ SumFunctionOnSet(f, U) \in Int
                            /\ SumFunctionOnSet(g, U) \in Int
    BY <1>1, SumIsNumber
  <1>3. 0 \in Good
    <2> SUFFICES ASSUME NEW U \in SUBSET T, Cardinality(U) = 0
                 PROVE  SumFunctionOnSet(f, S \cap U) <= SumFunctionOnSet(g, U)
      OBVIOUS
    <2>1. U = {} /\ S \cap U = {}
      BY <1>1, FS_EmptySet
    <2>2. SumFunctionOnSet(f, S \cap U) = 0 /\ SumFunctionOnSet(g, U) = 0
      BY <2>1, SumOfNothing
    <2> QED
      BY <2>2
  <1>4. ASSUME NEW n \in Nat, n \in Good PROVE n + 1 \in Good
    <2> SUFFICES ASSUME NEW U \in SUBSET T, Cardinality(U) = n + 1
                 PROVE  SumFunctionOnSet(f, S \cap U) <= SumFunctionOnSet(g, U)
      OBVIOUS
    <2>1. U # {} /\ IsFiniteSet(U)
      BY <1>1, FS_EmptySet
    <2> DEFINE x == First(U)
    <2>2. x \in U
      BY <2>1, FirstOf
    <2> HIDE DEF x
    <2> DEFINE R == U \ {x}
    <2>3. R \in SUBSET T /\ Cardinality(R) = n
      BY <1>1, <2>2, FS_RemoveElement
    <2>4. SumFunctionOnSet(f, S \cap R) <= SumFunctionOnSet(g, R)
      BY <1>4, <2>3
    <2>5. SumFunctionOnSet(g, U) = g[x] + SumFunctionOnSet(g, R)
      BY <2>1, <2>2, SumWith
    <2>6. CASE x \in S
      <3>1. x \in S \cap U /\ (S \cap U) \ {x} = S \cap R
        BY <2>2, <2>6
      <3>2. IsFiniteSet(S \cap U) /\ \A y \in S \cap U : f[y] \in Int
        BY <1>1
      <3>3. SumFunctionOnSet(f, S \cap U) = f[x] + SumFunctionOnSet(f, S \cap R)
        BY <3>1, <3>2, SumWith
      <3>4. /\ SumFunctionOnSet(f, S \cap R) \in Int /\ SumFunctionOnSet(g, R) \in Int
            /\ f[x] \in Int /\ g[x] \in Int /\ f[x] <= g[x]
        BY <1>2, <2>2, <2>3, <2>6
      <3> HIDE DEF R
      <3> QED
        BY <2>4, <2>5, <3>3, <3>4
    <2>7. CASE x \notin S
      <3>1. S \cap U = S \cap R
        BY <2>7
      <3>2. /\ SumFunctionOnSet(f, S \cap R) \in Int /\ SumFunctionOnSet(g, R) \in Int
            /\ g[x] \in Nat
        BY <1>2, <2>2, <2>3
      <3> HIDE DEF R
      <3> QED
        BY <2>4, <2>5, <3>1, <3>2
    <2> QED
      BY <2>6, <2>7
  <1> HIDE DEF Good
  <1>5. Cardinality(T) \in Good
    BY <1>1, <1>3, <1>4, SetInduction
  <1>6. S \cap T = S
    OBVIOUS
  <1> QED
    BY <1>5, <1>6 DEF Good

\* A sum of natural numbers is one.
LEMMA SumIsNatural ==
    ASSUME NEW S, IsFiniteSet(S), NEW f, \A x \in S : f[x] \in Nat
    PROVE  SumFunctionOnSet(f, S) \in Nat
  <1>1. SumFunctionOnSet(f, S) \in Int
    BY SumIsNumber
  <1>2. SumFunctionOnSet(f, {}) <= SumFunctionOnSet(f, S)
    BY SumAtMost
  <1> QED
    BY <1>1, <1>2, SumOfNothing

\* A sum over two sets that share nothing.
LEMMA SumOfTwo ==
    ASSUME NEW S, IsFiniteSet(S), NEW T, IsFiniteSet(T), S \cap T = {},
           NEW f, \A x \in S \cup T : f[x] \in Int
    PROVE  SumFunctionOnSet(f, S \cup T) = SumFunctionOnSet(f, S) + SumFunctionOnSet(f, T)
  <1> DEFINE Sum(U) == SumFunctionOnSet(f, U)
             Good == {n \in Nat : \A U \in SUBSET T : Cardinality(U) = n =>
                         Sum(S \cup U) = Sum(S) + Sum(U)}
  <1>1. \A U \in SUBSET T : IsFiniteSet(U) /\ Cardinality(U) \in Nat /\ IsFiniteSet(S \cup U)
    BY FS_Subset, FS_CardinalityType, FS_Union
  <1>2. Sum(S) \in Int /\ \A U \in SUBSET T : Sum(U) \in Int
    BY <1>1, SumIsNumber
  <1>3. 0 \in Good
    <2> SUFFICES ASSUME NEW U \in SUBSET T, Cardinality(U) = 0
                 PROVE  Sum(S \cup U) = Sum(S) + Sum(U)
      OBVIOUS
    <2>1. U = {} /\ S \cup U = S
      BY <1>1, FS_EmptySet
    <2>2. Sum(S \cup U) = Sum(S) /\ Sum(U) = 0
      BY <2>1, SumOfNothing
    <2> HIDE DEF Sum
    <2> QED
      BY <1>2, <2>2
  <1>4. ASSUME NEW n \in Nat, n \in Good PROVE n + 1 \in Good
    <2> SUFFICES ASSUME NEW U \in SUBSET T, Cardinality(U) = n + 1
                 PROVE  Sum(S \cup U) = Sum(S) + Sum(U)
      OBVIOUS
    <2>1. PICK x \in U : TRUE
      BY <1>1, FS_EmptySet
    <2> DEFINE R == U \ {x}
    <2>2. R \in SUBSET T /\ Cardinality(R) = n
      <3>1. IsFiniteSet(U) /\ Cardinality(R) = Cardinality(U) - 1
        BY <1>1, <2>1, FS_RemoveElement
      <3> QED
        BY <3>1
    <2>3. Sum(S \cup R) = Sum(S) + Sum(R)
      BY <1>4, <2>2
    <2>4. Sum(U) = f[x] + Sum(R)
      BY <1>1, <2>1, SumWith
    <2>5. Sum(S \cup U) = f[x] + Sum(S \cup R)
      <3>1. (S \cup U) \ {x} = S \cup R
        BY <2>1
      <3>2. IsFiniteSet(S \cup U) /\ x \in S \cup U /\ \A y \in S \cup U : f[y] \in Int
        BY <1>1, <2>1
      <3>3. Sum(S \cup U) = f[x] + Sum((S \cup U) \ {x})
        BY <3>2, SumWith
      <3> QED
        BY <3>1, <3>3
    <2>6. f[x] \in Int /\ Sum(S) \in Int /\ Sum(R) \in Int
      BY <1>2, <2>1, <2>2
    <2> HIDE DEF Sum, R
    <2> QED
      BY <2>3, <2>4, <2>5, <2>6
  <1> HIDE DEF Good
  <1>5. Cardinality(T) \in Good
    BY <1>1, <1>3, <1>4, SetInduction
  <1> QED
    BY <1>5 DEF Good

\* g is the sum of f over each of the parts P that at makes of S.
ByParts(g, P, f, at, S) ==
    \A p \in P : g[p] = SumFunctionOnSet(f, {x \in S : at[x] = p})

\* A sum taken part by part.
LEMMA SumByParts ==
    ASSUME NEW S, IsFiniteSet(S), NEW f, \A x \in S : f[x] \in Int,
           NEW P, IsFiniteSet(P), NEW at, \A x \in S : at[x] \in P,
           NEW g, ByParts(g, P, f, at, S)
    PROVE  SumFunctionOnSet(g, P) = SumFunctionOnSet(f, S)
  <1> DEFINE Part(Q) == {x \in S : at[x] \in Q}
             Good == {n \in Nat : \A Q \in SUBSET P : Cardinality(Q) = n =>
                         SumFunctionOnSet(g, Q) = SumFunctionOnSet(f, Part(Q))}
  <1>1. \A Q \in SUBSET P : IsFiniteSet(Q) /\ Cardinality(Q) \in Nat
    BY FS_Subset, FS_CardinalityType
  <1>2. 0 \in Good
    <2> SUFFICES ASSUME NEW Q \in SUBSET P, Cardinality(Q) = 0
                 PROVE  SumFunctionOnSet(g, Q) = SumFunctionOnSet(f, Part(Q))
      OBVIOUS
    <2>1. Q = {} /\ Part(Q) = {}
      BY <1>1, FS_EmptySet
    <2> HIDE DEF Part
    <2> QED
      BY <2>1, SumOfNothing
  <1>3. ASSUME NEW n \in Nat, n \in Good PROVE n + 1 \in Good
    <2> SUFFICES ASSUME NEW Q \in SUBSET P, Cardinality(Q) = n + 1
                 PROVE  SumFunctionOnSet(g, Q) = SumFunctionOnSet(f, Part(Q))
      OBVIOUS
    <2> DEFINE p == First(Q)
               R == Q \ {p}
               own == {x \in S : at[x] = p}
    <2>1. Q # {} /\ IsFiniteSet(Q)
      BY <1>1, FS_EmptySet
    <2>2. R \in SUBSET P /\ Cardinality(R) = n /\ p \in P /\ p \in Q
      BY <1>1, <2>1, WithoutFirst, FirstOf
    <2>3. SumFunctionOnSet(g, R) = SumFunctionOnSet(f, Part(R))
      BY <1>3, <2>2
    <2>4. SumFunctionOnSet(g, Q) = g[p] + SumFunctionOnSet(g, R)
      BY <2>1, SumWithFirst
    <2>5. /\ Part(Q) = Part(R) \cup own /\ Part(R) \cap own = {}
          /\ Part(R) \in SUBSET S /\ own \in SUBSET S
      BY <2>2
    <2>6. g[p] = SumFunctionOnSet(f, own)
      BY <2>2 DEF ByParts
    <2> HIDE DEF Part, p, R, own
    <2>7. /\ IsFiniteSet(Part(R)) /\ IsFiniteSet(own)
          /\ \A x \in Part(R) \cup own : f[x] \in Int
      BY <2>5, FS_Subset
    <2>8. SumFunctionOnSet(f, Part(R) \cup own) = SumFunctionOnSet(f, Part(R)) + SumFunctionOnSet(f, own)
      <3>1. PICK A, B : A = Part(R) /\ B = own
        OBVIOUS
      <3>2. IsFiniteSet(A) /\ IsFiniteSet(B) /\ A \cap B = {} /\ \A x \in A \cup B : f[x] \in Int
        BY <2>5, <2>7, <3>1
      <3> QED
        BY <3>1, <3>2, SumOfTwo
    <2>9. SumFunctionOnSet(f, Part(R)) \in Int /\ SumFunctionOnSet(f, own) \in Int
      BY <2>7, SumIsNumber
    <2> QED
      BY <2>3, <2>4, <2>5, <2>6, <2>8, <2>9
  <1> HIDE DEF Good
  <1>4. Cardinality(P) \in Good
    BY <1>1, <1>2, <1>3, SetInduction
  <1>5. Part(P) = S
    OBVIOUS
  <1> QED
    BY <1>4, <1>5 DEF Good

\* How many there are, as a sum.
LEMMA SumOfOnes ==
    ASSUME NEW S, IsFiniteSet(S), NEW f, \A x \in S : f[x] = 1
    PROVE  SumFunctionOnSet(f, S) = Cardinality(S)
  <1> DEFINE Good == {n \in Nat : \A T \in SUBSET S : Cardinality(T) = n =>
                         SumFunctionOnSet(f, T) = n}
  <1>1. \A T \in SUBSET S : IsFiniteSet(T) /\ Cardinality(T) \in Nat
    BY FS_Subset, FS_CardinalityType
  <1>2. 0 \in Good
    <2>1. \A T \in SUBSET S : Cardinality(T) = 0 => T = {}
      BY <1>1, FS_EmptySet
    <2> QED
      BY <2>1, SumOfNothing
  <1>3. ASSUME NEW n \in Nat, n \in Good PROVE n + 1 \in Good
    <2> SUFFICES ASSUME NEW T \in SUBSET S, Cardinality(T) = n + 1
                 PROVE  SumFunctionOnSet(f, T) = n + 1
      OBVIOUS
    <2>1. T # {} /\ IsFiniteSet(T)
      BY <1>1, FS_EmptySet
    <2>2. First(T) \in T /\ T \ {First(T)} \in SUBSET S /\ Cardinality(T \ {First(T)}) = n
      BY <1>1, <2>1, WithoutFirst, FirstOf
    <2>3. SumFunctionOnSet(f, T \ {First(T)}) = n
      BY <1>3, <2>2
    <2>4. SumFunctionOnSet(f, T) = f[First(T)] + SumFunctionOnSet(f, T \ {First(T)})
      BY <2>1, SumWithFirst
    <2> QED
      BY <2>2, <2>3, <2>4
  <1> HIDE DEF Good
  <1>4. Cardinality(S) \in Good
    BY <1>1, <1>2, <1>3, SetInduction
  <1> QED
    BY <1>4 DEF Good

\* One value changes.
LEMMA SumChanged ==
    ASSUME NEW S, IsFiniteSet(S), NEW f, NEW g, NEW x \in S,
           \A y \in S : f[y] \in Int /\ g[y] \in Int,
           \A y \in S \ {x} : g[y] = f[y]
    PROVE  SumFunctionOnSet(g, S) = SumFunctionOnSet(f, S) + g[x] - f[x]
  <1> DEFINE R == S \ {x}
             rest == SumFunctionOnSet(f, R)
  <1>1. IsFiniteSet(R)
    BY FS_Subset
  <1>2. SumFunctionOnSet(g, R) = rest
    BY <1>1, SumOfSame
  <1>3. SumFunctionOnSet(f, S) = f[x] + rest /\ SumFunctionOnSet(g, S) = g[x] + rest
    BY <1>2, SumWith
  <1>4. rest \in Int
    BY <1>1, SumIsNumber
  <1> HIDE DEF rest, R
  <1> QED
    BY <1>3, <1>4

-----------------------------------------------------------------------------
(* Finite sets in order.                                                   *)

\* R puts the elements of S in a line.
Line(R, S) ==
    /\ \A a, b \in S : a # b => <<a, b>> \in R \/ <<b, a>> \in R
    /\ \A a, b, c \in S : <<a, b>> \in R /\ <<b, c>> \in R => <<a, c>> \in R
    /\ \A a \in S : <<a, a>> \notin R

InLine(s, R, S) ==
    /\ s \in [1 .. Cardinality(S) -> S]
    /\ \A i, j \in 1 .. Cardinality(S) : i < j => <<s[i], s[j]>> \in R

LEMMA LastInLine ==
    ASSUME NEW S, IsFiniteSet(S), NEW R, Line(R, S), S # {}
    PROVE  \E m \in S : \A b \in S \ {m} : <<b, m>> \in R
  <1> DEFINE Good == {n \in Nat : \A T \in SUBSET S : Cardinality(T) = n /\ T # {} =>
                         \E m \in T : \A b \in T \ {m} : <<b, m>> \in R}
  <1>1. \A T \in SUBSET S : IsFiniteSet(T) /\ Cardinality(T) \in Nat
    BY FS_Subset, FS_CardinalityType
  <1>2. 0 \in Good
    BY <1>1, FS_EmptySet
  <1>3. ASSUME NEW n \in Nat, n \in Good PROVE n + 1 \in Good
    <2> SUFFICES ASSUME NEW T \in SUBSET S, Cardinality(T) = n + 1, T # {}
                 PROVE  \E m \in T : \A b \in T \ {m} : <<b, m>> \in R
      OBVIOUS
    <2> DEFINE x == First(T)
               rest == T \ {x}
    <2>1. x \in T /\ rest \in SUBSET S /\ Cardinality(rest) = n
      BY <1>1, WithoutFirst, FirstOf
    <2> HIDE DEF x
    <2>2. CASE rest = {}
      BY <2>1, <2>2
    <2>3. CASE rest # {}
      <3>1. PICK m \in rest : \A b \in rest \ {m} : <<b, m>> \in R
        BY <1>3, <2>1, <2>3
      <3>2. m \in T /\ m \in S /\ x \in S /\ m # x
        BY <2>1
      <3>3. CASE <<x, m>> \in R
        BY <3>1, <3>2, <3>3
      <3>4. CASE <<m, x>> \in R
        <4>1. \A b \in T \ {x} : <<b, x>> \in R
          BY <2>1, <3>1, <3>2, <3>4 DEF Line
        <4> QED
          BY <2>1, <4>1
      <3> QED
        BY <3>2, <3>3, <3>4 DEF Line
    <2> QED
      BY <2>2, <2>3
  <1> HIDE DEF Good
  <1>4. Cardinality(S) \in Good
    BY <1>1, <1>2, <1>3, SetInduction
  <1> QED
    BY <1>4 DEF Good

LEMMA LinedUp ==
    ASSUME NEW S, IsFiniteSet(S), NEW R, Line(R, S)
    PROVE  \E s : InLine(s, R, S)
  <1> DEFINE Good == {n \in Nat : \A T \in SUBSET S : Cardinality(T) = n =>
                         \E s : InLine(s, R, T)}
  <1>1. \A T \in SUBSET S : IsFiniteSet(T) /\ Cardinality(T) \in Nat /\ Line(R, T)
    BY FS_Subset, FS_CardinalityType DEF Line
  <1>2. 0 \in Good
    <2> SUFFICES ASSUME NEW T \in SUBSET S, Cardinality(T) = 0
                 PROVE  \E s : InLine(s, R, T)
      OBVIOUS
    <2>1. [i \in 1 .. 0 |-> i] \in [1 .. Cardinality(T) -> T]
      OBVIOUS
    <2>2. \A i \in 1 .. Cardinality(T) : FALSE
      OBVIOUS
    <2> QED
      BY <2>1, <2>2 DEF InLine
  <1>3. ASSUME NEW n \in Nat, n \in Good PROVE n + 1 \in Good
    <2> SUFFICES ASSUME NEW T \in SUBSET S, Cardinality(T) = n + 1
                 PROVE  \E s : InLine(s, R, T)
      OBVIOUS
    <2>1. IsFiniteSet(T) /\ T # {} /\ Line(R, T)
      BY <1>1, FS_EmptySet
    <2>2. PICK m \in T : \A b \in T \ {m} : <<b, m>> \in R
      BY <2>1, LastInLine
    <2>3. T \ {m} \in SUBSET S /\ Cardinality(T \ {m}) = n
      <3>1. Cardinality(T \ {m}) = Cardinality(T) - 1
        BY <2>1, <2>2, FS_RemoveElement
      <3> QED
        BY <3>1
    <2>4. PICK t : InLine(t, R, T \ {m})
      BY <1>3, <2>3
    <2>5. t \in [1 .. n -> T \ {m}] /\ \A i, j \in 1 .. n : i < j => <<t[i], t[j]>> \in R
      BY <2>3, <2>4 DEF InLine
    <2> DEFINE s == [i \in 1 .. n + 1 |-> IF i = n + 1 THEN m ELSE t[i]]
    <2>6. \A i \in 1 .. n + 1 : i = n + 1 \/ i \in 1 .. n
      OBVIOUS
    <2>7. s \in [1 .. Cardinality(T) -> T]
      BY <2>2, <2>5, <2>6
    <2>8. ASSUME NEW i \in 1 .. n + 1, NEW j \in 1 .. n + 1, i < j PROVE <<s[i], s[j]>> \in R
      <3>1. i \in 1 .. n /\ s[i] = t[i] /\ t[i] \in T \ {m}
        BY <2>5, <2>8
      <3>2. CASE j = n + 1
        BY <2>2, <3>1, <3>2
      <3>3. CASE j \in 1 .. n
        <4>1. s[j] = t[j]
          BY <3>3
        <4> QED
          BY <2>5, <2>8, <3>1, <3>3, <4>1
      <3> QED
        BY <2>6, <3>2, <3>3
    <2> HIDE DEF s
    <2>9. InLine(s, R, T)
      BY <2>7, <2>8 DEF InLine
    <2> QED
      BY <2>9
  <1> HIDE DEF Good
  <1>4. Cardinality(S) \in Good
    BY <1>1, <1>2, <1>3, SetInduction
  <1> QED
    BY <1>4 DEF Good

\* Each element is in the line once.
LEMMA LineIsWhole ==
    ASSUME NEW S, IsFiniteSet(S), NEW R, Line(R, S), NEW s, InLine(s, R, S)
    PROVE  /\ \A i, j \in 1 .. Cardinality(S) : s[i] = s[j] => i = j
           /\ \A x \in S : \E i \in 1 .. Cardinality(S) : s[i] = x
  <1>1. Cardinality(S) \in Nat /\ s \in [1 .. Cardinality(S) -> S]
    BY FS_CardinalityType DEF InLine
  <1>2. \A i, j \in 1 .. Cardinality(S) : s[i] = s[j] => i = j
    <2> SUFFICES ASSUME NEW i \in 1 .. Cardinality(S), NEW j \in 1 .. Cardinality(S), i # j
                 PROVE  s[i] # s[j]
      OBVIOUS
    <2>1. i < j \/ j < i
      BY <1>1
    <2>2. s[i] \in S /\ s[j] \in S
      BY <1>1
    <2> QED
      BY <2>1, <2>2 DEF InLine, Line
  <1>3. s \in Injection(1 .. Cardinality(S), S)
    BY <1>1, <1>2, Fun_IsInj
  <1>4. IsFiniteSet(1 .. Cardinality(S)) /\ Cardinality(1 .. Cardinality(S)) = Cardinality(S)
    BY <1>1, FS_Interval
  <1>5. s \in Surjection(1 .. Cardinality(S), S)
    BY <1>3, <1>4, FS_Injection
  <1>6. \A x \in S : \E i \in 1 .. Cardinality(S) : s[i] = x
    BY <1>5 DEF Surjection
  <1> QED
    BY <1>2, <1>6

LEMMA ProductMonotone ==
    \A k \in Nat, a, b \in Int : a <= b => a * k <= b * k
  <1> DEFINE Good == {k \in Nat : \A a, b \in Int : a <= b => a * k <= b * k}
  <1>1. 0 \in Good
    OBVIOUS
  <1>2. ASSUME NEW k \in Nat, k \in Good PROVE k + 1 \in Good
    <2> SUFFICES ASSUME NEW a \in Int, NEW b \in Int, a <= b PROVE a * (k + 1) <= b * (k + 1)
      OBVIOUS
    <2>1. a * (k + 1) = a * k + a /\ b * (k + 1) = b * k + b
      OBVIOUS
    <2>2. a * k <= b * k /\ a * k \in Int /\ b * k \in Int
      BY <1>2
    <2> QED
      BY <2>1, <2>2
  <1> HIDE DEF Good
  <1>3. \A k \in Nat : k \in Good
    BY <1>1, <1>2, SetInduction
  <1> QED
    BY <1>3 DEF Good

LEMMA QuotientMonotone ==
    ASSUME NEW d \in Nat \ {0}, NEW a \in Int, NEW b \in Int, a <= b
    PROVE  a \div d <= b \div d
  OBVIOUS

-----------------------------------------------------------------------------
(* Lists that are read page by page.                                         *)

\* The elements of a finite set of numbers, the greatest first.
Sorted(F, n) == CHOOSE s \in [1 .. n -> F] : \A i, j \in DOMAIN s : i < j => s[i] > s[j]
Ordered(F) == Sorted(F, Cardinality(F))

LEMMA OrderedIsWhole ==
    ASSUME NEW F, IsFiniteSet(F), F \subseteq Nat
    PROVE  LET s == Ordered(F) IN
             /\ s \in Seq(Nat) /\ s \in Seq(F) /\ Len(s) = Cardinality(F) /\ DOMAIN s = 1 .. Len(s)
             /\ Len(s) \in Nat
             /\ \A i, j \in 1 .. Len(s) : s[i] = s[j] => i = j
             /\ \A x \in F : \E i \in 1 .. Len(s) : s[i] = x
  <1> DEFINE R == {pair \in F \X F : pair[1] > pair[2]}
  <1>1. \A a, b \in F : (<<a, b>> \in R) <=> a > b
    OBVIOUS
  <1>2. \A a \in F : a \in Nat
    OBVIOUS
  <1>3. Cardinality(F) \in Nat
    BY FS_CardinalityType
  <1> HIDE DEF R
  <1>4. Line(R, F)
    BY <1>1, <1>2 DEF Line
  <1>5. \A s : InLine(s, R, F) <=>
                  /\ s \in [1 .. Cardinality(F) -> F]
                  /\ \A i, j \in DOMAIN s : i < j => s[i] > s[j]
    <2> SUFFICES ASSUME NEW s, s \in [1 .. Cardinality(F) -> F]
                 PROVE  InLine(s, R, F) <=> \A i, j \in DOMAIN s : i < j => s[i] > s[j]
      BY DEF InLine
    <2>1. DOMAIN s = 1 .. Cardinality(F) /\ \A i \in DOMAIN s : s[i] \in F
      OBVIOUS
    <2> QED
      BY <1>1, <2>1 DEF InLine
  <1>6. PICK s : s = Ordered(F)
    OBVIOUS
  <1>7. s = CHOOSE x \in [1 .. Cardinality(F) -> F] : \A i, j \in DOMAIN x : i < j => x[i] > x[j]
    BY <1>6 DEF Ordered, Sorted
  <1>8. InLine(s, R, F)
    <2>1. \E x : InLine(x, R, F)
      BY <1>4, LinedUp
    <2>2. \E x \in [1 .. Cardinality(F) -> F] : \A i, j \in DOMAIN x : i < j => x[i] > x[j]
      BY <1>5, <2>1
    <2>3. s \in [1 .. Cardinality(F) -> F] /\ \A i, j \in DOMAIN s : i < j => s[i] > s[j]
      BY <1>7, <2>2
    <2> QED
      BY <1>5, <2>3
  <1>9. /\ \A i, j \in 1 .. Cardinality(F) : s[i] = s[j] => i = j
        /\ \A x \in F : \E i \in 1 .. Cardinality(F) : s[i] = x
    BY <1>4, <1>8, LineIsWhole
  <1>10. s \in [1 .. Cardinality(F) -> F]
    BY <1>5, <1>8
  <1>11. s \in Seq(F) /\ Len(s) = Cardinality(F) /\ DOMAIN s = 1 .. Cardinality(F)
    BY <1>3, <1>10
  <1>12. s \in Seq(Nat)
    BY <1>11, SeqMonotonic
  <1> QED
    BY <1>3, <1>6, <1>9, <1>11, <1>12

\* The values of a function over a finite set are finitely many.
LEMMA ImageIsFinite ==
    ASSUME NEW S, IsFiniteSet(S), NEW f
    PROVE  IsFiniteSet({f[x] : x \in S})
  <1> DEFINE T == {f[x] : x \in S}
             g == [x \in S |-> f[x]]
  <1>1. g \in [S -> T] /\ \A t \in T : \E x \in S : g[x] = t
    OBVIOUS
  <1> HIDE DEF g, T
  <1>2. g \in Surjection(S, T)
    BY <1>1 DEF Surjection
  <1>3. IsFiniteSet(T)
    BY <1>2, FS_Surjection
  <1> QED
    BY <1>3 DEF T

\* As many pages as the rows need.
LEMMA PagesNeeded ==
    ASSUME NEW n \in Nat, NEW m \in Nat \ {0}, n <= m, NEW k \in Nat \ {0}
    PROVE  LET t == IF n = 0 THEN 1 ELSE (n + k - 1) \div k IN
             t \in Nat /\ t <= m /\ t * k >= n
  <1>1. CASE n = 0
    BY <1>1
  <1>2. CASE n # 0
    <2>1. PICK x, t, r : x = n + k - 1 /\ t = x \div k /\ r = x % k
      OBVIOUS
    <2>2. x \in Nat /\ t \in Int /\ r \in 0 .. k - 1 /\ x = k * t + r
      BY <2>1
    <2>3. t >= 0
      BY <2>1, <2>2
    <2>4. k * t >= n
      BY <2>1, <2>2
    <2>5. t * k = k * t
      BY <2>2
    <2>6. t <= n
      <3> SUFFICES ASSUME t > n PROVE FALSE
        BY <2>2
      <3>1. (n + 1) * k <= t * k
        BY <2>2, ProductMonotone
      <3>2. n <= n * k
        <4>1. 1 * n <= k * n
          BY ProductMonotone
        <4> QED
          BY <4>1
      <3>3. (n + 1) * k = n * k + k /\ n * k \in Int
        OBVIOUS
      <3> QED
        BY <2>1, <2>2, <2>5, <3>1, <3>2, <3>3
    <2> QED
      BY <1>2, <2>1, <2>2, <2>3, <2>4, <2>5, <2>6
  <1> QED
    BY <1>1, <1>2

-----------------------------------------------------------------------------
(* The pages of a cursor: what was read of L, the greatest first, and what   *)
(* there is under the last of it.                                            *)

Falls(s, n) == \A i, j \in 1 .. n : i < j => s[i] > s[j]

\* What was read of L down to c, and what there is below c.
ReadTo(s, n, c, L) ==
    /\ \A i \in 1 .. n : s[i] \in L /\ s[i] >= c
    /\ Falls(s, n)
    /\ \A p \in L : (n # 0 /\ p <= s[1]) => p < c \/ \E i \in 1 .. n : s[i] = p
UnderIt(s, n, c, L) ==
    /\ \A i \in 1 .. n : s[i] \in L /\ s[i] < c
    /\ Falls(s, n)
    /\ \A p \in L : p < c => \E i \in 1 .. n : s[i] = p

\* One more page, of k, under those that have been read.
OnePage(seen, before, s, n, m, k, c, d, L) ==
    /\ L \subseteq Nat /\ c \in Nat /\ n \in Nat /\ m \in Nat /\ k \in Nat
    /\ k <= m /\ (k = 0 => m = 0) /\ (n = 0 => \A p \in L : p < c)
    /\ ReadTo(before, n, c, L) /\ UnderIt(s, m, c, L)
    /\ \A i \in 1 .. n : seen[i] = before[i]
    /\ \A i \in 1 .. k : seen[n + i] = s[i]
    /\ d = IF k = 0 THEN 0 ELSE s[k]

LEMMA PageTurned ==
    ASSUME NEW L, NEW c, NEW d, NEW n, NEW m, NEW k, NEW before, NEW s, NEW seen,
           OnePage(seen, before, s, n, m, k, c, d, L)
    PROVE  /\ ReadTo(seen, n + k, d, L)
           /\ k = m => \A p \in L : (n + k # 0 /\ p <= seen[1]) => \E i \in 1 .. n + k : seen[i] = p
  <1>0. /\ L \subseteq Nat /\ c \in Nat /\ n \in Nat /\ m \in Nat /\ k \in Nat
        /\ k <= m /\ (k = 0 => m = 0) /\ (n = 0 => \A p \in L : p < c)
        /\ ReadTo(before, n, c, L) /\ UnderIt(s, m, c, L)
        /\ \A i \in 1 .. n : seen[i] = before[i]
        /\ \A i \in 1 .. k : seen[n + i] = s[i]
        /\ d = IF k = 0 THEN 0 ELSE s[k]
    BY DEF OnePage
  <1> USE <1>0
  <1>1. \A i \in 1 .. n + k : i \in 1 .. n \/ \E j \in 1 .. k : i = n + j
    <2> SUFFICES ASSUME NEW i \in 1 .. n + k, i \notin 1 .. n PROVE \E j \in 1 .. k : i = n + j
      OBVIOUS
    <2>1. i - n \in 1 .. k /\ i = n + (i - n)
      OBVIOUS
    <2> QED
      BY <2>1
  <1>2. \A i \in 1 .. n : before[i] \in L /\ before[i] \in Nat /\ before[i] >= c /\ seen[i] = before[i]
    BY <1>0 DEF ReadTo
  <1>3. \A i \in 1 .. m : s[i] \in L /\ s[i] \in Nat /\ s[i] < c
    BY DEF UnderIt
  <1>4. /\ \A i \in 1 .. k : i \in 1 .. m /\ n + i \in 1 .. n + k
        /\ \A i \in 1 .. n : i \in 1 .. n + k
        /\ k # 0 => k \in 1 .. m
    OBVIOUS
  <1>5. d \in Nat /\ d <= c /\ (k # 0 => d = s[k] /\ d < c) /\ (k = 0 => d = 0)
    BY <1>0, <1>3, <1>4
  <1>6. \A i \in 1 .. k : s[i] >= d
    <2> SUFFICES ASSUME NEW i \in 1 .. k, i # k PROVE s[i] > s[k]
      BY <1>3, <1>4, <1>5
    <2>1. k # 0 /\ i < k /\ i \in 1 .. m /\ k \in 1 .. m
      BY <1>4
    <2> QED
      BY <2>1 DEF UnderIt, Falls
  <1>7. ASSUME NEW i \in 1 .. n + k PROVE seen[i] \in L /\ seen[i] >= d
    <2>1. CASE i \in 1 .. n
      BY <1>2, <1>5, <2>1
    <2>2. CASE \E j \in 1 .. k : i = n + j
      BY <1>0, <1>3, <1>4, <1>6, <2>2
    <2> QED
      BY <1>1, <2>1, <2>2
  <1>8. ASSUME NEW i \in 1 .. n + k, NEW j \in 1 .. n + k, i < j PROVE seen[i] > seen[j]
    <2>1. CASE i \in 1 .. n /\ j \in 1 .. n
      BY <1>2, <1>8, <2>1 DEF ReadTo, Falls
    <2>2. CASE i \in 1 .. n /\ \E b \in 1 .. k : j = n + b
      <3>1. PICK b \in 1 .. k : j = n + b
        BY <2>2
      <3>2. seen[i] \in Nat /\ seen[i] >= c
        BY <1>2, <2>2
      <3>3. seen[j] = s[b] /\ s[b] \in Nat /\ s[b] < c
        BY <1>0, <1>3, <1>4, <3>1
      <3> QED
        BY <3>2, <3>3
    <2>3. CASE (\E a \in 1 .. k : i = n + a) /\ \E b \in 1 .. k : j = n + b
      <3>1. PICK a \in 1 .. k, b \in 1 .. k : i = n + a /\ j = n + b
        BY <2>3
      <3>2. a < b /\ a \in 1 .. m /\ b \in 1 .. m /\ seen[i] = s[a] /\ seen[j] = s[b]
        BY <1>0, <1>4, <1>8, <3>1
      <3> QED
        BY <3>2 DEF UnderIt, Falls
    <2>4. CASE (\E a \in 1 .. k : i = n + a) /\ j \in 1 .. n
      BY <1>8, <2>4
    <2> QED
      BY <1>1, <2>1, <2>2, <2>3, <2>4
  <1>9. ASSUME NEW p \in L, n + k # 0, p <= seen[1]
        PROVE  p < c \/ \E i \in 1 .. n : seen[i] = p
    <2>1. CASE n # 0
      <3>1. 1 \in 1 .. n /\ seen[1] = before[1]
        BY <1>2, <2>1
      <3>2. p < c \/ \E i \in 1 .. n : before[i] = p
        BY <1>9, <2>1, <3>1 DEF ReadTo
      <3> QED
        BY <1>2, <3>2
    <2>2. CASE n = 0
      BY <2>2
    <2> QED
      BY <2>1, <2>2
  <1>10. ASSUME NEW p \in L, p < c
         PROVE  /\ k = m => \E i \in 1 .. n + k : seen[i] = p
                /\ p < d \/ \E i \in 1 .. n + k : seen[i] = p
    <2>1. PICK j \in 1 .. m : s[j] = p
      BY <1>10 DEF UnderIt
    <2>2. CASE j <= k
      <3>1. j \in 1 .. k
        BY <2>2
      <3>2. seen[n + j] = p /\ n + j \in 1 .. n + k
        BY <1>0, <1>4, <2>1, <3>1
      <3> QED
        BY <3>2
    <2>3. CASE j > k
      <3>1. k # 0 /\ k # m /\ k \in 1 .. m /\ k < j
        BY <1>4, <2>3
      <3>2. s[k] > s[j]
        BY <3>1 DEF UnderIt, Falls
      <3>3. p < d
        BY <1>3, <1>5, <2>1, <3>1, <3>2
      <3> QED
        BY <3>1, <3>3
    <2> QED
      BY <2>2, <2>3
  <1>11. ASSUME NEW p \in L, n + k # 0, p <= seen[1]
         PROVE  /\ p < d \/ \E i \in 1 .. n + k : seen[i] = p
                /\ k = m => \E i \in 1 .. n + k : seen[i] = p
    <2>1. CASE p < c
      BY <1>10, <2>1
    <2>2. CASE \E i \in 1 .. n : seen[i] = p
      BY <1>4, <2>2
    <2> QED
      BY <1>9, <1>11, <2>1, <2>2
  <1> QED
    BY <1>7, <1>8, <1>11 DEF ReadTo, Falls

LEMMA SeqCut ==
    ASSUME NEW S, NEW s \in Seq(S), NEW k \in Nat, k <= Len(s)
    PROVE  /\ SubSeq(s, 1, k) \in Seq(S) /\ Len(SubSeq(s, 1, k)) = k
           /\ \A i \in 1 .. k : SubSeq(s, 1, k)[i] = s[i] /\ s[i] \in S
           /\ \A i \in 1 .. Len(s) : s[i] \in S
  OBVIOUS

LEMMA SeqJoined ==
    ASSUME NEW S, NEW a \in Seq(S), NEW b \in Seq(S)
    PROVE  /\ a \o b \in Seq(S) /\ Len(a \o b) = Len(a) + Len(b)
           /\ \A i \in 1 .. Len(a) : (a \o b)[i] = a[i]
           /\ \A i \in 1 .. Len(b) : (a \o b)[Len(a) + i] = b[i]
  <1>1. a \o b \in Seq(S) /\ Len(a \o b) = Len(a) + Len(b) /\ Len(a) \in Nat /\ Len(b) \in Nat
    OBVIOUS
  <1>2. \A i \in 1 .. Len(a) : (a \o b)[i] = a[i]
    OBVIOUS
  <1>3. ASSUME NEW i \in 1 .. Len(b) PROVE (a \o b)[Len(a) + i] = b[i]
    <2>1. PICK j : j = Len(a) + i
      OBVIOUS
    <2>2. j \in 1 .. Len(a) + Len(b) /\ j > Len(a) /\ j - Len(a) = i
      BY <1>1, <2>1
    <2>3. (a \o b)[j] = b[j - Len(a)]
      BY <2>2
    <2> QED
      BY <2>1, <2>2, <2>3
  <1> QED
    BY <1>1, <1>2, <1>3

-----------------------------------------------------------------------------
(* Sequences of sequences, joined.                                           *)

LEMMA NoneAdded == \A a, b \in Nat : a + b = 0 => a = 0 /\ b = 0
  OBVIOUS

LEMMA NoneIn == \A K : \A s \in Seq(K) : Len(s) = 0 => s = <<>>
  OBVIOUS

\* The recursive function inside FlattenSeq.
Flattens(h, seqs, n) == h = [i \in 1 .. n |-> IF i = 1 THEN seqs[i] ELSE h[i - 1] \o seqs[i]]

LEMMA FlattenExists == \A seqs : \A n \in Nat : \E h : Flattens(h, seqs, n)
  <1> TAKE seqs
  <1> DEFINE Good == {n \in Nat : \E h : Flattens(h, seqs, n)}
  <1>1. 0 \in Good
    <2>1. \A h : Flattens([i \in 1 .. 0 |-> 0], seqs, 0)
      BY DEF Flattens
    <2> QED
      BY <2>1
  <1>2. ASSUME NEW n \in Nat, n \in Good PROVE n + 1 \in Good
    <2>1. PICK h : Flattens(h, seqs, n)
      BY <1>2
    <2> DEFINE g == [i \in 1 .. n + 1 |->
                       IF i <= n THEN h[i] ELSE (IF i = 1 THEN seqs[i] ELSE h[n] \o seqs[i])]
    <2>a. \A i \in 1 .. n + 1 : i \in 1 .. n \/ (i = n + 1 /\ ~(i <= n))
      OBVIOUS
    <2>b. \A i \in 1 .. n : i \in 1 .. n + 1 /\ i <= n /\ (i # 1 => i - 1 \in 1 .. n)
      OBVIOUS
    <2>2. \A i \in 1 .. n : g[i] = h[i]
      BY <2>b
    <2>3. \A i \in 1 .. n + 1 : g[i] = IF i = 1 THEN seqs[i] ELSE g[i - 1] \o seqs[i]
      <3> TAKE i \in 1 .. n + 1
      <3>1. CASE i \in 1 .. n
        <4>1. h[i] = IF i = 1 THEN seqs[i] ELSE h[i - 1] \o seqs[i]
          BY <2>1, <3>1 DEF Flattens
        <4> HIDE DEF g
        <4>2. g[i] = h[i] /\ (i # 1 => g[i - 1] = h[i - 1])
          BY <2>2, <2>b, <3>1
        <4> QED
          BY <4>1, <4>2
      <3>2. CASE i = n + 1 /\ ~(i <= n)
        <4>1. g[i] = IF i = 1 THEN seqs[i] ELSE h[n] \o seqs[i]
          BY <3>2
        <4>2. i # 1 => i - 1 = n /\ n \in 1 .. n
          BY <3>2
        <4> HIDE DEF g
        <4>3. i # 1 => g[i - 1] = h[n]
          BY <2>2, <4>2
        <4> QED
          BY <4>1, <4>3
      <3> QED
        BY <2>a, <3>1, <3>2
    <2>4. g = [i \in 1 .. n + 1 |-> g[i]]
      OBVIOUS
    <2> HIDE DEF g
    <2>5. Flattens(g, seqs, n + 1)
      BY <2>3, <2>4 DEF Flattens
    <2> QED
      BY <2>5
  <1> HIDE DEF Good
  <1>3. \A n \in Nat : n \in Good
    BY <1>1, <1>2, SetInduction
  <1> QED
    BY <1>3 DEF Good

LEMMA FlattenedHas ==
    ASSUME NEW K, NEW seqs \in Seq(Seq(K)), NEW n \in Nat \ {0}, n = Len(seqs), NEW h, Flattens(h, seqs, n)
    PROVE  h[n] \in Seq(K) /\ (h[n] = <<>> => \A j \in DOMAIN seqs : seqs[j] = <<>>)
  <1>1. n \in Nat \ {0} /\ Flattens(h, seqs, n)
    OBVIOUS
  <1> DEFINE Good == {i \in Nat : i \in 1 .. n => h[i] \in Seq(K) /\
                                 (h[i] = <<>> => \A j \in 1 .. i : seqs[j] = <<>>)}
  <1>2. 0 \in Good
    OBVIOUS
  <1>3. ASSUME NEW i \in Nat, i \in Good PROVE i + 1 \in Good
    <2> SUFFICES ASSUME i + 1 \in 1 .. n
                 PROVE  /\ h[i + 1] \in Seq(K)
                        /\ h[i + 1] = <<>> => \A j \in 1 .. i + 1 : seqs[j] = <<>>
      OBVIOUS
    <2>1. seqs[i + 1] \in Seq(K)
      OBVIOUS
    <2>2. CASE i = 0
      <3>1. h[i + 1] = seqs[i + 1]
        BY <1>1, <2>2 DEF Flattens
      <3> QED
        BY <2>1, <2>2, <3>1
    <2>3. CASE i # 0
      <3>1. i \in 1 .. n /\ i + 1 # 1 /\ (i + 1) - 1 = i
        BY <2>3
      <3>2. h[i + 1] = h[i] \o seqs[i + 1]
        BY <1>1, <3>1 DEF Flattens
      <3>3. h[i] \in Seq(K) /\ (h[i] = <<>> => \A j \in 1 .. i : seqs[j] = <<>>)
        BY <1>3, <3>1
      <3>4. h[i + 1] \in Seq(K) /\ Len(h[i + 1]) = Len(h[i]) + Len(seqs[i + 1])
        BY <2>1, <3>2, <3>3
      <3>5. h[i + 1] = <<>> => h[i] = <<>> /\ seqs[i + 1] = <<>>
        <4>1. Len(h[i]) \in Nat /\ Len(seqs[i + 1]) \in Nat
          BY <2>1, <3>3
        <4>2. h[i + 1] = <<>> => Len(h[i]) + Len(seqs[i + 1]) = 0
          BY <3>4
        <4>3. h[i + 1] = <<>> => Len(h[i]) = 0 /\ Len(seqs[i + 1]) = 0
          BY <4>1, <4>2, NoneAdded
        <4> QED
          BY <2>1, <3>3, <4>3, NoneIn
      <3>6. \A j \in 1 .. i + 1 : j \in 1 .. i \/ j = i + 1
        OBVIOUS
      <3> QED
        BY <3>3, <3>4, <3>5, <3>6
    <2> QED
      BY <2>2, <2>3
  <1> HIDE DEF Good
  <1>4. n \in Good
    BY <1>1, <1>2, <1>3, SetInduction
  <1>5. h[n] \in Seq(K) /\ (h[n] = <<>> => \A j \in 1 .. n : seqs[j] = <<>>)
    BY <1>1, <1>4 DEF Good
  <1> QED
    BY <1>5
=============================================================================
