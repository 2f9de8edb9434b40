---------------------------- MODULE FiniteLemmas ----------------------------
(****************************************************************************)
(* Facts about finite sets that the proofs keep needing: sums over them     *)
(* (SumFunctionOnSet of the community modules), for stock, carts and orders,*)
(* and the largest of a set of dates.                                       *)
(*                                                                          *)
(* The fold is defined by choosing one element after the other.  That its   *)
(* recursive equation has a solution, that there is only one, and that the  *)
(* order of the elements does not matter are all proved by looking at a     *)
(* smallest subset for which the claim would fail.                          *)
(****************************************************************************)
EXTENDS FiniteSetTheorems, TLAPS

-----------------------------------------------------------------------------
(* Induction over the subsets of a finite set, with the property as a set.  *)
LEMMA SubsetInduction ==
    ASSUME NEW S, IsFiniteSet(S), NEW Good,
           ASSUME NEW T \in SUBSET S, \A U \in SUBSET T : U # T => U \in Good
           PROVE  T \in Good
    PROVE  \A T \in SUBSET S : T \in Good
  <1> DEFINE Bad == {T \in SUBSET S : T \notin Good}
             R == StrictSubsetOrdering(S)
  <1>1. SUFFICES ASSUME Bad # {} PROVE FALSE
    OBVIOUS
  <1>2. IsWellFoundedOn(R, SUBSET S)
    BY FS_StrictSubsetOrderingWellFounded, FS_FiniteSubsetsOfFinite
  <1>3. Bad \subseteq SUBSET S
    OBVIOUS
  <1>4. \E T \in Bad : \A U \in Bad : ~ (<<U, T>> \in R)
    <2> HIDE DEF Bad, R
    <2> QED
      BY <1>1, <1>2, <1>3, WFMin
  <1>5. PICK T \in Bad : \A U \in Bad : ~ (<<U, T>> \in R)
    BY <1>4
  <1>6. ASSUME NEW U \in SUBSET T, U # T PROVE U \in Good
    <2>1. U \in SUBSET S /\ T \in SUBSET S
      OBVIOUS
    <2>2. <<U, T>> \in R
      BY <1>6, <2>1 DEF StrictSubsetOrdering
    <2> QED
      BY <1>5, <2>1, <2>2
  <1> QED
    BY <1>5, <1>6

\* A finite set of integers has a largest one.
LEMMA Largest ==
    ASSUME NEW S \in SUBSET Int, IsFiniteSet(S), S # {}
    PROVE  \E m \in S : \A x \in S : x <= m
  <1> DEFINE Good == {T \in SUBSET S : T # {} => \E m \in T : \A x \in T : x <= m}
  <1>1. ASSUME NEW T \in SUBSET S, \A U \in SUBSET T : U # T => U \in Good
        PROVE  T \in Good
    <2> SUFFICES ASSUME NEW y \in T PROVE \E m \in T : \A x \in T : x <= m
      OBVIOUS
    <2>1. T \ {y} \in Good
      BY <1>1
    <2>2. CASE T \ {y} = {}
      BY <2>2
    <2>3. CASE T \ {y} # {}
      <3>1. PICK m \in T \ {y} : \A x \in T \ {y} : x <= m
        BY <2>1, <2>3
      <3>2. CASE y <= m
        BY <3>1, <3>2
      <3>3. CASE m < y
        BY <3>1, <3>3
      <3> QED
        BY <3>2, <3>3
    <2> QED
      BY <2>2, <2>3
  <1>2. \A T \in SUBSET S : T \in Good
    <2> HIDE DEF Good
    <2> QED
      BY <1>1, SubsetInduction
  <1> QED
    BY <1>2

-----------------------------------------------------------------------------
(* The recursive equation behind the fold.                                  *)

First(s) == CHOOSE x \in s : TRUE

\* g gives the sum of every subset of S.
Sums(g, f, S) ==
    g = [s \in SUBSET S |-> IF s = {} THEN 0 ELSE f[First(s)] + g[s \ {First(s)}]]

LEMMA FoldIsAChoice ==
    ASSUME NEW f, NEW S
    PROVE  SumFunctionOnSet(f, S) = (CHOOSE g : Sums(g, f, S))[S]
  BY DEF SumFunctionOnSet, FoldFunctionOnSet, MapThenFoldSet, Sums, First

LEMMA FirstIsIn ==
    ASSUME NEW s, s # {}
    PROVE  First(s) \in s
  BY DEF First

LEMMA SumsUnique ==
    ASSUME NEW f, NEW S, IsFiniteSet(S), NEW g, NEW h, Sums(g, f, S), Sums(h, f, S)
    PROVE  g = h
  <1> DEFINE Good == {T \in SUBSET S : g[T] = h[T]}
  <1>1. ASSUME NEW T \in SUBSET S, \A U \in SUBSET T : U # T => U \in Good
        PROVE  T \in Good
    <2>1. CASE T = {}
      BY <2>1 DEF Sums
    <2>2. CASE T # {}
      <3>1. First(T) \in T
        BY <2>2, FirstIsIn
      <3>2. g[T \ {First(T)}] = h[T \ {First(T)}]
        BY <1>1, <3>1
      <3>3. /\ g[T] = f[First(T)] + g[T \ {First(T)}]
            /\ h[T] = f[First(T)] + h[T \ {First(T)}]
        BY <2>2 DEF Sums
      <3> QED
        BY <3>2, <3>3
    <2> QED
      BY <2>1, <2>2
  <1>2. \A T \in SUBSET S : T \in Good
    <2> HIDE DEF Good
    <2> QED
      BY <1>1, SubsetInduction
  <1>3. \A T \in SUBSET S : g[T] = h[T]
    BY <1>2
  <1> QED
    BY <1>3 DEF Sums

\* What gives the sums of the subsets of S also gives those of a part of it.
LEMMA SumsRestrict ==
    ASSUME NEW f, NEW S, NEW T \in SUBSET S, NEW g, Sums(g, f, S)
    PROVE  Sums([s \in SUBSET T |-> g[s]], f, T)
  <1> DEFINE h == [s \in SUBSET T |-> g[s]]
  <1>1. ASSUME NEW s \in SUBSET T
        PROVE  h[s] = IF s = {} THEN 0 ELSE f[First(s)] + h[s \ {First(s)}]
    <2>1. g[s] = IF s = {} THEN 0 ELSE f[First(s)] + g[s \ {First(s)}]
      BY DEF Sums
    <2>2. s \ {First(s)} \in SUBSET T
      OBVIOUS
    <2>3. h[s] = g[s] /\ h[s \ {First(s)}] = g[s \ {First(s)}]
      BY <2>2
    <2> QED
      BY <2>1, <2>3
  <1>2. h = [s \in SUBSET T |-> h[s]]
    OBVIOUS
  <1> QED
    BY <1>1, <1>2 DEF Sums

LEMMA SumsExist ==
    ASSUME NEW f, NEW S, IsFiniteSet(S)
    PROVE  \E g : Sums(g, f, S)
  <1> DEFINE Good == {T \in SUBSET S : \E g : Sums(g, f, T)}
             Of(T) == CHOOSE g : Sums(g, f, T)
  <1>1. ASSUME NEW T \in SUBSET S, \A U \in SUBSET T : U # T => U \in Good
        PROVE  T \in Good
    <2> DEFINE rest(s) == s \ {First(s)}
               h == [s \in SUBSET T |-> IF s = {} THEN 0 ELSE f[First(s)] + Of(rest(s))[rest(s)]]
    <2>1. ASSUME NEW s \in SUBSET T, s # {}
          PROVE  rest(s) \in SUBSET T /\ rest(s) # T /\ rest(s) # s /\ IsFiniteSet(rest(s))
      <3>1. First(s) \in s
        BY <2>1, FirstIsIn
      <3> QED
        BY <3>1, FS_Subset
    <2>2. ASSUME NEW s \in SUBSET T, s # T
          PROVE  Sums(Of(s), f, s)
      BY <1>1, <2>2
    <2> HIDE DEF Of
    <2>3. ASSUME NEW s \in SUBSET T, s # {}
          PROVE  h[rest(s)] = Of(rest(s))[rest(s)]
      <3> DEFINE r == rest(s)
      <3>1. r \in SUBSET T /\ Sums(Of(r), f, r)
        BY <2>1, <2>2, <2>3
      <3>2. Of(r)[r] = IF r = {} THEN 0 ELSE f[First(r)] + Of(r)[rest(r)]
        BY <3>1 DEF Sums
      <3>3. h[r] = IF r = {} THEN 0 ELSE f[First(r)] + Of(rest(r))[rest(r)]
        BY <3>1
      <3>4. ASSUME r # {} PROVE Of(r)[rest(r)] = Of(rest(r))[rest(r)]
        <4>1. rest(r) \in SUBSET r /\ rest(r) \in SUBSET T /\ rest(r) # T /\ IsFiniteSet(rest(r))
          BY <2>1, <3>1, <3>4
        <4>2. Sums([u \in SUBSET rest(r) |-> Of(r)[u]], f, rest(r))
          <5> HIDE DEF r, rest
          <5> QED
            BY <3>1, <4>1, SumsRestrict
        <4>3. Sums(Of(rest(r)), f, rest(r))
          BY <2>2, <4>1
        <4>4. [u \in SUBSET rest(r) |-> Of(r)[u]] = Of(rest(r))
          <5> HIDE DEF r, rest
          <5> QED
            BY <4>1, <4>2, <4>3, SumsUnique
        <4> HIDE DEF r, rest
        <4>5. [u \in SUBSET rest(r) |-> Of(r)[u]][rest(r)] = Of(r)[rest(r)]
          OBVIOUS
        <4> QED
          BY <4>4, <4>5
      <3> HIDE DEF h, rest
      <3> QED
        BY <3>2, <3>3, <3>4
    <2>4. Sums(h, f, T)
      <3>1. \A s \in SUBSET T : h[s] = IF s = {} THEN 0 ELSE f[First(s)] + h[rest(s)]
        BY <2>3
      <3>2. h = [s \in SUBSET T |-> h[s]]
        OBVIOUS
      <3> HIDE DEF h
      <3> QED
        BY <3>1, <3>2 DEF Sums
    <2> QED
      BY <2>4
  <1>2. S \in Good
    <2>1. \A T \in SUBSET S : T \in Good
      <3> HIDE DEF Good
      <3> QED
        BY <1>1, SubsetInduction
    <2> QED
      BY <2>1
  <1> QED
    BY <1>2

-----------------------------------------------------------------------------
(* Sums over finite sets.                                                   *)

\* The sums of the subsets of S are what the equation's solution gives.
LEMMA SumIsSolution ==
    ASSUME NEW f, NEW S, IsFiniteSet(S), NEW g, Sums(g, f, S), NEW T \in SUBSET S
    PROVE  SumFunctionOnSet(f, T) = g[T]
  <1> DEFINE h == [s \in SUBSET T |-> g[s]]
             k == CHOOSE k : Sums(k, f, T)
  <1>1. IsFiniteSet(T)
    BY FS_Subset
  <1>2. Sums(h, f, T)
    BY SumsRestrict
  <1>3. Sums(k, f, T)
    BY <1>2
  <1>4. h = k
    <2> HIDE DEF h, k
    <2> QED
      BY <1>1, <1>2, <1>3, SumsUnique
  <1>5. SumFunctionOnSet(f, T) = k[T]
    BY FoldIsAChoice
  <1>6. h[T] = g[T]
    OBVIOUS
  <1> HIDE DEF h, k
  <1> QED
    BY <1>4, <1>5, <1>6

\* The empty sum.
LEMMA SumEmpty ==
    ASSUME NEW f
    PROVE  SumFunctionOnSet(f, {}) = 0
  <1>1. IsFiniteSet({})
    BY FS_EmptySet
  <1>2. PICK g : Sums(g, f, {})
    BY <1>1, SumsExist
  <1>3. g[{}] = 0
    BY <1>2 DEF Sums
  <1> QED
    BY <1>1, <1>2, <1>3, SumIsSolution

LEMMA SumFirst ==
    ASSUME NEW f, NEW S, IsFiniteSet(S), S # {}
    PROVE  SumFunctionOnSet(f, S) = f[First(S)] + SumFunctionOnSet(f, S \ {First(S)})
  <1>1. PICK g : Sums(g, f, S)
    BY SumsExist
  <1>2. g[S] = f[First(S)] + g[S \ {First(S)}]
    BY <1>1 DEF Sums
  <1>3. SumFunctionOnSet(f, S) = g[S] /\ SumFunctionOnSet(f, S \ {First(S)}) = g[S \ {First(S)}]
    BY <1>1, SumIsSolution
  <1> QED
    BY <1>2, <1>3

\* Integers add up to an integer.
LEMMA SumInt ==
    ASSUME NEW S, IsFiniteSet(S), NEW f, \A x \in S : f[x] \in Int
    PROVE  SumFunctionOnSet(f, S) \in Int
  <1> DEFINE Good == {T \in SUBSET S : SumFunctionOnSet(f, T) \in Int}
  <1>1. ASSUME NEW T \in SUBSET S, \A U \in SUBSET T : U # T => U \in Good
        PROVE  T \in Good
    <2>1. CASE T = {}
      BY <2>1, SumEmpty
    <2>2. CASE T # {}
      <3>1. First(T) \in T /\ IsFiniteSet(T)
        BY <2>2, FirstIsIn, FS_Subset
      <3>2. SumFunctionOnSet(f, T \ {First(T)}) \in Int
        BY <1>1, <3>1
      <3> QED
        BY <2>2, <3>1, <3>2, SumFirst
    <2> QED
      BY <2>1, <2>2
  <1>2. \A T \in SUBSET S : T \in Good
    <2> HIDE DEF Good
    <2> QED
      BY <1>1, SubsetInduction
  <1> QED
    BY <1>2

\* Any element may be taken out: the order of the fold does not matter.
LEMMA SumTakeOut ==
    ASSUME NEW S, IsFiniteSet(S), NEW f, \A x \in S : f[x] \in Int, NEW x \in S
    PROVE  SumFunctionOnSet(f, S) = f[x] + SumFunctionOnSet(f, S \ {x})
  <1> DEFINE Sum(T) == SumFunctionOnSet(f, T)
             Good == {T \in SUBSET S : \A y \in T : Sum(T) = f[y] + Sum(T \ {y})}
  <1>1. ASSUME NEW T \in SUBSET S, \A U \in SUBSET T : U # T => U \in Good
        PROVE  T \in Good
    <2> SUFFICES ASSUME NEW y \in T PROVE Sum(T) = f[y] + Sum(T \ {y})
      OBVIOUS
    <2> DEFINE c == First(T)
               d == T \ {c, y}
    <2>1. c \in T /\ Sum(T) = f[c] + Sum(T \ {c})
      BY FirstIsIn, FS_Subset, SumFirst
    <2>2. CASE c = y
      BY <2>1, <2>2
    <2>3. CASE c # y
      <3>1. Sum(T \ {c}) = f[y] + Sum(d)
        <4>1. T \ {c} \in Good /\ y \in T \ {c} /\ (T \ {c}) \ {y} = d
          BY <1>1, <2>1, <2>3
        <4> QED
          BY <4>1
      <3>2. Sum(T \ {y}) = f[c] + Sum(d)
        <4>1. T \ {y} \in Good /\ c \in T \ {y} /\ (T \ {y}) \ {c} = d
          BY <1>1, <2>1, <2>3
        <4> QED
          BY <4>1
      <3>3. f[c] \in Int /\ f[y] \in Int
        BY <2>1
      <3>4. Sum(d) \in Int
        <4>1. IsFiniteSet(d) /\ \A z \in d : f[z] \in Int
          BY FS_Subset
        <4> QED
          BY <4>1, SumInt
      <3> HIDE DEF Sum, c, d
      <3> QED
        BY <2>1, <3>1, <3>2, <3>3, <3>4
    <2> QED
      BY <2>2, <2>3
  <1>2. \A T \in SUBSET S : T \in Good
    <2> HIDE DEF Good
    <2> QED
      BY <1>1, SubsetInduction
  <1> QED
    BY <1>2

\* Equal terms have equal sums.
LEMMA SumSame ==
    ASSUME NEW S, IsFiniteSet(S), NEW f, NEW g, \A x \in S : f[x] = g[x]
    PROVE  SumFunctionOnSet(f, S) = SumFunctionOnSet(g, S)
  <1> DEFINE Good == {T \in SUBSET S : SumFunctionOnSet(f, T) = SumFunctionOnSet(g, T)}
  <1>1. ASSUME NEW T \in SUBSET S, \A U \in SUBSET T : U # T => U \in Good
        PROVE  T \in Good
    <2>1. CASE T = {}
      BY <2>1, SumEmpty
    <2>2. CASE T # {}
      <3>1. First(T) \in T /\ IsFiniteSet(T)
        BY <2>2, FirstIsIn, FS_Subset
      <3>2. SumFunctionOnSet(f, T \ {First(T)}) = SumFunctionOnSet(g, T \ {First(T)})
        BY <1>1, <3>1
      <3>3. f[First(T)] = g[First(T)]
        BY <3>1
      <3> QED
        BY <2>2, <3>1, <3>2, <3>3, SumFirst
    <2> QED
      BY <2>1, <2>2
  <1>2. \A T \in SUBSET S : T \in Good
    <2> HIDE DEF Good
    <2> QED
      BY <1>1, SubsetInduction
  <1> QED
    BY <1>2

-----------------------------------------------------------------------------
(* What the proofs cite.                                                    *)

\* One more element.
LEMMA SumAdd ==
    ASSUME NEW S, IsFiniteSet(S), NEW x, x \notin S,
           NEW f, \A y \in S \cup {x} : f[y] \in Int
    PROVE  SumFunctionOnSet(f, S \cup {x}) = SumFunctionOnSet(f, S) + f[x]
  <1> DEFINE T == S \cup {x}
  <1>1. IsFiniteSet(T) /\ x \in T /\ T \ {x} = S
    BY FS_AddElement
  <1>2. SumFunctionOnSet(f, T) = f[x] + SumFunctionOnSet(f, T \ {x})
    <2> HIDE DEF T
    <2> QED
      BY <1>1, SumTakeOut DEF T
  <1>3. SumFunctionOnSet(f, S) \in Int /\ f[x] \in Int
    BY SumInt
  <1>4. SumFunctionOnSet(f, T) = f[x] + SumFunctionOnSet(f, S)
    <2> HIDE DEF T
    <2> QED
      BY <1>1, <1>2
  <1> QED
    BY <1>3, <1>4

\* One term changes.
LEMMA SumChange ==
    ASSUME NEW S, IsFiniteSet(S), NEW x \in S, NEW f, NEW g,
           \A y \in S : f[y] \in Int /\ g[y] \in Int,
           \A y \in S : y # x => g[y] = f[y]
    PROVE  SumFunctionOnSet(g, S) = SumFunctionOnSet(f, S) - f[x] + g[x]
  <1> DEFINE rest == S \ {x}
  <1>1. IsFiniteSet(rest)
    BY FS_Subset
  <1>2. SumFunctionOnSet(f, rest) = SumFunctionOnSet(g, rest)
    BY <1>1, SumSame
  <1>3. SumFunctionOnSet(f, rest) \in Int
    BY <1>1, SumInt
  <1>4. SumFunctionOnSet(f, S) = f[x] + SumFunctionOnSet(f, rest)
    BY SumTakeOut
  <1>5. SumFunctionOnSet(g, S) = g[x] + SumFunctionOnSet(g, rest)
    BY SumTakeOut
  <1>6. f[x] \in Int /\ g[x] \in Int
    OBVIOUS
  <1> HIDE DEF rest
  <1> QED
    BY <1>2, <1>3, <1>4, <1>5, <1>6

\* Nothing adds up to nothing.
LEMMA SumZero ==
    ASSUME NEW S, IsFiniteSet(S), NEW f, \A x \in S : f[x] = 0
    PROVE  SumFunctionOnSet(f, S) = 0
  <1> DEFINE Good == {T \in SUBSET S : SumFunctionOnSet(f, T) = 0}
  <1>1. ASSUME NEW T \in SUBSET S, \A U \in SUBSET T : U # T => U \in Good
        PROVE  T \in Good
    <2>1. CASE T = {}
      BY <2>1, SumEmpty
    <2>2. CASE T # {}
      <3>1. First(T) \in T /\ IsFiniteSet(T)
        BY <2>2, FirstIsIn, FS_Subset
      <3>2. SumFunctionOnSet(f, T \ {First(T)}) = 0 /\ f[First(T)] = 0
        BY <1>1, <3>1
      <3> QED
        BY <2>2, <3>1, <3>2, SumFirst
    <2> QED
      BY <2>1, <2>2
  <1>2. \A T \in SUBSET S : T \in Good
    <2> HIDE DEF Good
    <2> QED
      BY <1>1, SubsetInduction
  <1> QED
    BY <1>2

\* Naturals add up to a natural.
LEMMA SumNat ==
    ASSUME NEW S, IsFiniteSet(S), NEW f, \A x \in S : f[x] \in Nat
    PROVE  SumFunctionOnSet(f, S) \in Nat
  <1> DEFINE Good == {T \in SUBSET S : SumFunctionOnSet(f, T) \in Nat}
  <1>1. ASSUME NEW T \in SUBSET S, \A U \in SUBSET T : U # T => U \in Good
        PROVE  T \in Good
    <2>1. CASE T = {}
      BY <2>1, SumEmpty
    <2>2. CASE T # {}
      <3>1. First(T) \in T /\ IsFiniteSet(T)
        BY <2>2, FirstIsIn, FS_Subset
      <3>2. SumFunctionOnSet(f, T \ {First(T)}) \in Nat /\ f[First(T)] \in Nat
        BY <1>1, <3>1
      <3> QED
        BY <2>2, <3>1, <3>2, SumFirst
    <2> QED
      BY <2>1, <2>2
  <1>2. \A T \in SUBSET S : T \in Good
    <2> HIDE DEF Good
    <2> QED
      BY <1>1, SubsetInduction
  <1> QED
    BY <1>2

\* The sum over a part is the sum over the whole with the other terms at zero.
LEMMA SumPart ==
    ASSUME NEW S, IsFiniteSet(S), NEW T \in SUBSET S, NEW f, \A x \in S : f[x] \in Int
    PROVE  SumFunctionOnSet(f, T)
           = SumFunctionOnSet([x \in S |-> IF x \in T THEN f[x] ELSE 0], S)
  <1> DEFINE g == [x \in S |-> IF x \in T THEN f[x] ELSE 0]
             Good == {U \in SUBSET S : SumFunctionOnSet(f, U \cap T) = SumFunctionOnSet(g, U)}
  <1>0. \A x \in S : g[x] \in Int /\ (x \in T => g[x] = f[x]) /\ (x \notin T => g[x] = 0)
    OBVIOUS
  <1>1. ASSUME NEW U \in SUBSET S, \A V \in SUBSET U : V # U => V \in Good
        PROVE  U \in Good
    <2> HIDE DEF g
    <2> SUFFICES SumFunctionOnSet(f, U \cap T) = SumFunctionOnSet(g, U)
      OBVIOUS
    <2>1. CASE U = {}
      <3>1. SumFunctionOnSet(f, {}) = 0 /\ SumFunctionOnSet(g, {}) = 0
        BY SumEmpty
      <3>2. U \cap T = {}
        BY <2>1
      <3> QED
        BY <2>1, <3>1, <3>2
    <2>2. CASE U # {}
      <3>1. PICK x \in U : TRUE
        BY <2>2
      <3> DEFINE V == U \ {x}
      <3>2. V \in Good /\ IsFiniteSet(U) /\ IsFiniteSet(U \cap T) /\ IsFiniteSet(V)
        BY <1>1, <3>1, FS_Subset
      <3>3. SumFunctionOnSet(g, U) = g[x] + SumFunctionOnSet(g, V)
        BY <1>0, <3>1, <3>2, SumTakeOut
      <3>4. SumFunctionOnSet(f, V \cap T) = SumFunctionOnSet(g, V)
        BY <3>2
      <3>5. SumFunctionOnSet(g, V) \in Int
        BY <1>0, <3>2, SumInt
      <3>6. CASE x \in T
        <4>1. x \in U \cap T /\ (U \cap T) \ {x} = V \cap T
          BY <3>1, <3>6
        <4>2. SumFunctionOnSet(f, U \cap T) = f[x] + SumFunctionOnSet(f, V \cap T)
          BY <3>2, <4>1, SumTakeOut
        <4>3. g[x] = f[x]
          BY <1>0, <3>1, <3>6
        <4> HIDE DEF V
        <4> QED
          BY <3>3, <3>4, <4>2, <4>3
      <3>7. CASE x \notin T
        <4>1. U \cap T = V \cap T
          BY <3>7
        <4>2. g[x] = 0
          BY <1>0, <3>1, <3>7
        <4>3. SumFunctionOnSet(g, U) = SumFunctionOnSet(g, V)
          <5> HIDE DEF V
          <5> QED
            BY <3>3, <3>5, <4>2
        <4> HIDE DEF V
        <4> QED
          BY <3>4, <4>1, <4>3
      <3> QED
        BY <3>6, <3>7
    <2> QED
      BY <2>1, <2>2
  <1>2. \A U \in SUBSET S : U \in Good
    <2> HIDE DEF Good
    <2> QED
      BY <1>1, SubsetInduction
  <1>3. S \in Good /\ S \cap T = T
    BY <1>2
  <1> QED
    BY <1>3
=============================================================================
