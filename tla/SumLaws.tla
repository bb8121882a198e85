------------------------------ MODULE SumLaws ------------------------------
(***************************************************************************)
(* Laws of SumFunctionOnSet, the sum of a function over a finite set, for  *)
(* money that is the sum of table rows: the empty sum, a part split off, a *)
(* sum of fewer parts, functions that agree.                               *)
(*                                                                         *)
(* The sum is a fold, a recursive function on subsets that takes one       *)
(* CHOSEn element at a time.  That the recursion has one answer, and that  *)
(* any other element may be taken first, is an induction on the size of    *)
(* the set, made with sets of numbers and of subsets (Induct, Grow): the   *)
(* provers cannot instantiate the library's induction theorems, which take *)
(* a predicate.                                                            *)
(***************************************************************************)
EXTENDS Integers, FiniteSets, Functions, FiniteSetTheorems, WellFoundedInduction, TLAPS

\* The least number outside a set that is closed under successor has no
\* predecessor and is not 0: induction, for a set of numbers.
LEMMA Induct ==
    ASSUME NEW T \in SUBSET Nat, 0 \in T, \A n \in T : n + 1 \in T
    PROVE  T = Nat
<1> DEFINE R == {ss \in Nat \X Nat : ss[1] < ss[2]}
<1>1. IsWellFoundedOn(R, Nat)
  BY NatLessThanWellFounded DEF OpToRel
<1> SUFFICES ASSUME Nat \ T # {} PROVE FALSE
  OBVIOUS
<1>2. \E x \in Nat \ T : \A y \in Nat \ T : <<y, x>> \notin R
  <2> HIDE DEF R
  <2> QED BY <1>1, WFMin, Zenon
<1>3. PICK x \in Nat \ T : \A y \in Nat \ T : ~(y < x)
  BY <1>2
<1>4. x - 1 \in Nat /\ x - 1 \in T
  BY <1>3
<1> QED BY <1>3, <1>4

\* A set of subsets of a finite set that holds the empty one, and every one of
\* whose subsets with an element less it holds, holds them all.
LEMMA Grow ==
    ASSUME NEW S, IsFiniteSet(S), NEW C, {} \in C,
           \A T \in SUBSET S : (\A x \in T : T \ {x} \in C) => T \in C
    PROVE  SUBSET S \subseteq C
<1> DEFINE P == {n \in Nat : \A T \in SUBSET S : Cardinality(T) = n => T \in C}
<1>0. \A T \in SUBSET S : IsFiniteSet(T) /\ Cardinality(T) \in Nat
  BY FS_Subset, FS_CardinalityType
<1>1. 0 \in P
  <2>1. \A T \in SUBSET S : Cardinality(T) = 0 => T = {}
    BY <1>0, FS_EmptySet
  <2> QED BY <2>1
<1>2. ASSUME NEW n \in P PROVE n + 1 \in P
  <2> SUFFICES ASSUME NEW T \in SUBSET S, Cardinality(T) = n + 1 PROVE T \in C
    OBVIOUS
  <2>1. \A x \in T : T \ {x} \in SUBSET S /\ Cardinality(T \ {x}) = n
    BY <1>0, FS_RemoveElement
  <2> QED BY <2>1
<1> HIDE DEF P
<1>3. P = Nat
  <2>1. P \in SUBSET Nat
    BY DEF P
  <2> QED BY <1>1, <1>2, <2>1, Induct
<1> QED BY <1>0, <1>3 DEF P

\* One step of the fold a sum is, when g has the sums of the smaller sets.
Fold(f, g, s) ==
    IF s = {} THEN 0
    ELSE f[CHOOSE x \in s : TRUE] + g[s \ {CHOOSE x \in s : TRUE}]

\* A step takes one element, and which does not depend on what is summed.
LEMMA FoldStep ==
    ASSUME NEW s, s # {}
    PROVE  \E c \in s : \A f, g : Fold(f, g, s) = f[c] + g[s \ {c}]
BY DEF Fold

\* The sums of the subsets of a finite set: what the recursion defines exists.
LEMMA FoldExists ==
    ASSUME NEW S, IsFiniteSet(S), NEW f, \A x \in S : f[x] \in Nat
    PROVE  \E g \in [SUBSET S -> Nat] : \A s \in SUBSET S : g[s] = Fold(f, g, s)
<1> DEFINE P == {n \in Nat : \E g \in [SUBSET S -> Nat] :
                    \A s \in SUBSET S : Cardinality(s) <= n => g[s] = Fold(f, g, s)}
<1>0. \A s \in SUBSET S :
            IsFiniteSet(s) /\ Cardinality(s) \in Nat /\ Cardinality(s) <= Cardinality(S)
  BY FS_Subset, FS_CardinalityType
<1>1. 0 \in P
  <2>1. \A s \in SUBSET S : Cardinality(s) <= 0 => s = {}
    BY <1>0, FS_EmptySet
  <2> DEFINE zero == [s \in SUBSET S |-> 0]
  <2>2. \A s \in SUBSET S : Cardinality(s) <= 0 => zero[s] = Fold(f, zero, s)
    BY <2>1 DEF Fold
  <2> QED BY <2>2
<1>2. ASSUME NEW n \in P PROVE n + 1 \in P
  <2>1. PICK g \in [SUBSET S -> Nat] :
            \A s \in SUBSET S : Cardinality(s) <= n => g[s] = Fold(f, g, s)
    BY <1>2
  <2> DEFINE h == [s \in SUBSET S |-> Fold(f, g, s)]
  <2>2. ASSUME NEW s \in SUBSET S, s # {}
        PROVE  \E c \in s : /\ \A k : Fold(f, k, s) = f[c] + k[s \ {c}]
                            /\ s \ {c} \in SUBSET S
                            /\ Cardinality(s \ {c}) = Cardinality(s) - 1
    <3>1. PICK c \in s : \A k, j : Fold(j, k, s) = j[c] + k[s \ {c}]
      BY <2>2, FoldStep
    <3>2. s \ {c} \in SUBSET S /\ Cardinality(s \ {c}) = Cardinality(s) - 1
      BY <1>0, FS_RemoveElement
    <3> QED BY <3>1, <3>2
  <2>3. h \in [SUBSET S -> Nat]
    <3> SUFFICES ASSUME NEW s \in SUBSET S PROVE Fold(f, g, s) \in Nat
      OBVIOUS
    <3>1. CASE s = {}
      BY <3>1 DEF Fold
    <3>2. CASE s # {}
      <4>1. PICK c \in s : Fold(f, g, s) = f[c] + g[s \ {c}] /\ s \ {c} \in SUBSET S
        BY <2>2, <3>2
      <4>2. f[c] \in Nat /\ g[s \ {c}] \in Nat
        BY <4>1
      <4> QED BY <4>1, <4>2
    <3> QED BY <3>1, <3>2
  <2>4. ASSUME NEW s \in SUBSET S, Cardinality(s) <= n + 1
        PROVE  h[s] = Fold(f, h, s)
    <3>1. CASE s = {}
      BY <3>1 DEF Fold
    <3>2. CASE s # {}
      <4>1. PICK c \in s : /\ \A k : Fold(f, k, s) = f[c] + k[s \ {c}]
                           /\ s \ {c} \in SUBSET S
                           /\ Cardinality(s \ {c}) = Cardinality(s) - 1
        BY <2>2, <3>2
      <4>2. h[s \ {c}] = g[s \ {c}]
        BY <4>1, <2>4, <1>0, <2>1
      <4> HIDE DEF h
      <4>3. Fold(f, h, s) = Fold(f, g, s)
        BY <4>1, <4>2
      <4> QED BY <4>3 DEF h
    <3> QED BY <3>1, <3>2
  <2> HIDE DEF h
  <2> QED BY <2>3, <2>4
<1> HIDE DEF P
<1>3. P = Nat
  <2>1. P \in SUBSET Nat
    BY DEF P
  <2> QED BY <1>1, <1>2, <2>1, Induct
<1>4. Cardinality(S) \in P
  BY <1>0, <1>3
<1> QED BY <1>0, <1>4 DEF P

\* Two answers to the recursion agree.
LEMMA FoldUnique ==
    ASSUME NEW S, IsFiniteSet(S), NEW f, NEW g, NEW h,
           \A s \in SUBSET S : g[s] = Fold(f, g, s),
           \A s \in SUBSET S : h[s] = Fold(f, h, s)
    PROVE  \A s \in SUBSET S : h[s] = g[s]
<1> DEFINE C == {s \in SUBSET S : h[s] = g[s]}
<1>1. {} \in C
  BY DEF Fold
<1>2. ASSUME NEW T \in SUBSET S, \A x \in T : T \ {x} \in C PROVE T \in C
  <2>1. CASE T = {}
    BY <1>1, <2>1
  <2>2. CASE T # {}
    <3>1. PICK c \in T : \A k : Fold(f, k, T) = f[c] + k[T \ {c}]
      BY <2>2, FoldStep
    <3>2. h[T \ {c}] = g[T \ {c}]
      BY <1>2
    <3> QED BY <3>1, <3>2
  <2> QED BY <2>1, <2>2
<1> HIDE DEF C
<1>3. SUBSET S \subseteq C
  BY <1>1, <1>2, Grow
<1> QED BY <1>3 DEF C

\* A sum is what any answer to the recursion says of the set.
LEMMA SumIsFold ==
    ASSUME NEW S, IsFiniteSet(S), NEW f, NEW g,
           \A s \in SUBSET S : g[s] = Fold(f, g, s)
    PROVE  SumFunctionOnSet(f, S) = g[S]
<1> DEFINE Solves(k) == k = [s \in SUBSET S |-> Fold(f, k, s)]
<1>1. PICK h : h = CHOOSE k : Solves(k)
  OBVIOUS
<1>2. Solves([s \in SUBSET S |-> g[s]])
  <2> DEFINE k == [s \in SUBSET S |-> g[s]]
  <2>1. ASSUME NEW s \in SUBSET S PROVE g[s] = Fold(f, k, s)
    <3>1. CASE s = {}
      BY <3>1 DEF Fold
    <3>2. CASE s # {}
      <4>1. PICK c \in s : \A j : Fold(f, j, s) = f[c] + j[s \ {c}]
        BY <3>2, FoldStep
      <4>2. k[s \ {c}] = g[s \ {c}]
        OBVIOUS
      <4> HIDE DEF k
      <4> QED BY <4>1, <4>2
    <3> QED BY <3>1, <3>2
  <2> QED BY <2>1
<1>3. Solves(h)
  BY <1>1, <1>2
<1>4. SumFunctionOnSet(f, S) = h[S]
  BY <1>1 DEF SumFunctionOnSet, FoldFunctionOnSet, MapThenFoldSet, Fold
<1>5. \A s \in SUBSET S : h[s] = Fold(f, h, s)
  BY <1>3
<1> HIDE DEF Solves
<1>6. h[S] = g[S]
  BY <1>5, FoldUnique
<1> QED BY <1>4, <1>6

\* The order of addition does not matter: any part may be split off.
Splits(f, g, s) == \A y \in s : g[s] = f[y] + g[s \ {y}]

LEMMA FoldSplit ==
    ASSUME NEW S, IsFiniteSet(S), NEW f, \A x \in S : f[x] \in Nat,
           NEW g, \A s \in SUBSET S : g[s] \in Nat /\ g[s] = Fold(f, g, s)
    PROVE  \A s \in SUBSET S : Splits(f, g, s)
<1> DEFINE C == {s \in SUBSET S : Splits(f, g, s)}
<1>1. {} \in C
  BY DEF Splits
<1>2. ASSUME NEW s \in SUBSET S, \A x \in s : s \ {x} \in C PROVE s \in C
  <2> SUFFICES ASSUME NEW y \in s PROVE g[s] = f[y] + g[s \ {y}]
    BY DEF Splits
  <2>1. PICK c \in s : g[s] = f[c] + g[s \ {c}]
    BY FoldStep
  <2>2. CASE c # y
    <3> DEFINE rest == s \ {c, y}
    <3>1. g[s \ {c}] = f[y] + g[rest]
      <4>1. (s \ {c}) \ {y} = rest
        OBVIOUS
      <4> QED BY <1>2, <2>2, <4>1 DEF Splits
    <3>2. g[s \ {y}] = f[c] + g[rest]
      <4>1. (s \ {y}) \ {c} = rest
        OBVIOUS
      <4> QED BY <1>2, <2>2, <4>1 DEF Splits
    <3>3. f[c] \in Nat /\ f[y] \in Nat /\ g[rest] \in Nat
      OBVIOUS
    <3> HIDE DEF rest
    <3> QED BY <2>1, <3>1, <3>2, <3>3
  <2> QED BY <2>1, <2>2
<1> HIDE DEF C
<1>3. SUBSET S \subseteq C
  BY <1>1, <1>2, Grow
<1> QED BY <1>3 DEF C

-----------------------------------------------------------------------------
(* The laws *)

\* Nothing adds up to nothing.
LEMMA SumEmpty == ASSUME NEW f PROVE SumFunctionOnSet(f, {}) = 0
<1> DEFINE g == [s \in SUBSET {} |-> 0]
<1>1. \A s \in SUBSET {} : g[s] = Fold(f, g, s)
  BY DEF Fold
<1>2. g[{}] = 0 /\ IsFiniteSet({})
  BY FS_EmptySet
<1> HIDE DEF g
<1> QED BY <1>1, <1>2, SumIsFold

\* Functions that agree on a set have the same sum.
LEMMA SumAgree ==
    ASSUME NEW S, IsFiniteSet(S), NEW f, \A x \in S : f[x] \in Nat
    PROVE  \A h : (\A x \in S : h[x] = f[x]) => SumFunctionOnSet(h, S) = SumFunctionOnSet(f, S)
<1>1. PICK g \in [SUBSET S -> Nat] : \A s \in SUBSET S : g[s] = Fold(f, g, s)
  BY FoldExists
<1> SUFFICES ASSUME NEW h, \A x \in S : h[x] = f[x]
             PROVE  SumFunctionOnSet(h, S) = SumFunctionOnSet(f, S)
  OBVIOUS
<1>2. ASSUME NEW s \in SUBSET S PROVE g[s] = Fold(h, g, s)
  <2>1. s # {} => Fold(h, g, s) = Fold(f, g, s)
    BY FoldStep
  <2> QED BY <1>1, <2>1 DEF Fold
<1> QED BY <1>1, <1>2, SumIsFold

\* A sum is a number, and each of its parts can be split off.
LEMMA SumSplit ==
    ASSUME NEW S, IsFiniteSet(S), NEW f, \A x \in S : f[x] \in Nat
    PROVE  /\ SumFunctionOnSet(f, S) \in Nat
           /\ \A y \in S : SumFunctionOnSet(f, S) = f[y] + SumFunctionOnSet(f, S \ {y})
<1>1. PICK g \in [SUBSET S -> Nat] : \A s \in SUBSET S : g[s] = Fold(f, g, s)
  BY FoldExists
<1>2. ASSUME NEW s \in SUBSET S PROVE SumFunctionOnSet(f, s) = g[s]
  <2>1. IsFiniteSet(s) /\ \A u \in SUBSET s : u \in SUBSET S
    BY FS_Subset
  <2> QED BY <1>1, <2>1, SumIsFold
<1>3. Splits(f, g, S)
  BY <1>1, FoldSplit
<1> QED BY <1>2, <1>3 DEF Splits

\* A part more, beside others that kept their worth.
LEMMA SumPlus ==
    ASSUME NEW S, IsFiniteSet(S), NEW f, \A x \in S : f[x] \in Nat
    PROVE  \A h, y : y \notin S /\ (\A x \in S : h[x] = f[x]) /\ h[y] \in Nat
                => SumFunctionOnSet(h, S \cup {y}) = SumFunctionOnSet(f, S) + h[y]
<1> SUFFICES ASSUME NEW h, NEW y, y \notin S, \A x \in S : h[x] = f[x], h[y] \in Nat
             PROVE  SumFunctionOnSet(h, S \cup {y}) = SumFunctionOnSet(f, S) + h[y]
  OBVIOUS
<1>1. IsFiniteSet(S \cup {y}) /\ \A x \in S \cup {y} : h[x] \in Nat
  BY FS_AddElement
<1>2. (S \cup {y}) \ {y} = S
  OBVIOUS
<1>3. SumFunctionOnSet(h, S \cup {y}) = h[y] + SumFunctionOnSet(h, S)
  BY <1>1, <1>2, SumSplit
<1>4. SumFunctionOnSet(h, S) = SumFunctionOnSet(f, S) /\ SumFunctionOnSet(f, S) \in Nat
  BY SumAgree, SumSplit
<1> QED BY <1>3, <1>4

\* Fewer parts add up to no more.
LEMMA SumGrows ==
    ASSUME NEW S, IsFiniteSet(S), NEW f, \A x \in S : f[x] \in Nat, NEW T \in SUBSET S
    PROVE  SumFunctionOnSet(f, T) <= SumFunctionOnSet(f, S)
<1> DEFINE C == {s \in SUBSET S : SumFunctionOnSet(f, s \cap T) <= SumFunctionOnSet(f, s)}
<1>0. \A s \in SUBSET S : IsFiniteSet(s)
  BY FS_Subset
<1>1. {} \in C
  BY SumEmpty
<1>2. ASSUME NEW s \in SUBSET S, \A x \in s : s \ {x} \in C PROVE s \in C
  <2>1. CASE s = {}
    BY <1>1, <2>1
  <2>2. ASSUME NEW x \in s PROVE s \in C
    <3> DEFINE rest == s \ {x}
    <3>1. /\ SumFunctionOnSet(f, s) = f[x] + SumFunctionOnSet(f, rest)
          /\ SumFunctionOnSet(f, rest) \in Nat /\ SumFunctionOnSet(f, rest \cap T) \in Nat
          /\ f[x] \in Nat
      BY <1>0, SumSplit
    <3>2. SumFunctionOnSet(f, rest \cap T) <= SumFunctionOnSet(f, rest)
      BY <1>2
    <3>3. x \notin T => s \cap T = rest \cap T
      OBVIOUS
    <3>4. x \in T => SumFunctionOnSet(f, s \cap T) = f[x] + SumFunctionOnSet(f, rest \cap T)
      <4>1. x \in T => x \in s \cap T /\ (s \cap T) \ {x} = rest \cap T
        OBVIOUS
      <4>2. IsFiniteSet(s \cap T) /\ \A z \in s \cap T : f[z] \in Nat
        BY <1>0
      <4> QED BY <4>1, <4>2, SumSplit
    <3> HIDE DEF rest
    <3>5. CASE x \in T
      BY <3>1, <3>2, <3>4, <3>5
    <3>6. CASE x \notin T
      <4>1. s \cap T = rest \cap T
        BY <3>3, <3>6
      <4>2. SumFunctionOnSet(f, rest \cap T) <= SumFunctionOnSet(f, s)
        BY <3>1, <3>2
      <4> QED BY <4>1, <4>2
    <3> QED BY <3>5, <3>6
  <2> QED BY <2>1, <2>2
<1> HIDE DEF C
<1>3. SUBSET S \subseteq C
  BY <1>0, <1>1, <1>2, Grow
<1>4. S \cap T = T
  OBVIOUS
<1> QED BY <1>3, <1>4 DEF C
=============================================================================
