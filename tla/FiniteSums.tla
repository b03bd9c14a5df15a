----------------------------- MODULE FiniteSums -----------------------------
(***************************************************************************)
(* Sums over finite sets, as the folds of the community modules compute    *)
(* them: the order in which a fold meets the elements does not matter, a   *)
(* sum grows with its terms, and one term's change is the sum's.           *)
(***************************************************************************)
EXTENDS Integers, FiniteSets, Folds, FiniteSetTheorems, WellFoundedInduction,
        TLAPS

\* What FoldFunction(+, 0, f) and MapThenSumSet compute, on S.
SumOver(f, S) ==
    MapThenFoldSet(+, 0, LAMBDA x : f[x], LAMBDA s : CHOOSE x \in s : TRUE, S)

-----------------------------------------------------------------------------
(* Induction, on a set instead of on a predicate.                          *)

\* Every non-empty set of natural numbers has a least element.
LEMMA Least ==
    ASSUME NEW S \in SUBSET Nat, S # {}
    PROVE  \E m \in S : \A n \in S : m <= n
<1> DEFINE R == {p \in Nat \X Nat : p[1] < p[2]}
<1>1. IsWellFoundedOn(R, Nat)
    BY NatLessThanWellFounded DEF OpToRel
<1>2. PICK m \in S : \A n \in S : ~(<<n, m>> \in R)
    <2> HIDE DEF R
    <2> QED
        BY <1>1, WFMin
<1>3. ASSUME NEW n \in S PROVE m <= n
    <2>1. n \in Nat /\ m \in Nat
        OBVIOUS
    <2>2. ~(n < m)
        BY <1>2, <2>1
    <2> QED
        BY <2>1, <2>2
<1> QED
    BY <1>3

\* A set of numbers that holds 0 and the successor of each n < N in it has 0..N.
LEMMA UpTo ==
    ASSUME NEW N \in Nat, NEW S, 0 \in S,
           \A n \in Nat : n < N /\ n \in S => n + 1 \in S
    PROVE  \A n \in 0..N : n \in S
<1> DEFINE T == {n \in 0..N : n \notin S}
<1> SUFFICES ASSUME T # {}
             PROVE  FALSE
    OBVIOUS
<1>1. PICK m \in T : \A n \in T : m <= n
    <2>1. T \in SUBSET Nat
        OBVIOUS
    <2> HIDE DEF T
    <2> QED
        BY <2>1, Least
<1>2. m \in Nat /\ m # 0 /\ m <= N /\ m \notin S
    OBVIOUS
<1>3. m - 1 \in 0..N /\ m - 1 \notin T
    BY <1>1, <1>2
<1>4. m - 1 \in S
    BY <1>3
<1> QED
    BY <1>2, <1>4

\* What holds of the empty set, and of every set with one element more, holds
\* of every finite set.
LEMMA FiniteInduction ==
    ASSUME NEW S, IsFiniteSet(S), NEW C, {} \in C,
           \A T \in SUBSET S : \A x \in S \ T : T \in C => T \cup {x} \in C
    PROVE  S \in C
<1> DEFINE N == Cardinality(S)
           D == {n \in Nat : \A T \in SUBSET S : Cardinality(T) = n => T \in C}
<1>1. N \in Nat
    BY FS_CardinalityType
<1>2. \A T \in SUBSET S : IsFiniteSet(T) /\ Cardinality(T) \in Nat
    BY FS_Subset, FS_CardinalityType
<1>3. 0 \in D
    BY <1>2, FS_EmptySet
<1>4. ASSUME NEW n \in Nat, n \in D
      PROVE  n + 1 \in D
    <2> SUFFICES ASSUME NEW T \in SUBSET S, Cardinality(T) = n + 1
                 PROVE  T \in C
        OBVIOUS
    <2>0. T # {}
        <3>1. Cardinality({}) = 0
            BY FS_EmptySet
        <3> QED
            BY <3>1
    <2>1. PICK x \in T : TRUE
        BY <2>0
    <2>2. Cardinality(T \ {x}) = n
        <3>1. IsFiniteSet(T)
            BY <1>2
        <3>2. Cardinality(T \ {x}) = Cardinality(T) - 1
            BY <2>1, <3>1, FS_RemoveElement
        <3> QED
            BY <3>2
    <2>3. T \ {x} \in C
        BY <1>4, <2>2
    <2>4. T = (T \ {x}) \cup {x} /\ x \in S \ (T \ {x}) /\ T \ {x} \in SUBSET S
        BY <2>1
    <2> QED
        BY <2>3, <2>4
<1>5. N \in D
    <2> HIDE DEF D, N
    <2> QED
        BY <1>1, <1>3, <1>4, UpTo
<1> QED
    BY <1>5
-----------------------------------------------------------------------------
(* The recursion of a fold has a solution, and only one.                   *)

\* The element a fold takes out of s first.
Pick(s) == CHOOSE x \in s : TRUE

\* What the fold of f over s is, given g, the folds over smaller sets.
Fold1(f, g, s) == IF s = {} THEN 0 ELSE f[Pick(s)] + g[s \ {Pick(s)}]

\* g holds the folds of f over the members of C.
FoldsOf(f, g, C) == g = [s \in C |-> Fold1(f, g, s)]

LEMMA PickIsIn ==
    ASSUME NEW s, s # {}
    PROVE  Pick(s) \in s
BY DEF Pick

LEMMA FoldExists ==
    ASSUME NEW S, IsFiniteSet(S), NEW f
    PROVE  \E g : FoldsOf(f, g, SUBSET S)
<1> DEFINE N == Cardinality(S)
           Upto(n) == {s \in SUBSET S : Cardinality(s) <= n}
           D == {n \in Nat : \E g : FoldsOf(f, g, Upto(n))}
<1>1. N \in Nat
    BY FS_CardinalityType
<1>2. \A T \in SUBSET S : /\ IsFiniteSet(T) /\ Cardinality(T) \in Nat
                           /\ Cardinality(T) <= N
    BY FS_Subset, FS_CardinalityType
<1>3. 0 \in D
    <2> DEFINE g == [s \in Upto(0) |-> 0]
    <2>1. \A s \in Upto(0) : s = {}
        BY <1>2, FS_EmptySet
    <2>2. FoldsOf(f, g, Upto(0))
        BY <2>1 DEF FoldsOf, Fold1
    <2> QED
        BY <2>2
<1>4. ASSUME NEW n \in Nat, n \in D
      PROVE  n + 1 \in D
    <2>1. PICK g : FoldsOf(f, g, Upto(n))
        BY <1>4
    <2> DEFINE h == [s \in Upto(n + 1) |-> Fold1(f, g, s)]
    <2>2. ASSUME NEW s \in Upto(n)
          PROVE  s \in Upto(n + 1) /\ h[s] = g[s]
        <3>1. s \in Upto(n + 1)
            BY <1>2
        <3> QED
            BY <2>1, <3>1 DEF FoldsOf
    <2>3. ASSUME NEW s \in Upto(n + 1)
          PROVE  h[s] = Fold1(f, h, s)
        <3>1. CASE s = {}
            BY <3>1 DEF Fold1
        <3>2. CASE s # {}
            <4> DEFINE t == s \ {Pick(s)}
            <4>1. Pick(s) \in s
                BY <3>2, PickIsIn
            <4>2. IsFiniteSet(s) /\ Cardinality(s) \in Nat
                BY <1>2
            <4>3. Cardinality(t) = Cardinality(s) - 1
                BY <4>1, <4>2, FS_RemoveElement
            <4>4. t \in Upto(n)
                BY <4>2, <4>3
            <4>5. h[t] = g[t]
                BY <2>2, <4>4
            <4> QED
                BY <3>2, <4>5 DEF Fold1
        <3> QED
            BY <3>1, <3>2
    <2>4. FoldsOf(f, h, Upto(n + 1))
        BY <2>3 DEF FoldsOf
    <2> HIDE DEF h
    <2> QED
        BY <2>4
<1>5. N \in D
    <2> HIDE DEF D, N
    <2> QED
        BY <1>1, <1>3, <1>4, UpTo
<1>6. Upto(N) = SUBSET S
    BY <1>2
<1> QED
    BY <1>5, <1>6

LEMMA FoldIsOne ==
    ASSUME NEW S, IsFiniteSet(S), NEW f, NEW g, NEW h, NEW A, NEW B,
           FoldsOf(f, g, A), FoldsOf(f, h, B), SUBSET S \subseteq A,
           SUBSET S \subseteq B
    PROVE  g[S] = h[S]
<1> DEFINE N == Cardinality(S)
           D == {n \in Nat : \A s \in SUBSET S :
                                Cardinality(s) = n => g[s] = h[s]}
<1>1. N \in Nat
    BY FS_CardinalityType
<1>2. \A T \in SUBSET S : IsFiniteSet(T) /\ Cardinality(T) \in Nat
    BY FS_Subset, FS_CardinalityType
<1>3. \A s \in SUBSET S : g[s] = Fold1(f, g, s) /\ h[s] = Fold1(f, h, s)
    BY DEF FoldsOf
<1>4. 0 \in D
    <2> SUFFICES ASSUME NEW s \in SUBSET S, Cardinality(s) = 0
                 PROVE  g[s] = h[s]
        OBVIOUS
    <2>1. s = {}
        BY <1>2, FS_EmptySet
    <2> QED
        BY <1>3, <2>1 DEF Fold1
<1>5. ASSUME NEW n \in Nat, n \in D
      PROVE  n + 1 \in D
    <2> SUFFICES ASSUME NEW s \in SUBSET S, Cardinality(s) = n + 1
                 PROVE  g[s] = h[s]
        OBVIOUS
    <2> DEFINE t == s \ {Pick(s)}
    <2>1. s # {}
        <3> HIDE DEF D
        <3>1. Cardinality({}) = 0 /\ n + 1 # 0
            BY FS_EmptySet
        <3> QED
            BY <3>1
    <2>2. Pick(s) \in s /\ IsFiniteSet(s)
        BY <1>2, <2>1, PickIsIn
    <2>3. Cardinality(t) = Cardinality(s) - 1
        BY <2>2, FS_RemoveElement
    <2>4. t \in SUBSET S /\ Cardinality(t) = n
        BY <2>3
    <2>5. g[t] = h[t]
        BY <1>5, <2>4
    <2> QED
        BY <1>3, <2>1, <2>5 DEF Fold1
<1>6. N \in D
    <2> HIDE DEF D, N
    <2> QED
        BY <1>1, <1>4, <1>5, UpTo
<1> QED
    BY <1>6

\* A sum is the last of the folds that the community modules' recursion defines.
LEMMA SumIsFold ==
    ASSUME NEW S, IsFiniteSet(S), NEW f
    PROVE  \E g : FoldsOf(f, g, SUBSET S) /\ SumOver(f, S) = g[S]
<1> DEFINE iter[s \in SUBSET S] ==
               IF s = {} THEN 0
               ELSE f[CHOOSE x \in s : TRUE]
                    + iter[s \ {CHOOSE x \in s : TRUE}]
<1>1. SumOver(f, S) = iter[S]
    BY DEF SumOver, MapThenFoldSet
<1>2. PICK g : FoldsOf(f, g, SUBSET S)
    BY FoldExists
<1>3. g = [s \in SUBSET S |->
              IF s = {} THEN 0
              ELSE f[CHOOSE x \in s : TRUE] + g[s \ {CHOOSE x \in s : TRUE}]]
    BY <1>2 DEF FoldsOf, Fold1, Pick
<1>4. iter = [s \in SUBSET S |->
              IF s = {} THEN 0
              ELSE f[CHOOSE x \in s : TRUE] + iter[s \ {CHOOSE x \in s : TRUE}]]
    BY <1>3
<1> HIDE DEF iter
<1>5. FoldsOf(f, iter, SUBSET S)
    BY <1>4 DEF FoldsOf, Fold1, Pick
<1> QED
    BY <1>1, <1>5

\* Any element may be taken out first.
LEMMA FoldAnyOrder ==
    ASSUME NEW S, IsFiniteSet(S), NEW f, \A x \in S : f[x] \in Int,
           NEW g, FoldsOf(f, g, SUBSET S)
    PROVE  \A s \in SUBSET S : /\ g[s] \in Int
                               /\ \A y \in s : g[s] = f[y] + g[s \ {y}]
<1> DEFINE N == Cardinality(S)
           Good(s) == g[s] \in Int /\ \A y \in s : g[s] = f[y] + g[s \ {y}]
           D == {n \in Nat : \A s \in SUBSET S : Cardinality(s) <= n => Good(s)}
<1>1. N \in Nat
    BY FS_CardinalityType
<1>2. \A T \in SUBSET S : /\ IsFiniteSet(T) /\ Cardinality(T) \in Nat
                           /\ Cardinality(T) <= N
    BY FS_Subset, FS_CardinalityType
<1>3. \A s \in SUBSET S : g[s] = Fold1(f, g, s)
    BY DEF FoldsOf
<1>0. Good({})
    <2>1. g[{}] = 0
        BY <1>3 DEF Fold1
    <2> QED
        BY <2>1
<1>4. 0 \in D
    <2> SUFFICES ASSUME NEW s \in SUBSET S, Cardinality(s) <= 0
                 PROVE  Good(s)
        OBVIOUS
    <2>1. s = {}
        BY <1>2, FS_EmptySet
    <2> HIDE DEF Good
    <2> QED
        BY <1>0, <2>1
<1>5. ASSUME NEW n \in Nat, n \in D
      PROVE  n + 1 \in D
    <2>1. \A s \in SUBSET S : Cardinality(s) <= n => Good(s)
        BY <1>5
    <2> HIDE DEF D
    <2> SUFFICES ASSUME NEW s \in SUBSET S, Cardinality(s) <= n + 1
                 PROVE  Good(s)
        BY DEF D
    <2>2. CASE s = {}
        <3> HIDE DEF Good
        <3> QED
            BY <1>0, <2>2
    <2>3. CASE s # {}
        <3> DEFINE x == Pick(s)
        <3>1. x \in s /\ g[s] = f[x] + g[s \ {x}]
            BY <1>3, <2>3, PickIsIn DEF Fold1
        <3> HIDE DEF x
        <3>2. ASSUME NEW y \in s
              PROVE  Good(s \ {y})
            <4>1. IsFiniteSet(s) /\ Cardinality(s) \in Nat
                BY <1>2
            <4>2. Cardinality(s \ {y}) = Cardinality(s) - 1
                BY <4>1, FS_RemoveElement
            <4>3. s \ {y} \in SUBSET S /\ Cardinality(s \ {y}) <= n
                BY <4>1, <4>2
            <4> HIDE DEF Good
            <4> QED
                BY <2>1, <4>3
        <3>3. g[s] \in Int
            BY <3>1, <3>2
        <3>4. ASSUME NEW y \in s
              PROVE  g[s] = f[y] + g[s \ {y}]
            <4>1. CASE y = x
                BY <3>1, <4>1
            <4>2. CASE y # x
                <5>1. g[s \ {x}] = f[y] + g[(s \ {x}) \ {y}]
                    BY <3>1, <3>2, <4>2
                <5>2. g[s \ {y}] = f[x] + g[(s \ {y}) \ {x}]
                    BY <3>1, <3>2, <4>2
                <5>3. (s \ {x}) \ {y} = (s \ {y}) \ {x}
                    OBVIOUS
                <5> DEFINE r == g[(s \ {y}) \ {x}]
                <5>4. r \in Int
                    <6>1. Good(s \ {y}) /\ x \in s \ {y}
                        BY <3>1, <3>2, <4>2
                    <6>2. (s \ {y}) \ {x} \in SUBSET S
                        OBVIOUS
                    <6>3. Cardinality((s \ {y}) \ {x}) <= n
                        <7>1. IsFiniteSet(s) /\ Cardinality(s) \in Nat
                            BY <1>2
                        <7>2. /\ IsFiniteSet(s \ {y})
                              /\ Cardinality(s \ {y}) = Cardinality(s) - 1
                            BY <7>1, FS_RemoveElement
                        <7>3. Cardinality((s \ {y}) \ {x})
                                = Cardinality(s \ {y}) - 1
                            BY <6>1, <7>2, FS_RemoveElement
                        <7> QED
                            BY <7>1, <7>2, <7>3
                    <6> QED
                        BY <2>1, <6>2, <6>3
                <5> HIDE DEF r
                <5>5. g[s \ {x}] = f[y] + r /\ g[s \ {y}] = f[x] + r
                    BY <5>1, <5>2, <5>3 DEF r
                <5>6. f[x] \in Int /\ f[y] \in Int
                    BY <3>1
                <5> QED
                    BY <3>1, <5>4, <5>5, <5>6
            <4> QED
                BY <4>1, <4>2
        <3> QED
            BY <3>3, <3>4
    <2> QED
        BY <2>2, <2>3
<1>6. N \in D
    <2> HIDE DEF D, N
    <2> QED
        BY <1>1, <1>4, <1>5, UpTo
<1> QED
    BY <1>2, <1>6

-----------------------------------------------------------------------------
(* Sums.                                                                   *)

LEMMA SumEmpty ==
    ASSUME NEW f
    PROVE  SumOver(f, {}) = 0
<1>1. PICK g : FoldsOf(f, g, SUBSET {}) /\ SumOver(f, {}) = g[{}]
    BY FS_EmptySet, SumIsFold
<1> QED
    BY <1>1 DEF FoldsOf, Fold1

\* A sum is one of its terms and the sum of the others.
LEMMA SumRemoves ==
    ASSUME NEW S, IsFiniteSet(S), NEW f, \A x \in S : f[x] \in Int,
           NEW y \in S
    PROVE  SumOver(f, S) = f[y] + SumOver(f, S \ {y})
<1> DEFINE T == S \ {y}
<1>1. PICK g : FoldsOf(f, g, SUBSET S) /\ SumOver(f, S) = g[S]
    BY SumIsFold
<1>2. IsFiniteSet(T)
    BY FS_RemoveElement
<1>3. PICK h : FoldsOf(f, h, SUBSET T) /\ SumOver(f, T) = h[T]
    BY <1>2, SumIsFold
<1>4. SUBSET T \subseteq SUBSET S
    OBVIOUS
<1> HIDE DEF T
<1>5. g[T] = h[T]
    BY <1>1, <1>2, <1>3, <1>4, FoldIsOne
<1>6. g[S] = f[y] + g[S \ {y}]
    <2>1. FoldsOf(f, g, SUBSET S)
        BY <1>1
    <2>2. \A s \in SUBSET S : /\ g[s] \in Int
                               /\ \A x \in s : g[s] = f[x] + g[s \ {x}]
        BY <2>1, FoldAnyOrder
    <2> QED
        BY <2>2
<1> QED
    BY <1>1, <1>3, <1>5, <1>6 DEF T

LEMMA SumIsInt ==
    ASSUME NEW S, IsFiniteSet(S), NEW f, \A x \in S : f[x] \in Int
    PROVE  SumOver(f, S) \in Int
<1>1. PICK g : FoldsOf(f, g, SUBSET S) /\ SumOver(f, S) = g[S]
    BY SumIsFold
<1>2. \A s \in SUBSET S : g[s] \in Int
    BY <1>1, FoldAnyOrder
<1> QED
    BY <1>1, <1>2

LEMMA SumAdds ==
    ASSUME NEW T, IsFiniteSet(T), NEW f, NEW x, x \notin T,
           \A y \in T \cup {x} : f[y] \in Int
    PROVE  /\ SumOver(f, T \cup {x}) = SumOver(f, T) + f[x]
           /\ SumOver(f, T) \in Int /\ SumOver(f, T \cup {x}) \in Int
<1> DEFINE S == T \cup {x}
<1>1. IsFiniteSet(S) /\ S \ {x} = T /\ x \in S
    BY FS_AddElement
<1>2. SumOver(f, T) \in Int /\ SumOver(f, S) \in Int
    BY <1>1, SumIsInt
<1>3. SumOver(f, S) = f[x] + SumOver(f, T)
    BY <1>1, SumRemoves
<1>4. f[x] \in Int
    OBVIOUS
<1> QED
    BY <1>2, <1>3, <1>4

\* A sum with larger terms is larger.
LEMMA SumOrder ==
    ASSUME NEW S, IsFiniteSet(S), NEW f, NEW g,
           \A x \in S : f[x] \in Int /\ g[x] \in Int /\ f[x] <= g[x]
    PROVE  SumOver(f, S) <= SumOver(g, S)
<1> DEFINE C == {T \in SUBSET S : SumOver(f, T) <= SumOver(g, T)}
<1>1. {} \in C
    BY SumEmpty
<1>2. ASSUME NEW T \in SUBSET S, NEW x \in S \ T, T \in C
      PROVE  T \cup {x} \in C
    <2>1. IsFiniteSet(T)
        BY FS_Subset
    <2>2. /\ SumOver(f, T \cup {x}) = SumOver(f, T) + f[x]
          /\ SumOver(f, T) \in Int
        BY <2>1, SumAdds
    <2>3. /\ SumOver(g, T \cup {x}) = SumOver(g, T) + g[x]
          /\ SumOver(g, T) \in Int
        BY <2>1, SumAdds
    <2>4. SumOver(f, T) <= SumOver(g, T)
        BY <1>2
    <2>5. f[x] \in Int /\ g[x] \in Int /\ f[x] <= g[x]
        OBVIOUS
    <2>6. SumOver(f, T \cup {x}) <= SumOver(g, T \cup {x})
        BY <2>2, <2>3, <2>4, <2>5
    <2> QED
        BY <2>6
<1> HIDE DEF C
<1>3. S \in C
    BY <1>1, <1>2, FiniteInduction
<1> QED
    BY <1>3 DEF C

LEMMA SumSame ==
    ASSUME NEW S, IsFiniteSet(S), NEW f, NEW g,
           \A x \in S : f[x] \in Int /\ g[x] = f[x]
    PROVE  SumOver(g, S) = SumOver(f, S)
<1>1. \A x \in S : g[x] \in Int /\ f[x] <= g[x] /\ g[x] <= f[x]
    OBVIOUS
<1>2. SumOver(f, S) <= SumOver(g, S) /\ SumOver(g, S) <= SumOver(f, S)
    BY <1>1, SumOrder
<1>3. SumOver(f, S) \in Int /\ SumOver(g, S) \in Int
    BY <1>1, SumIsInt
<1> QED
    BY <1>2, <1>3

\* When one term changes, the sum changes by as much.
LEMMA SumChanges ==
    ASSUME NEW S, IsFiniteSet(S), NEW f, NEW g, NEW y \in S,
           \A x \in S : f[x] \in Int, g[y] \in Int,
           \A x \in S \ {y} : g[x] = f[x]
    PROVE  SumOver(g, S) = SumOver(f, S) + g[y] - f[y]
<1> DEFINE T == S \ {y}
<1>1. IsFiniteSet(T) /\ \A x \in S : g[x] \in Int
    BY FS_RemoveElement
<1>2. SumOver(f, S) = f[y] + SumOver(f, T)
    BY SumRemoves
<1>3. SumOver(g, S) = g[y] + SumOver(g, T)
    BY <1>1, SumRemoves
<1>4. SumOver(g, T) = SumOver(f, T)
    BY <1>1, SumSame
<1>5. SumOver(f, T) \in Int
    BY <1>1, SumIsInt
<1> QED
    BY <1>2, <1>3, <1>4, <1>5

\* The sum of what is at least 0 is at least the sum of a part of it.
LEMMA SumOfPart ==
    ASSUME NEW S, IsFiniteSet(S), NEW f, \A x \in S : f[x] \in Nat,
           NEW P \in SUBSET S
    PROVE  SumOver(f, P) <= SumOver(f, S) /\ SumOver(f, P) \in Nat
<1> DEFINE C == {T \in SUBSET S : /\ SumOver(f, T) \in Nat
                                  /\ SumOver(f, P \cap T) <= SumOver(f, T)}
<1>1. {} \in C
    <2>1. P \cap {} = {}
        OBVIOUS
    <2> QED
        BY <2>1, SumEmpty
<1>2. ASSUME NEW T \in SUBSET S, NEW x \in S \ T, T \in C
      PROVE  T \cup {x} \in C
    <2>1. /\ IsFiniteSet(T) /\ IsFiniteSet(P \cap T)
          /\ \A y \in S : f[y] \in Int
        BY FS_Subset
    <2>2. SumOver(f, T \cup {x}) = SumOver(f, T) + f[x]
        BY <2>1, SumAdds
    <2>3. SumOver(f, T) \in Nat /\ SumOver(f, P \cap T) <= SumOver(f, T)
        BY <1>2
    <2>4. f[x] \in Nat
        OBVIOUS
    <2>5. SumOver(f, P \cap (T \cup {x})) <= SumOver(f, T) + f[x]
        <3>1. CASE x \in P
            <4>1. P \cap (T \cup {x}) = (P \cap T) \cup {x}
                BY <3>1
            <4>2. /\ SumOver(f, (P \cap T) \cup {x}) = SumOver(f, P \cap T) + f[x]
                  /\ SumOver(f, P \cap T) \in Int
                BY <2>1, SumAdds
            <4>3. SumOver(f, P \cap (T \cup {x})) = SumOver(f, P \cap T) + f[x]
                BY <4>1, <4>2
            <4> QED
                BY <2>3, <2>4, <4>2, <4>3
        <3>2. CASE x \notin P
            <4>1. P \cap (T \cup {x}) = P \cap T
                BY <3>2
            <4>2. SumOver(f, P \cap T) \in Int
                BY <2>1, SumIsInt
            <4>3. SumOver(f, P \cap (T \cup {x})) = SumOver(f, P \cap T)
                BY <4>1
            <4> QED
                BY <2>3, <2>4, <4>2, <4>3
        <3> QED
            BY <3>1, <3>2
    <2> QED
        BY <2>2, <2>3, <2>4, <2>5
<1>3. S \in C
    <2> HIDE DEF C
    <2> QED
        BY <1>1, <1>2, FiniteInduction
<1>4. SumOver(f, P) <= SumOver(f, S)
    <2>1. P \cap S = P
        OBVIOUS
    <2> QED
        BY <1>3, <2>1
<1>5. SumOver(f, P) \in Nat
    <2> DEFINE zero == [x \in P |-> 0]
    <2>1. IsFiniteSet(P)
        BY FS_Subset
    <2>2. SumOver(zero, P) <= SumOver(f, P) /\ SumOver(f, P) \in Int
        BY <2>1, SumOrder, SumIsInt
    <2>3. SumOver(zero, P) = 0
        <3> DEFINE Z == {T \in SUBSET P : SumOver(zero, T) = 0}
        <3>1. {} \in Z
            BY SumEmpty
        <3>2. ASSUME NEW T \in SUBSET P, NEW x \in P \ T, T \in Z
              PROVE  T \cup {x} \in Z
            <4>1. IsFiniteSet(T)
                BY <2>1, FS_Subset
            <4>2. SumOver(zero, T \cup {x}) = SumOver(zero, T) + zero[x]
                BY <4>1, SumAdds
            <4>3. SumOver(zero, T) = 0 /\ zero[x] = 0
                BY <3>2
            <4>4. SumOver(zero, T \cup {x}) = 0
                BY <4>2, <4>3
            <4> QED
                BY <4>4
        <3> HIDE DEF Z
        <3>3. P \in Z
            BY <2>1, <3>1, <3>2, FiniteInduction
        <3> QED
            BY <3>3 DEF Z
    <2> QED
        BY <2>2, <2>3
<1> QED
    BY <1>4, <1>5

\* What is 0 outside of P adds nothing.
LEMMA SumOfRest ==
    ASSUME NEW S, IsFiniteSet(S), NEW f, NEW P \in SUBSET S,
           \A x \in S : f[x] \in Int, \A x \in S \ P : f[x] = 0
    PROVE  SumOver(f, S) = SumOver(f, P)
<1> DEFINE C == {T \in SUBSET S : SumOver(f, T) = SumOver(f, P \cap T)}
<1>1. {} \in C
    <2>1. P \cap {} = {}
        OBVIOUS
    <2> QED
        BY <2>1
<1>2. ASSUME NEW T \in SUBSET S, NEW x \in S \ T, T \in C
      PROVE  T \cup {x} \in C
    <2>1. /\ IsFiniteSet(T) /\ IsFiniteSet(P \cap T)
          /\ \A y \in S : f[y] \in Int
        BY FS_Subset
    <2>2. /\ SumOver(f, T \cup {x}) = SumOver(f, T) + f[x]
          /\ SumOver(f, T) \in Int
        BY <2>1, SumAdds
    <2>3. SumOver(f, T) = SumOver(f, P \cap T)
        BY <1>2
    <2>4. SumOver(f, P \cap (T \cup {x})) = SumOver(f, T) + f[x]
        <3>1. CASE x \in P
            <4>1. P \cap (T \cup {x}) = (P \cap T) \cup {x}
                BY <3>1
            <4>2. SumOver(f, (P \cap T) \cup {x}) = SumOver(f, P \cap T) + f[x]
                BY <2>1, SumAdds
            <4> QED
                BY <2>3, <4>1, <4>2
        <3>2. CASE x \notin P
            <4>1. P \cap (T \cup {x}) = P \cap T /\ f[x] = 0
                BY <3>2
            <4>2. SumOver(f, T) + 0 = SumOver(f, T)
                BY <2>2
            <4> QED
                BY <2>3, <4>1, <4>2
        <3> QED
            BY <3>1, <3>2
    <2> QED
        BY <2>2, <2>4
<1> HIDE DEF C
<1>3. S \in C
    BY <1>1, <1>2, FiniteInduction
<1>4. P \cap S = P
    OBVIOUS
<1> QED
    BY <1>3, <1>4 DEF C
=============================================================================
