----------------------------- MODULE DataLemmas ----------------------------
(***************************************************************************)
(* What the proofs of the components need to know about the data they      *)
(* share: induction over the numbers and over the subsets of a finite set, *)
(* the sums MapThenSumSet computes, the sequence of a finite set in an     *)
(* order, what FoldLeft computes and what a list comprehension keeps.      *)
(* Community modules define the sums and the folds by a CHOOSE, so each    *)
(* begins with what was chosen.                                            *)
(*                                                                         *)
(* Induction is stated for a set of numbers or of subsets, not for a       *)
(* predicate, and folds for the constant Op: a module of proofs            *)
(* instantiates Op with the operator of its fold.                          *)
(***************************************************************************)
EXTENDS Lists, FiniteSetsExt, FiniteSetTheorems, FunctionTheorems, SequenceTheorems,
        WellFoundedInduction, TLAPS

CONSTANT Op(_, _)

(* Induction over the numbers, for a set of them.                          *)
LEMMA SetInduction ==
    ASSUME NEW U \in SUBSET Nat, 0 \in U, \A n \in U : n + 1 \in U
    PROVE  U = Nat
<1> DEFINE Less == {p \in Nat \X Nat : p[1] < p[2]}
<1>1. IsWellFoundedOn(Less, Nat)
    BY NatLessThanWellFounded DEF OpToRel
<1>2. SUFFICES ASSUME Nat \ U # {} PROVE FALSE
    OBVIOUS
<1>3. PICK m \in Nat \ U : \A k \in Nat \ U : <<k, m>> \notin Less
    <2> HIDE DEF Less
    <2> QED
        BY <1>1, <1>2, WFMin
<1>4. m # 0 /\ m - 1 \in Nat /\ m - 1 < m
    OBVIOUS
<1>5. m - 1 \in U
    BY <1>3, <1>4
<1> QED
    BY <1>4, <1>5

\* The element of a set that a sum takes first.
OneOf(T) == CHOOSE x \in T : TRUE

\* What is left of a finite set without that element.
LEMMA OneLess ==
    ASSUME NEW T, IsFiniteSet(T), T # {}
    PROVE  /\ OneOf(T) \in T /\ IsFiniteSet(T \ {OneOf(T)})
           /\ Cardinality(T) \in Nat \ {0}
           /\ Cardinality(T \ {OneOf(T)}) = Cardinality(T) - 1
<1>1. OneOf(T) \in T
    BY DEF OneOf
<1>2. PICK x : x = OneOf(T)
    OBVIOUS
<1>3. IsFiniteSet(T \ {x}) /\ Cardinality(T \ {x}) = Cardinality(T) - 1
    BY <1>1, <1>2, FS_RemoveElement
<1>4. Cardinality(T) \in Nat /\ Cardinality(T) # 0
    BY FS_CardinalityType, FS_EmptySet
<1> QED
    BY <1>1, <1>2, <1>3, <1>4

(* Induction over the subsets of a finite set.                             *)
LEMMA SubsetInduction ==
    ASSUME NEW S, IsFiniteSet(S), NEW P, {} \in P,
           \A T \in SUBSET S : T # {} /\ T \ {OneOf(T)} \in P => T \in P
    PROVE  \A T \in SUBSET S : T \in P
<1> DEFINE U == {n \in Nat : \A T \in SUBSET S : Cardinality(T) = n => T \in P}
<1>1. 0 \in U
    <2> SUFFICES ASSUME NEW T \in SUBSET S, Cardinality(T) = 0 PROVE T \in P
        OBVIOUS
    <2>1. IsFiniteSet(T)
        BY FS_Subset
    <2> QED
        BY <2>1, FS_EmptySet
<1>2. ASSUME NEW n \in U PROVE n + 1 \in U
    <2> SUFFICES ASSUME NEW T \in SUBSET S, Cardinality(T) = n + 1 PROVE T \in P
        OBVIOUS
    <2>1. IsFiniteSet(T) /\ n \in Nat
        BY FS_Subset
    <2>2. T # {}
        BY <2>1, FS_EmptySet
    <2>3. Cardinality(T \ {OneOf(T)}) = Cardinality(T) - 1
        BY <2>1, <2>2, OneLess
    <2>4. Cardinality(T \ {OneOf(T)}) = n
        BY <2>1, <2>3
    <2>5. T \ {OneOf(T)} \in SUBSET S
        OBVIOUS
    <2>6. T \ {OneOf(T)} \in P
        BY <2>4, <2>5
    <2> QED
        BY <2>2, <2>6
<1>3. U = Nat
    <2> HIDE DEF U
    <2>1. U \in SUBSET Nat
        BY DEF U
    <2> QED
        BY <1>1, <1>2, <2>1, SetInduction
<1>4. \A T \in SUBSET S : Cardinality(T) \in Nat
    BY FS_Subset, FS_CardinalityType
<1> QED
    BY <1>3, <1>4

\* A set of numbers has a least one.
LEMMA Least ==
    ASSUME NEW U \in SUBSET Nat, U # {}
    PROVE  \E m \in U : \A k \in U : m <= k
<1> DEFINE Less == {p \in Nat \X Nat : p[1] < p[2]}
<1>1. IsWellFoundedOn(Less, Nat)
    BY NatLessThanWellFounded DEF OpToRel
<1>2. PICK m \in U : \A k \in U : <<k, m>> \notin Less
    <2> HIDE DEF Less
    <2> QED
        BY <1>1, WFMin
<1>3. ASSUME NEW k \in U PROVE m <= k
    <2>1. ~(k < m)
        BY <1>2
    <2> QED
        BY <2>1
<1> QED
    BY <1>3

\* Induction up to n.
LEMMA UpTo ==
    ASSUME NEW n \in Nat, NEW U, 0 \in U,
           \A k \in Nat : k < n /\ k \in U => k + 1 \in U
    PROVE  \A k \in 0..n : k \in U
<1> DEFINE W == {k \in Nat : k <= n => k \in U}
<1>1. W \in SUBSET Nat /\ 0 \in W
    OBVIOUS
<1>2. \A k \in W : k + 1 \in W
    OBVIOUS
<1> HIDE DEF W
<1>3. W = Nat
    BY <1>1, <1>2, SetInduction
<1> QED
    BY <1>3 DEF W

-----------------------------------------------------------------------------
(* Sums over finite sets.                                                  *)

\* The sum of the values of f over S.
Sigma(S, f) == MapThenSumSet(LAMBDA s : f[s], S)

\* g holds the sums of f over the subsets of S.
Sums(g, S, f) ==
    g = [T \in SUBSET S |-> IF T = {} THEN 0 ELSE f[OneOf(T)] + g[T \ {OneOf(T)}]]

\* There are such sums.
LEMMA SumsExist ==
    ASSUME NEW S, IsFiniteSet(S), NEW f PROVE \E g : Sums(g, S, f)
<1> DEFINE Small(n) == {T \in SUBSET S : Cardinality(T) <= n}
           Upto(g, n) == g = [T \in Small(n) |->
                                IF T = {} THEN 0 ELSE f[OneOf(T)] + g[T \ {OneOf(T)}]]
           U == {n \in Nat : \E g : Upto(g, n)}
<1>0. \A T \in SUBSET S : IsFiniteSet(T) /\ Cardinality(T) \in Nat
    BY FS_Subset, FS_CardinalityType
<1>1. 0 \in U
    <2>1. \A T \in Small(0) : T = {}
        BY <1>0, FS_EmptySet
    <2>2. Upto([T \in Small(0) |-> 0], 0)
        BY <2>1
    <2> HIDE DEF Upto
    <2> QED
        BY <2>2
<1>2. ASSUME NEW n \in U PROVE n + 1 \in U
    <2>1. PICK g : Upto(g, n)
        OBVIOUS
    <2>n. n \in Nat
        OBVIOUS
    <2> DEFINE h == [T \in Small(n + 1) |->
                       IF T = {} THEN 0 ELSE f[OneOf(T)] + g[T \ {OneOf(T)}]]
    <2>2. ASSUME NEW T \in Small(n + 1), T # {}
          PROVE  h[T \ {OneOf(T)}] = g[T \ {OneOf(T)}]
        <3>1. PICK R : R = T \ {OneOf(T)}
            OBVIOUS
        <3>2. Cardinality(R) = Cardinality(T) - 1 /\ R \in SUBSET S
            BY <1>0, <2>2, <3>1, OneLess
        <3>3. Cardinality(R) <= n /\ Cardinality(R) <= n + 1
            BY <1>0, <2>2, <2>n, <3>2
        <3>4. R \in Small(n) /\ R \in Small(n + 1)
            BY <3>2, <3>3
        <3>5. g[R] = IF R = {} THEN 0 ELSE f[OneOf(R)] + g[R \ {OneOf(R)}]
            BY <2>1, <3>4
        <3>6. h[R] = IF R = {} THEN 0 ELSE f[OneOf(R)] + g[R \ {OneOf(R)}]
            BY <3>4
        <3> QED
            BY <3>1, <3>5, <3>6
    <2>3. h = [T \in Small(n + 1) |->
                 IF T = {} THEN 0 ELSE f[OneOf(T)] + h[T \ {OneOf(T)}]]
        <3>1. \A T \in Small(n + 1) :
                h[T] = IF T = {} THEN 0 ELSE f[OneOf(T)] + h[T \ {OneOf(T)}]
            BY <2>2
        <3>2. h = [T \in Small(n + 1) |-> h[T]]
            OBVIOUS
        <3> HIDE DEF h
        <3> QED
            BY <3>1, <3>2
    <2> HIDE DEF h
    <2>4. Upto(h, n + 1)
        BY <2>3
    <2> HIDE DEF Upto
    <2>5. n + 1 \in Nat /\ \E g2 : Upto(g2, n + 1)
        BY <2>4, <2>n
    <2> QED
        BY <2>5
<1>3. U = Nat
    <2> HIDE DEF U
    <2>1. U \in SUBSET Nat
        BY DEF U
    <2> QED
        BY <1>1, <1>2, <2>1, SetInduction
<1>4. PICK n \in Nat : n = Cardinality(S)
    BY FS_CardinalityType
<1>5. Small(n) = SUBSET S
    BY <1>4, FS_Subset
<1>6. PICK g : Upto(g, n)
    BY <1>3
<1> HIDE DEF Small
<1>7. Sums(g, S, f)
    BY <1>5, <1>6 DEF Sums
<1> QED
    BY <1>7

\* Sigma is one of them.
LEMMA SigmaIsSum ==
    ASSUME NEW S, IsFiniteSet(S), NEW f
    PROVE  \E g : Sums(g, S, f) /\ Sigma(S, f) = g[S]
<1> DEFINE iter == CHOOSE g : Sums(g, S, f)
<1>1. Sums(iter, S, f)
    BY SumsExist
<1>2. Sigma(S, f) = iter[S]
    BY DEF Sigma, MapThenSumSet, MapThenFoldSet, Sums, OneOf
<1> HIDE DEF iter
<1> QED
    BY <1>1, <1>2

\* The sum over nothing, and over something.
LEMMA SigmaEmpty == ASSUME NEW f PROVE Sigma({}, f) = 0
<1>1. PICK g : Sums(g, {}, f) /\ Sigma({}, f) = g[{}]
    BY FS_EmptySet, SigmaIsSum
<1> QED
    BY <1>1 DEF Sums

\* The sum over something takes its elements one by one.
LEMMA SigmaTake ==
    ASSUME NEW S, IsFiniteSet(S), S # {}, NEW f
    PROVE  Sigma(S, f) = f[OneOf(S)] + Sigma(S \ {OneOf(S)}, f)
<1>1. PICK R : R = S \ {OneOf(S)}
    OBVIOUS
<1>2. IsFiniteSet(R) /\ R \subseteq S /\ R \in SUBSET S
    BY <1>1, OneLess
<1>3. PICK g : Sums(g, S, f) /\ Sigma(S, f) = g[S]
    BY SigmaIsSum
<1>4. PICK h : Sums(h, R, f) /\ Sigma(R, f) = h[R]
    BY <1>2, SigmaIsSum
<1> DEFINE P == {T \in SUBSET R : g[T] = h[T]}
<1>5. {} \in P
    <2>1. g[{}] = 0 /\ h[{}] = 0
        BY <1>3, <1>4 DEF Sums
    <2> QED
        BY <2>1
<1>6. ASSUME NEW T \in SUBSET R, T # {}, T \ {OneOf(T)} \in P PROVE T \in P
    <2>1. T \in SUBSET S
        BY <1>2
    <2>2. g[T] = f[OneOf(T)] + g[T \ {OneOf(T)}] /\ h[T] = f[OneOf(T)] + h[T \ {OneOf(T)}]
        BY <1>3, <1>4, <1>6, <2>1 DEF Sums
    <2> QED
        BY <1>6, <2>2
<1>7. \A T \in SUBSET R : T \in P
    <2> HIDE DEF P
    <2> QED
        BY <1>2, <1>5, <1>6, SubsetInduction
<1>8. g[R] = h[R]
    BY <1>7
<1>9. g[S] = f[OneOf(S)] + g[S \ {OneOf(S)}]
    BY <1>3 DEF Sums
<1> QED
    BY <1>1, <1>3, <1>4, <1>8, <1>9

\* A sum of numbers is a number.
LEMMA SigmaNat ==
    ASSUME NEW S, IsFiniteSet(S), NEW f, \A s \in S : f[s] \in Nat
    PROVE  Sigma(S, f) \in Nat
<1> DEFINE P == {T \in SUBSET S : Sigma(T, f) \in Nat}
<1>1. {} \in P
    BY SigmaEmpty
<1>2. ASSUME NEW T \in SUBSET S, T # {}, T \ {OneOf(T)} \in P PROVE T \in P
    <2>1. IsFiniteSet(T)
        BY FS_Subset
    <2>2. Sigma(T, f) = f[OneOf(T)] + Sigma(T \ {OneOf(T)}, f)
        BY <1>2, <2>1, SigmaTake
    <2>3. OneOf(T) \in S
        BY <1>2, <2>1, OneLess
    <2> QED
        BY <1>2, <2>2, <2>3
<1>3. \A T \in SUBSET S : T \in P
    <2> HIDE DEF P
    <2> QED
        BY <1>1, <1>2, SubsetInduction
<1> QED
    BY <1>3

\* A sum does not depend on what is taken first.
LEMMA SigmaRemove ==
    ASSUME NEW S, IsFiniteSet(S), NEW f, \A s \in S : f[s] \in Nat, NEW x \in S
    PROVE  Sigma(S, f) = f[x] + Sigma(S \ {x}, f)
<1> DEFINE P == {T \in SUBSET S : \A y \in T : Sigma(T, f) = f[y] + Sigma(T \ {y}, f)}
           U == {n \in Nat : \A T \in SUBSET S : Cardinality(T) = n => T \in P}
<1>0. \A T \in SUBSET S : IsFiniteSet(T) /\ Cardinality(T) \in Nat /\ Sigma(T, f) \in Nat
    BY FS_Subset, FS_CardinalityType, SigmaNat
<1>1. 0 \in U
    BY <1>0, FS_EmptySet
<1>2. ASSUME NEW n \in U PROVE n + 1 \in U
    <2>n. n \in Nat /\ n + 1 \in Nat
        OBVIOUS
    <2> SUFFICES ASSUME NEW T \in SUBSET S, Cardinality(T) = n + 1, NEW y \in T
                 PROVE  Sigma(T, f) = f[y] + Sigma(T \ {y}, f)
        BY <2>n
    <2>1. IsFiniteSet(T) /\ T # {}
        BY <1>0
    <2>2. PICK c : c = OneOf(T)
        OBVIOUS
    <2>3. /\ c \in T /\ Sigma(T, f) = f[c] + Sigma(T \ {c}, f)
        BY <2>1, <2>2, SigmaTake, OneLess
    <2>4. CASE y = c
        BY <2>3, <2>4
    <2>5. CASE y # c
        <3>1. Cardinality(T \ {c}) = n /\ Cardinality(T \ {y}) = n
            <4>1. \A z \in T : Cardinality(T \ {z}) = Cardinality(T) - 1
                BY <2>1, FS_RemoveElement
            <4>2. c \in T /\ y \in T /\ Cardinality(T) - 1 = n
                BY <2>3, <2>n
            <4> HIDE DEF U
            <4> QED
                BY <4>1, <4>2
        <3>2. T \ {c} \in P /\ T \ {y} \in P
            BY <2>n, <3>1
        <3>3. PICK R : R = T \ {c, y}
            OBVIOUS
        <3>4. R = (T \ {c}) \ {y} /\ R = (T \ {y}) \ {c} /\ y \in T \ {c} /\ c \in T \ {y}
            BY <2>3, <2>5, <3>3
        <3>5. Sigma(T \ {c}, f) = f[y] + Sigma(R, f) /\ Sigma(T \ {y}, f) = f[c] + Sigma(R, f)
            BY <3>2, <3>4
        <3>6. f[y] \in Nat /\ f[c] \in Nat /\ Sigma(R, f) \in Nat
            BY <1>0, <2>3, <3>3
        <3> QED
            BY <2>3, <3>5, <3>6
    <2> QED
        BY <2>4, <2>5
<1>3. U = Nat
    <2> HIDE DEF U
    <2>1. U \in SUBSET Nat
        BY DEF U
    <2> QED
        BY <1>1, <1>2, <2>1, SetInduction
<1>4. S \in P
    BY <1>0, <1>3
<1> QED
    BY <1>4

\* Functions that agree have the same sum.
LEMMA SigmaSame ==
    ASSUME NEW S, IsFiniteSet(S), NEW f, NEW g, \A s \in S : f[s] = g[s]
    PROVE  Sigma(S, f) = Sigma(S, g)
<1> DEFINE P == {T \in SUBSET S : Sigma(T, f) = Sigma(T, g)}
<1>1. {} \in P
    BY SigmaEmpty
<1>2. ASSUME NEW T \in SUBSET S, T # {}, T \ {OneOf(T)} \in P PROVE T \in P
    <2>1. IsFiniteSet(T)
        BY FS_Subset
    <2>2. /\ Sigma(T, f) = f[OneOf(T)] + Sigma(T \ {OneOf(T)}, f)
          /\ Sigma(T, g) = g[OneOf(T)] + Sigma(T \ {OneOf(T)}, g)
        BY <1>2, <2>1, SigmaTake
    <2>3. OneOf(T) \in S
        BY <1>2, <2>1, OneLess
    <2> QED
        BY <1>2, <2>2, <2>3
<1>3. \A T \in SUBSET S : T \in P
    <2> HIDE DEF P
    <2> QED
        BY <1>1, <1>2, SubsetInduction
<1> QED
    BY <1>3

\* What changing one value does to a sum.
LEMMA SigmaUpdate ==
    ASSUME NEW S, IsFiniteSet(S), NEW f, NEW g, NEW x \in S,
           \A s \in S : f[s] \in Nat /\ g[s] \in Nat,
           \A s \in S : s # x => g[s] = f[s]
    PROVE  Sigma(S, g) = Sigma(S, f) - f[x] + g[x]
<1>1. PICK R : R = S \ {x}
    OBVIOUS
<1>2. IsFiniteSet(R) /\ R \in SUBSET S
    BY <1>1, FS_RemoveElement
<1>3. /\ Sigma(S, g) = g[x] + Sigma(R, g)
      /\ Sigma(S, f) = f[x] + Sigma(R, f)
    BY <1>1, SigmaRemove
<1>4. Sigma(R, g) = Sigma(R, f)
    BY <1>1, <1>2, SigmaSame
<1>5. Sigma(R, f) \in Nat /\ f[x] \in Nat /\ g[x] \in Nat
    BY <1>2, SigmaNat
<1> QED
    BY <1>3, <1>4, <1>5

\* A sum over more is no less.
LEMMA SigmaMore ==
    ASSUME NEW S, IsFiniteSet(S), NEW f, \A s \in S : f[s] \in Nat, NEW T \in SUBSET S
    PROVE  Sigma(T, f) <= Sigma(S, f)
<1> DEFINE P == {W \in SUBSET S : Sigma(W \cap T, f) <= Sigma(W, f)}
<1>0. \A W \in SUBSET S : IsFiniteSet(W) /\ Sigma(W, f) \in Nat
    BY FS_Subset, SigmaNat
<1>1. {} \in P
    <2>1. {} \cap T = {}
        OBVIOUS
    <2> QED
        BY <2>1, SigmaEmpty
<1>2. ASSUME NEW W \in SUBSET S, W # {}, W \ {OneOf(W)} \in P PROVE W \in P
    <2>1. PICK c : c = OneOf(W)
        OBVIOUS
    <2>2. PICK R : R = W \ {c}
        OBVIOUS
    <2>3. c \in W /\ R \in SUBSET S /\ Sigma(R \cap T, f) <= Sigma(R, f)
        BY <1>0, <1>2, <2>1, <2>2, OneLess
    <2>4. Sigma(W, f) = f[c] + Sigma(R, f) /\ f[c] \in Nat
        BY <1>0, <2>2, <2>3, SigmaRemove
    <2>5. Sigma(R, f) \in Nat /\ Sigma(R \cap T, f) \in Nat
        BY <1>0, <2>3
    <2>6. CASE c \in T
        <3>1. PICK Q : Q = W \cap T
            OBVIOUS
        <3>2. c \in Q /\ Q \ {c} = R \cap T /\ Q \in SUBSET S
            BY <2>2, <2>3, <2>6, <3>1
        <3>3. Sigma(Q, f) = f[c] + Sigma(Q \ {c}, f)
            BY <1>0, <3>2, SigmaRemove
        <3>4. Sigma(W \cap T, f) <= Sigma(W, f)
            <4> HIDE DEF P
            <4> QED
                BY <2>3, <2>4, <2>5, <3>1, <3>2, <3>3
        <3> QED
            BY <3>4
    <2>7. CASE c \notin T
        <3>1. W \cap T = R \cap T
            BY <2>2, <2>7
        <3> QED
            BY <2>3, <2>4, <2>5, <3>1
    <2> QED
        BY <2>6, <2>7
<1>3. \A W \in SUBSET S : W \in P
    <2> HIDE DEF P
    <2> QED
        BY <1>1, <1>2, SubsetInduction
<1>4. S \cap T = T
    OBVIOUS
<1> QED
    BY <1>3, <1>4

-----------------------------------------------------------------------------
(* The sequence of a set in an order: the n-th has n - 1 before it.        *)

\* R is a strict total order of S.
TotalOrder(S, R) ==
    /\ \A s \in S : <<s, s>> \notin R
    /\ \A s, t \in S : s # t => <<s, t>> \in R \/ <<t, s>> \in R
    /\ \A s, t, u \in S : <<s, t>> \in R /\ <<t, u>> \in R => <<s, u>> \in R

Before(S, R, s) == {t \in S : <<t, s>> \in R}

\* What is before another has fewer before it.
LEMMA RanksRise ==
    ASSUME NEW S, IsFiniteSet(S), NEW R, TotalOrder(S, R), NEW s \in S, NEW t \in S,
           <<s, t>> \in R
    PROVE  Cardinality(Before(S, R, s)) < Cardinality(Before(S, R, t))
<1>1. PICK A : A = Before(S, R, s)
    OBVIOUS
<1>2. PICK B : B = Before(S, R, t)
    OBVIOUS
<1>3. A \in SUBSET B /\ s \in B /\ s \notin A /\ B \in SUBSET S
    BY <1>1, <1>2 DEF Before, TotalOrder
<1>4. IsFiniteSet(B) /\ IsFiniteSet(A)
    BY <1>3, FS_Subset
<1>5. Cardinality(A) <= Cardinality(B) /\ Cardinality(A) # Cardinality(B)
    BY <1>3, <1>4, FS_Subset
<1>6. Cardinality(A) \in Nat /\ Cardinality(B) \in Nat
    BY <1>4, FS_CardinalityType
<1> QED
    BY <1>1, <1>2, <1>5, <1>6

\* Every rank is taken, by one element.
LEMMA RanksAreTaken ==
    ASSUME NEW S, IsFiniteSet(S), NEW R, TotalOrder(S, R)
    PROVE  /\ Cardinality(S) \in Nat
           /\ \A s \in S : Cardinality(Before(S, R, s)) \in 0..Cardinality(S) - 1
           /\ \A n \in 1..Cardinality(S) :
                \E s \in S : Cardinality(Before(S, R, s)) = n - 1
<1> DEFINE c == Cardinality(S)
           N == 0..c - 1
           f == [s \in S |-> Cardinality(Before(S, R, s))]
<1>1. c \in Nat
    BY FS_CardinalityType
<1>2. IsFiniteSet(N) /\ Cardinality(N) = c
    <2> HIDE DEF c
    <2>1. 0 \in Int /\ c - 1 \in Int
        BY <1>1
    <2>2. IsFiniteSet(N) /\ Cardinality(N) = IF 0 > c - 1 THEN 0 ELSE (c - 1) - 0 + 1
        BY <2>1, FS_Interval
    <2> QED
        BY <1>1, <2>2
<1>3. ASSUME NEW s \in S PROVE Cardinality(Before(S, R, s)) \in N
    <2>1. PICK A : A = Before(S, R, s)
        OBVIOUS
    <2>2. A \in SUBSET S /\ s \notin A
        BY <2>1 DEF Before, TotalOrder
    <2>3. IsFiniteSet(A) /\ Cardinality(A) <= c /\ Cardinality(A) # c
        BY <2>2, FS_Subset
    <2>4. Cardinality(A) \in Nat
        BY <2>3, FS_CardinalityType
    <2> HIDE DEF c
    <2> QED
        BY <1>1, <2>1, <2>3, <2>4
<1>4. f \in [S -> N]
    <2> HIDE DEF N
    <2> QED
        BY <1>3
<1>5. f \in Injection(S, N)
    <2>1. ASSUME NEW s \in S, NEW t \in S, s # t PROVE f[s] # f[t]
        <3>1. <<s, t>> \in R \/ <<t, s>> \in R
            BY <2>1 DEF TotalOrder
        <3>2. f[s] < f[t] \/ f[t] < f[s]
            BY <3>1, RanksRise
        <3>3. f[s] \in Int /\ f[t] \in Int
            BY <1>1, <1>3
        <3> HIDE DEF f
        <3> QED
            BY <3>2, <3>3
    <2> HIDE DEF f
    <2> QED
        BY <1>4, <2>1 DEF Injection, IsInjective
<1>6. f \in Surjection(S, N)
    <2> HIDE DEF f, N
    <2> QED
        BY <1>2, <1>5, FS_Injection
<1>7. ASSUME NEW n \in 1..c PROVE \E s \in S : Cardinality(Before(S, R, s)) = n - 1
    <2>1. n - 1 \in N
        <3> HIDE DEF c
        <3> QED
            BY <1>1
    <2>2. \E s \in S : f[s] = n - 1
        <3> HIDE DEF f, N
        <3> QED
            BY <1>6, <2>1 DEF Surjection
    <2> QED
        BY <2>2
<1> QED
    BY <1>1, <1>3, <1>7

\* In a finite set of pairs with a number each, all different, every rank is
\* taken.
LEMMA KeysRank ==
    ASSUME NEW K, IsFiniteSet(K), \A p \in K : p[1] \in Int,
           \A p, q \in K : p[1] = q[1] => p = q
    PROVE  /\ \A n \in 1..Cardinality(K) :
                \E p \in K : Cardinality({q \in K : q[1] < p[1]}) = n - 1
           /\ \A p \in K :
                Cardinality({q \in K : q[1] < p[1]}) \in 0..Cardinality(K) - 1
           /\ \A p, r \in K :
                Cardinality({q \in K : q[1] < p[1]}) = Cardinality({q \in K : q[1] < r[1]})
                    => p = r
<1> DEFINE R == {r \in K \X K : r[1][1] < r[2][1]}
<1>1. \A p, q \in K : <<p, q>> \in R <=> p[1] < q[1]
    OBVIOUS
<1>2. TotalOrder(K, R)
    <2> HIDE DEF R
    <2>1. \A p \in K : <<p, p>> \notin R
        BY <1>1
    <2>2. ASSUME NEW p \in K, NEW q \in K, p # q PROVE <<p, q>> \in R \/ <<q, p>> \in R
        <3>1. p[1] \in Int /\ q[1] \in Int /\ p[1] # q[1]
            BY <2>2
        <3>2. p[1] < q[1] \/ q[1] < p[1]
            BY <3>1
        <3> QED
            BY <1>1, <3>2
    <2>3. ASSUME NEW p \in K, NEW q \in K, NEW r \in K, <<p, q>> \in R, <<q, r>> \in R
          PROVE  <<p, r>> \in R
        <3>1. p[1] \in Int /\ q[1] \in Int /\ r[1] \in Int /\ p[1] < q[1] /\ q[1] < r[1]
            BY <1>1, <2>3
        <3>2. p[1] < r[1]
            BY <3>1
        <3> QED
            BY <1>1, <3>2
    <2> QED
        BY <2>1, <2>2, <2>3 DEF TotalOrder
<1>3. ASSUME NEW p \in K PROVE Before(K, R, p) = {q \in K : q[1] < p[1]}
    <2> HIDE DEF R
    <2> QED
        BY <1>1 DEF Before
<1>4. /\ \A n \in 1..Cardinality(K) : \E p \in K : Cardinality(Before(K, R, p)) = n - 1
      /\ \A p \in K : Cardinality(Before(K, R, p)) \in 0..Cardinality(K) - 1
      /\ Cardinality(K) \in Nat
    <2> HIDE DEF R
    <2> QED
        BY <1>2, RanksAreTaken
<1>5. ASSUME NEW p \in K, NEW r \in K, p # r
      PROVE  Cardinality(Before(K, R, p)) # Cardinality(Before(K, R, r))
    <2>1. <<p, r>> \in R \/ <<r, p>> \in R
        <3> HIDE DEF R
        <3> QED
            BY <1>2, <1>5 DEF TotalOrder
    <2>2. \/ Cardinality(Before(K, R, p)) < Cardinality(Before(K, R, r))
          \/ Cardinality(Before(K, R, r)) < Cardinality(Before(K, R, p))
        <3> HIDE DEF R
        <3> QED
            BY <1>2, <2>1, RanksRise
    <2>3. PICK c \in Nat : c = Cardinality(K)
        BY <1>4
    <2>4. PICK a : a = Cardinality(Before(K, R, p))
        OBVIOUS
    <2>5. PICK b : b = Cardinality(Before(K, R, r))
        OBVIOUS
    <2>6. a \in 0..c - 1 /\ b \in 0..c - 1
        BY <1>4, <2>3, <2>4, <2>5
    <2> HIDE DEF R
    <2> QED
        BY <2>2, <2>3, <2>4, <2>5, <2>6
<1> HIDE DEF R
<1> QED
    BY <1>3, <1>4, <1>5

\* The elements of S by a function of keys, as Ordered lists them.
Listing(S, k) ==
    LET keyed == {<<k[x], x>> : x \in S}
        nth(n) == CHOOSE p \in keyed : Cardinality({q \in keyed : q[1] < p[1]}) = n - 1
    IN [n \in 1..Cardinality(S) |-> nth(n)[2]]

\* The list has each element of S.
LEMMA ListingIsWhole ==
    ASSUME NEW S, IsFiniteSet(S), NEW k \in [S -> Int],
           \A x, y \in S : k[x] = k[y] => x = y
    PROVE  /\ Listing(S, k) \in Seq(S) /\ Len(Listing(S, k)) = Cardinality(S)
           /\ Cardinality(S) \in Nat
           /\ \A x \in S : \E n \in 1..Cardinality(S) : Listing(S, k)[n] = x
<1>2. Cardinality(S) \in Nat
    BY FS_CardinalityType
<1> DEFINE K == {<<k[x], x>> : x \in S}
           f == [x \in S |-> <<k[x], x>>]
           before(p) == Cardinality({q \in K : q[1] < p[1]})
           nth(n) == CHOOSE p \in K : Cardinality({q \in K : q[1] < p[1]}) = n - 1
<1>3. f \in Bijection(S, K)
    <2>1. f \in [S -> K]
        OBVIOUS
    <2>2. \A x, y \in S : f[x] = f[y] => x = y
        OBVIOUS
    <2>3. \A p \in K : \E x \in S : f[x] = p
        OBVIOUS
    <2> HIDE DEF f, K
    <2> QED
        BY <2>1, <2>2, <2>3 DEF Bijection, Injection, Surjection, IsInjective
<1>4. IsFiniteSet(K) /\ Cardinality(K) = Cardinality(S)
    <2> HIDE DEF f, K
    <2> QED
        BY <1>2, <1>3, FS_Bijection DEF ExistsBijection
<1>5. (\A p \in K : p[1] \in Int) /\ \A p, q \in K : p[1] = q[1] => p = q
    OBVIOUS
<1>6. ASSUME NEW n \in 1..Cardinality(S) PROVE nth(n) \in K /\ before(nth(n)) = n - 1
    <2>1. PICK c : c = Cardinality(K) /\ n \in 1..c
        BY <1>4
    <2>2. \E p \in K : Cardinality({q \in K : q[1] < p[1]}) = n - 1
        <3> HIDE DEF K
        <3> QED
            BY <1>4, <1>5, <2>1, KeysRank
    <2> HIDE DEF K
    <2> QED
        BY <2>2
<1>7. \A p \in K : p[2] \in S
    OBVIOUS
<1>8. Listing(S, k) = [n \in 1..Cardinality(S) |-> nth(n)[2]]
    BY Zenon DEF Listing
<1>9. Listing(S, k) \in [1..Cardinality(S) -> S]
    <2> HIDE DEF K, nth, before
    <2> QED
        BY <1>6, <1>7, <1>8
<1>10. ASSUME NEW x \in S PROVE \E n \in 1..Cardinality(S) : Listing(S, k)[n] = x
    <2>1. PICK p \in K : p[2] = x
        <3>1. f[x] \in K /\ f[x][2] = x
            OBVIOUS
        <3> HIDE DEF f, K
        <3> QED
            BY <3>1
    <2>2. PICK n : n = before(p) + 1
        OBVIOUS
    <2>3. n \in 1..Cardinality(S) /\ n - 1 = before(p)
        <3>1. before(p) \in 0..Cardinality(K) - 1
            <4> HIDE DEF K
            <4> QED
                BY <1>4, <1>5, KeysRank
        <3> HIDE DEF K, before
        <3> QED
            BY <1>2, <1>4, <2>2, <3>1
    <2>4. nth(n) \in K /\ before(nth(n)) = before(p)
        <3> HIDE DEF K, nth, before
        <3> QED
            BY <1>6, <2>3
    <2>5. nth(n) = p
        <3>1. PICK r : r = nth(n)
            OBVIOUS
        <3> HIDE DEF K, nth
        <3> QED
            BY <1>4, <1>5, <2>4, <3>1, KeysRank
    <2> HIDE DEF K, nth, before
    <2> QED
        BY <1>8, <2>1, <2>3, <2>5
<1> QED
    BY <1>2, <1>9, <1>10

\* V has the elements of S, once each and in the order R.
Sorted(V, S, R) ==
    /\ V \in Seq(S)
    /\ \A s \in S : \E i \in 1..Len(V) : V[i] = s
    /\ \A i, j \in 1..Len(V) : i < j => <<V[i], V[j]>> \in R

\* Who has n - 1 before it is the n-th.
LEMMA RankedIsSorted ==
    ASSUME NEW S, IsFiniteSet(S), NEW R, TotalOrder(S, R), NEW V,
           V = [n \in 1..Cardinality(S) |-> V[n]],
           \A n \in 1..Cardinality(S) :
             V[n] \in S /\ Cardinality(Before(S, R, V[n])) = n - 1
    PROVE  Sorted(V, S, R)
<1>1. PICK c : c = Cardinality(S)
    OBVIOUS
<1>2. /\ c \in Nat
      /\ \A s \in S : Cardinality(Before(S, R, s)) \in 0..c - 1
      /\ \A n \in 1..c : \E s \in S : Cardinality(Before(S, R, s)) = n - 1
    BY <1>1, RanksAreTaken
<1>3. ASSUME NEW n \in 1..c
      PROVE  V[n] \in S /\ Cardinality(Before(S, R, V[n])) = n - 1
    BY <1>1
<1>4. V \in Seq(S) /\ Len(V) = c
    BY <1>1, <1>2, <1>3
<1>5. ASSUME NEW s \in S, NEW t \in S,
             Cardinality(Before(S, R, s)) <= Cardinality(Before(S, R, t)), s # t
      PROVE  <<s, t>> \in R
    <2>1. <<s, t>> \in R \/ <<t, s>> \in R
        BY <1>5 DEF TotalOrder
    <2>2. <<t, s>> \in R => Cardinality(Before(S, R, t)) < Cardinality(Before(S, R, s))
        BY RanksRise
    <2>3. Cardinality(Before(S, R, s)) \in Int /\ Cardinality(Before(S, R, t)) \in Int
        BY <1>2
    <2> QED
        BY <1>5, <2>1, <2>2, <2>3
<1>6. ASSUME NEW s \in S PROVE \E i \in 1..c : V[i] = s
    <2>1. PICK r : r = Cardinality(Before(S, R, s))
        OBVIOUS
    <2>2. r \in 0..c - 1
        BY <1>2, <2>1
    <2>3. PICK m \in 1..c : m - 1 = r
        <3>1. r + 1 \in 1..c /\ (r + 1) - 1 = r
            BY <1>2, <2>2
        <3> QED
            BY <3>1
    <2>4. V[m] \in S /\ Cardinality(Before(S, R, V[m])) = r
        BY <1>3, <2>3
    <2>5. ASSUME V[m] # s PROVE FALSE
        <3>1. r <= r
            BY <2>2
        <3>2. <<V[m], s>> \in R /\ <<s, V[m]>> \in R
            BY <1>5, <2>1, <2>4, <2>5, <3>1
        <3> QED
            BY <2>4, <3>2 DEF TotalOrder
    <2> QED
        BY <2>5
<1>7. ASSUME NEW i \in 1..c, NEW j \in 1..c, i < j PROVE <<V[i], V[j]>> \in R
    <2>1. i - 1 <= j - 1 /\ i - 1 # j - 1
        BY <1>2, <1>7
    <2>2. V[i] # V[j]
        BY <1>3, <2>1
    <2> QED
        BY <1>3, <1>5, <2>1, <2>2
<1> QED
    BY <1>4, <1>6, <1>7 DEF Sorted

-----------------------------------------------------------------------------
(* Folds.                                                                  *)

(* Some of the numbers up to n have a first and a last.                    *)
LEMMA FirstAndLast ==
    ASSUME NEW n \in Nat, NEW I \in SUBSET (0..n), I # {}
    PROVE  /\ Max(I) \in I /\ \A i \in I : i <= Max(I)
           /\ Min(I) \in I /\ \A i \in I : Min(I) <= i
<1> DEFINE Bounded(J) == /\ \E x \in J : \A i \in J : x >= i
                         /\ \E x \in J : \A i \in J : x =< i
           U == {k \in Nat : \A J \in SUBSET (0..k) : J # {} => Bounded(J)}
<1>1. 0 \in U
    <2>1. 0..0 = {0}
        OBVIOUS
    <2>2. \A J \in SUBSET {0} : J # {} => J = {0}
        OBVIOUS
    <2> QED
        BY <2>1, <2>2
<1>2. ASSUME NEW k \in U PROVE k + 1 \in U
    <2> SUFFICES ASSUME NEW J \in SUBSET (0..k + 1), J # {} PROVE Bounded(J)
        OBVIOUS
    <2>1. J \ {k + 1} \in SUBSET (0..k)
        OBVIOUS
    <2>2. \A i \in J : i \in Int /\ i <= k + 1
        OBVIOUS
    <2>3. CASE J \ {k + 1} = {}
        <3>1. \A i \in J : i = k + 1
            BY <2>3
        <3> QED
            BY <2>2, <3>1
    <2>4. CASE J \ {k + 1} # {}
        <3>1. Bounded(J \ {k + 1})
            BY <2>1, <2>4
        <3>2. \E x \in J : \A i \in J : x >= i
            <4>1. CASE k + 1 \in J
                BY <2>2, <4>1
            <4>2. CASE k + 1 \notin J
                BY <3>1, <4>2
            <4> QED
                BY <4>1, <4>2
        <3>3. PICK x \in J \ {k + 1} : \A i \in J \ {k + 1} : x =< i
            BY <3>1
        <3>4. \A i \in J : x =< i
            BY <2>2, <3>3
        <3> QED
            BY <3>2, <3>3, <3>4
    <2> QED
        BY <2>3, <2>4
<1>3. U = Nat
    <2> HIDE DEF U
    <2>1. U \in SUBSET Nat
        BY DEF U
    <2> QED
        BY <1>1, <1>2, <2>1, SetInduction
<1>4. Bounded(I)
    BY <1>3
<1>5. Max(I) \in I /\ \A i \in I : Max(I) >= i
    BY <1>4 DEF Max
<1>6. Min(I) \in I /\ \A i \in I : Min(I) =< i
    BY <1>4 DEF Min
<1>7. \A i \in I : i \in Int
    OBVIOUS
<1> QED
    BY <1>5, <1>6, <1>7

(* g holds the folds over the first elements of s.                         *)
Folding(g, base, s, n) ==
    g = [u \in SUBSET (1..n) |->
           IF u = {} THEN base ELSE Op(g[u \ {Max(u)}], s[Max(u)])]

\* There is such a fold.
LEMMA FoldingExists ==
    ASSUME NEW base, NEW s, NEW n \in Nat
    PROVE  \E g : Folding(g, base, s, n)
<1> DEFINE Good(g, k) == Folding(g, base, s, k)
           U == {k \in Nat : \E g : Good(g, k)}
<1>1. 0 \in U
    <2>1. \A u \in SUBSET (1..0) : u = {}
        OBVIOUS
    <2>2. Good([u \in SUBSET (1..0) |-> base], 0)
        BY <2>1 DEF Folding
    <2> HIDE DEF Good
    <2> QED
        BY <2>2
<1>2. ASSUME NEW k \in U PROVE k + 1 \in U
    <2>1. PICK g : Good(g, k)
        OBVIOUS
    <2> DEFINE h == [u \in SUBSET (1..k + 1) |->
                       IF u \subseteq 1..k THEN g[u]
                       ELSE Op(g[u \ {k + 1}], s[k + 1])]
    <2>2. ASSUME NEW u \in SUBSET (1..k + 1)
          PROVE  h[u] = IF u = {} THEN base
                        ELSE Op(h[u \ {Max(u)}], s[Max(u)])
        <3>1. CASE u \subseteq 1..k
            <4>1. h[u] = g[u] /\ h[u \ {Max(u)}] = g[u \ {Max(u)}]
                BY <3>1
            <4> HIDE DEF h
            <4>2. g[u] = IF u = {} THEN base
                         ELSE Op(g[u \ {Max(u)}], s[Max(u)])
                BY <2>1, <3>1 DEF Folding
            <4> QED
                BY <4>1, <4>2
        <3>2. CASE ~(u \subseteq 1..k)
            <4>1. k + 1 \in u /\ u # {} /\ u \ {k + 1} \subseteq 1..k
                BY <3>2
            <4>2. Max(u) = k + 1
                <5>1. k \in Nat /\ k + 1 \in Nat /\ u \in SUBSET (0..k + 1)
                    BY <1>2
                <5> HIDE DEF h
                <5>2. Max(u) \in u /\ \A i \in u : i <= Max(u)
                    BY <4>1, <5>1, FirstAndLast
                <5>3. Max(u) \in 0..k + 1 /\ k + 1 <= Max(u)
                    BY <4>1, <5>1, <5>2
                <5> QED
                    BY <5>1, <5>3
            <4>3. h[u] = Op(g[u \ {k + 1}], s[k + 1])
                BY <3>2
            <4>4. h[u \ {k + 1}] = g[u \ {k + 1}]
                BY <4>1
            <4> HIDE DEF h
            <4> QED
                BY <4>1, <4>2, <4>3, <4>4
        <3> QED
            BY <3>1, <3>2
    <2>3. h = [u \in SUBSET (1..k + 1) |-> h[u]]
        OBVIOUS
    <2> HIDE DEF h
    <2>4. Good(h, k + 1)
        BY <2>2, <2>3 DEF Folding
    <2> HIDE DEF Good
    <2>5. k + 1 \in Nat /\ \E g2 : Good(g2, k + 1)
        BY <2>4
    <2> QED
        BY <2>5
<1>3. U = Nat
    <2> HIDE DEF U
    <2>1. U \in SUBSET Nat
        BY DEF U
    <2> QED
        BY <1>1, <1>2, <2>1, SetInduction
<1> QED
    BY <1>3

\* The elements of s, folded one after the other.
Folded(base, s) == FoldLeft(Op, base, s)

\* f holds the values under way.
Steps(f, base, s) ==
    /\ f[0] = base
    /\ \A k \in 1..Len(s) : f[k] = Op(f[k - 1], s[k])

\* The fold is a run of those steps, from base to the last element.
LEMMA FoldSteps ==
    ASSUME NEW base, NEW T, NEW s \in Seq(T)
    PROVE  \E f : Steps(f, base, s) /\ Folded(base, s) = f[Len(s)]
<1> DEFINE n == Len(s)
           iter == CHOOSE g : Folding(g, base, s, n)
           f == [k \in 0..n |-> iter[1..k]]
<1>1. n \in Nat /\ DOMAIN s = 1..n
    OBVIOUS
<1>2. iter = [u \in SUBSET (1..n) |->
                IF u = {} THEN base
                ELSE Op(iter[u \ {Max(u)}], s[Max(u)])]
    <2> HIDE DEF n
    <2>1. \E g : Folding(g, base, s, n)
        BY <1>1, FoldingExists
    <2>2. Folding(iter, base, s, n)
        BY <2>1
    <2> QED
        BY <2>2 DEF Folding
<1>3. Folded(base, s) = iter[1..n]
    BY <1>1 DEF Folded, FoldLeft, MapThenFoldSet, Folding
<1> HIDE DEF iter, n
<1>4. f[0] = base /\ f[n] = iter[1..n]
    <2>1. 1..0 = {} /\ {} \in SUBSET (1..n)
        OBVIOUS
    <2>2. iter[{}] = base
        BY <1>2, <2>1
    <2> QED
        BY <1>1, <2>1, <2>2
<1>5. ASSUME NEW k \in 1..n PROVE f[k] = Op(f[k - 1], s[k])
    <2>0. k \in Nat /\ k >= 1 /\ k <= n
        BY <1>1
    <2>a. 1..k \in SUBSET (1..n) /\ 1..k # {}
        BY <1>1, <2>0
    <2>b. (1..k) \ {k} = 1..k - 1
        BY <2>0
    <2>c. k \in 0..n /\ k - 1 \in 0..n
        BY <1>1, <2>0
    <2>2. Max(1..k) = k
        <3>1. Max(1..k) \in 1..k /\ \A i \in 1..k : i <= Max(1..k)
            <4>1. 1..k \in SUBSET (0..k)
                BY <2>0
            <4> QED
                BY <2>0, <2>a, <4>1, FirstAndLast
        <3> QED
            BY <2>0, <3>1
    <2>3. iter[1..k] = Op(iter[(1..k) \ {Max(1..k)}], s[Max(1..k)])
        BY <1>2, <2>a
    <2> QED
        BY <2>b, <2>c, <2>2, <2>3
<1> HIDE DEF f
<1> QED
    <2>1. Steps(f, base, s)
        BY <1>4, <1>5 DEF n, Steps
    <2>2. Folded(base, s) = f[Len(s)]
        BY <1>3, <1>4 DEF n
    <2> QED
        BY <2>1, <2>2

\* Append adds one element.
LEMMA AppendAdds ==
    ASSUME NEW T, NEW q \in Seq(T), NEW x \in T
    PROVE  /\ Append(q, x) \in Seq(T) /\ Len(Append(q, x)) = Len(q) + 1
           /\ Append(q, x)[Len(q) + 1] = x
           /\ \A j \in 1..Len(q) : Append(q, x)[j] = q[j]
           /\ \A y : (\E j \in 1..Len(Append(q, x)) : Append(q, x)[j] = y)
                        <=> (y = x \/ \E j \in 1..Len(q) : q[j] = y)
<1> DEFINE r == Append(q, x)
<1>1. /\ r \in Seq(T) /\ Len(r) = Len(q) + 1 /\ Len(q) \in Nat
      /\ r[Len(q) + 1] = x /\ \A j \in 1..Len(q) : r[j] = q[j]
    OBVIOUS
<1> HIDE DEF r
<1>2. \A j \in 1..Len(r) : j = Len(q) + 1 \/ j \in 1..Len(q)
    BY <1>1
<1>3. Len(q) + 1 \in 1..Len(r) /\ 1..Len(q) \subseteq 1..Len(r)
    BY <1>1
<1>4. ASSUME NEW y, NEW j \in 1..Len(r), r[j] = y
      PROVE  y = x \/ \E i \in 1..Len(q) : q[i] = y
    BY <1>1, <1>2, <1>4
<1>5. ASSUME NEW y, NEW j \in 1..Len(q), q[j] = y
      PROVE  \E i \in 1..Len(r) : r[i] = y
    BY <1>1, <1>3, <1>5
<1>6. \E i \in 1..Len(r) : r[i] = x
    BY <1>1, <1>3
<1> QED
    BY <1>1, <1>4, <1>5, <1>6 DEF r

(* f holds what Among has kept of the first elements of q.                 *)
Keeping(f, q, S, n) ==
    f = [k \in 0..n |->
           IF k = 0 THEN <<>>
           ELSE IF q[k] \in S THEN Append(f[k - 1], q[k]) ELSE f[k - 1]]

\* There is such an f.
LEMMA KeepingExists ==
    ASSUME NEW q, NEW S, NEW n \in Nat
    PROVE  \E f : Keeping(f, q, S, n)
<1> DEFINE Good(f, k) == Keeping(f, q, S, k)
           U == {k \in Nat : \E f : Good(f, k)}
<1>1. 0 \in U
    <2>1. Good([k \in 0..0 |-> <<>>], 0)
        BY DEF Keeping
    <2> HIDE DEF Good
    <2> QED
        BY <2>1
<1>2. ASSUME NEW k \in U PROVE k + 1 \in U
    <2>1. PICK f : Good(f, k)
        OBVIOUS
    <2>2. k \in Nat
        OBVIOUS
    <2> DEFINE h == [i \in 0..k + 1 |->
                       IF i \in 0..k THEN f[i]
                       ELSE IF q[i] \in S THEN Append(f[k], q[i]) ELSE f[k]]
    <2>3. ASSUME NEW i \in 0..k + 1
          PROVE  h[i] = IF i = 0 THEN <<>>
                        ELSE IF q[i] \in S THEN Append(h[i - 1], q[i]) ELSE h[i - 1]
        <3>1. CASE i \in 0..k
            <4>1. h[i] = f[i]
                BY <3>1
            <4>2. i # 0 => i - 1 \in 0..k /\ h[i - 1] = f[i - 1]
                BY <2>2, <3>1
            <4>3. f[i] = IF i = 0 THEN <<>>
                         ELSE IF q[i] \in S THEN Append(f[i - 1], q[i]) ELSE f[i - 1]
                BY <2>1, <3>1 DEF Keeping
            <4> HIDE DEF h, Good
            <4> QED
                BY <4>1, <4>2, <4>3
        <3>2. CASE i \notin 0..k
            <4>1. i = k + 1 /\ i # 0 /\ i - 1 = k /\ k \in 0..k
                BY <2>2, <3>2
            <4>2. h[i] = IF q[i] \in S THEN Append(f[k], q[i]) ELSE f[k]
                BY <3>2
            <4>3. h[k] = f[k]
                BY <2>2
            <4> HIDE DEF h, Good
            <4> QED
                BY <4>1, <4>2, <4>3
        <3> QED
            BY <3>1, <3>2
    <2>4. h = [i \in 0..k + 1 |-> h[i]]
        OBVIOUS
    <2> HIDE DEF h
    <2>5. Good(h, k + 1)
        BY <2>3, <2>4 DEF Keeping
    <2> HIDE DEF Good
    <2> QED
        BY <2>2, <2>5
<1>3. U = Nat
    <2> HIDE DEF U
    <2>1. U \in SUBSET Nat
        BY DEF U
    <2> QED
        BY <1>1, <1>2, <2>1, SetInduction
<1> QED
    BY <1>3

\* Among keeps the elements of S, and all of a sequence of them.
LEMMA AmongKeeps ==
    ASSUME NEW T, NEW q \in Seq(T), NEW S
    PROVE  /\ Among(q, S) \in Seq(T) /\ Len(Among(q, S)) <= Len(q)
           /\ ToSet(Among(q, S)) = ToSet(q) \intersect S
           /\ ToSet(q) \subseteq S => Among(q, S) = q
<1> DEFINE f == CHOOSE g : Keeping(g, q, S, Len(q))
<1>0. Len(q) \in Nat /\ DOMAIN q = 1..Len(q) /\ \A i \in 1..Len(q) : q[i] \in T
    OBVIOUS
<1>1. Keeping(f, q, S, Len(q))
    BY <1>0, KeepingExists, Zenon
<1>2. Among(q, S) = f[Len(q)]
    BY DEF Among, Keeping
<1> HIDE DEF f
<1>3. f[0] = <<>> /\ \A k \in 1..Len(q) :
          f[k] = IF q[k] \in S THEN Append(f[k - 1], q[k]) ELSE f[k - 1]
    <2>1. \A k \in 0..Len(q) :
            f[k] = IF k = 0 THEN <<>>
                   ELSE IF q[k] \in S THEN Append(f[k - 1], q[k]) ELSE f[k - 1]
        BY <1>1 DEF Keeping
    <2>2. 0 \in 0..Len(q) /\ \A k \in 1..Len(q) : k \in 0..Len(q) /\ k # 0
        BY <1>0
    <2> QED
        BY <2>1, <2>2
<1> DEFINE Kept(k) ==
               /\ f[k] \in Seq(T) /\ Len(f[k]) <= k
               /\ \A x : (\E j \in 1..Len(f[k]) : f[k][j] = x)
                           <=> (x \in S /\ \E i \in 1..k : q[i] = x)
               /\ (\A i \in 1..k : q[i] \in S) =>
                     Len(f[k]) = k /\ \A i \in 1..k : f[k][i] = q[i]
           U == {k \in Nat : k <= Len(q) => Kept(k)}
<1>4. 0 \in U
    <2>1. Kept(0)
        BY <1>3
    <2> HIDE DEF Kept
    <2> QED
        BY <2>1
<1>5. ASSUME NEW k \in U PROVE k + 1 \in U
    <2> SUFFICES ASSUME k + 1 <= Len(q) PROVE Kept(k + 1)
        <3> HIDE DEF Kept
        <3> QED
            OBVIOUS
    <2>1. k \in Nat /\ k + 1 \in 1..Len(q) /\ (k + 1) - 1 = k /\ q[k + 1] \in T
        BY <1>0
    <2>2. Kept(k)
        BY <1>0, <2>1
    <2>3. f[k + 1] = IF q[k + 1] \in S THEN Append(f[k], q[k + 1]) ELSE f[k]
        BY <1>3, <2>1
    <2>4. CASE q[k + 1] \in S
        <3>1. f[k + 1] = Append(f[k], q[k + 1]) /\ f[k] \in Seq(T)
            BY <2>2, <2>3, <2>4
        <3>2. f[k + 1] \in Seq(T) /\ Len(f[k + 1]) = Len(f[k]) + 1 /\ Len(f[k]) \in Nat
              /\ f[k + 1][Len(f[k]) + 1] = q[k + 1]
              /\ \A j \in 1..Len(f[k]) : f[k + 1][j] = f[k][j]
            BY <2>1, <3>1
        <3>3. \A x : (\E j \in 1..Len(f[k + 1]) : f[k + 1][j] = x)
                        <=> (x = q[k + 1] \/ \E j \in 1..Len(f[k]) : f[k][j] = x)
            <4> HIDE DEF Kept, U
            <4> QED
                BY <2>1, <3>1, AppendAdds
        <3>4. \A x : (\E i \in 1..k + 1 : q[i] = x)
                        <=> (x = q[k + 1] \/ \E i \in 1..k : q[i] = x)
            BY <2>1
        <3>5. \A x : (\E j \in 1..Len(f[k + 1]) : f[k + 1][j] = x)
                        <=> (x \in S /\ \E i \in 1..k + 1 : q[i] = x)
            BY <2>2, <2>4, <3>3, <3>4
        <3>6. (\A i \in 1..k + 1 : q[i] \in S) =>
                 Len(f[k + 1]) = k + 1 /\ \A i \in 1..k + 1 : f[k + 1][i] = q[i]
            <4> SUFFICES ASSUME \A i \in 1..k + 1 : q[i] \in S
                         PROVE  Len(f[k + 1]) = k + 1 /\ \A i \in 1..k + 1 : f[k + 1][i] = q[i]
                OBVIOUS
            <4>1. \A i \in 1..k : q[i] \in S
                BY <2>1
            <4>2. Len(f[k]) = k /\ \A i \in 1..k : f[k][i] = q[i]
                BY <2>2, <4>1
            <4>3. \A i \in 1..k + 1 : i = k + 1 \/ i \in 1..k
                BY <2>1
            <4> QED
                BY <2>1, <3>2, <4>2, <4>3
        <3>7. Len(f[k + 1]) <= k + 1
            BY <2>1, <2>2, <3>2
        <3> QED
            BY <3>2, <3>5, <3>6, <3>7
    <2>5. CASE q[k + 1] \notin S
        <3>1. f[k + 1] = f[k]
            BY <2>3, <2>5
        <3>2. \A x \in S : (\E i \in 1..k + 1 : q[i] = x) <=> (\E i \in 1..k : q[i] = x)
            BY <2>1, <2>5
        <3>3. ~\A i \in 1..k + 1 : q[i] \in S
            BY <2>1, <2>5
        <3>4. Len(f[k]) \in Nat
            BY <2>2
        <3>5. f[k + 1] \in Seq(T) /\ Len(f[k + 1]) <= k + 1
            BY <2>1, <2>2, <3>1, <3>4
        <3>6. \A x : (\E j \in 1..Len(f[k + 1]) : f[k + 1][j] = x)
                        <=> (x \in S /\ \E i \in 1..k + 1 : q[i] = x)
            BY <2>2, <3>1, <3>2
        <3> QED
            BY <3>3, <3>5, <3>6
    <2> QED
        BY <2>4, <2>5
<1>6. U = Nat
    <2> HIDE DEF U
    <2>1. U \in SUBSET Nat
        BY DEF U
    <2> QED
        BY <1>4, <1>5, <2>1, SetInduction
<1>7. Kept(Len(q))
    BY <1>0, <1>6
<1>8. ToSet(Among(q, S)) = ToSet(q) \intersect S
    <2>1. DOMAIN Among(q, S) = 1..Len(Among(q, S))
        BY <1>2, <1>7
    <2>2. ToSet(Among(q, S)) = {Among(q, S)[i] : i \in 1..Len(Among(q, S))}
          /\ ToSet(q) = {q[i] : i \in 1..Len(q)}
        BY <1>0, <2>1 DEF ToSet
    <2> HIDE DEF U
    <2> QED
        BY <1>2, <1>7, <2>2
<1>9. ToSet(q) \subseteq S => Among(q, S) = q
    <2> SUFFICES ASSUME ToSet(q) \subseteq S PROVE Among(q, S) = q
        OBVIOUS
    <2>1. \A i \in 1..Len(q) : q[i] \in S
        BY <1>0 DEF ToSet
    <2>2. /\ f[Len(q)] \in Seq(T) /\ Len(f[Len(q)]) = Len(q)
          /\ \A i \in 1..Len(q) : f[Len(q)][i] = q[i]
        BY <1>7, <2>1
    <2> HIDE DEF U
    <2> QED
        BY <1>2, <2>2
<1> QED
    BY <1>2, <1>7, <1>8, <1>9
=============================================================================
