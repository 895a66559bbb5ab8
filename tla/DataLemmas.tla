----------------------------- MODULE DataLemmas -----------------------------
(***************************************************************************)
(* What the proofs of several components need to know of their data: sums  *)
(* over finite sets and what a filter keeps of a sequence.  Both are       *)
(* recursive, so each has lemmas that unfold it once; they rest on the     *)
(* least element of a set of naturals, a set of counterexamples.           *)
(***************************************************************************)
EXTENDS Integers, Functions, FiniteSetsExt, Filters, WellFoundedInduction, FiniteSetTheorems, TLAPS

-----------------------------------------------------------------------------
(* Induction, over sets. *)

LEMMA Least ==
  ASSUME NEW T \in SUBSET Nat, T # {}
  PROVE  \E x \in T : \A y \in T : x <= y
  <1> DEFINE R == {ss \in Nat \X Nat : ss[1] < ss[2]}
  <1>1. IsWellFoundedOn(R, Nat)
    BY NatLessThanWellFounded DEF OpToRel
  <1>2. \A x, y \in Nat : <<y, x>> \in R <=> y < x
    OBVIOUS
  <1> HIDE DEF R
  <1>3. PICK x \in T : \A y \in T : ~(<<y, x>> \in R)
    BY <1>1, WFMin
  <1>4. \A y \in T : x \in Nat /\ y \in Nat /\ ~(y < x)
    BY <1>2, <1>3
  <1>5. \A y \in T : x <= y
    BY <1>4
  <1> QED BY <1>3, <1>5

LEMMA Naturals ==
  ASSUME NEW S, 0 \in S, \A n \in Nat : n \in S => n + 1 \in S
  PROVE  \A n \in Nat : n \in S
  <1> SUFFICES ASSUME Nat \ S # {} PROVE FALSE
    OBVIOUS
  <1>1. PICK m \in Nat \ S : \A y \in Nat \ S : m <= y
    BY Least
  <1>2. m # 0 /\ m - 1 \in Nat /\ ~(m <= m - 1)
    OBVIOUS
  <1>3. m - 1 \in S
    BY <1>1, <1>2
  <1>4. (m - 1) + 1 \in S
    BY <1>2, <1>3
  <1> QED BY <1>4

LEMMA Without ==
  ASSUME NEW S, IsFiniteSet(S), NEW x \in S, NEW n \in Nat
  PROVE  Cardinality(S) = n + 1 => Cardinality(S \ {x}) = n
  <1> DEFINE a == Cardinality(S)
             b == Cardinality(S \ {x})
  <1>1. b = a - 1 /\ a \in Nat
    BY FS_RemoveElement, FS_CardinalityType
  <1>2. a = n + 1 => b = n
    <2> HIDE DEF a, b
    <2> QED BY <1>1
  <1> QED BY <1>2

LEMMA FiniteSubsets ==
  ASSUME NEW U, IsFiniteSet(U), NEW P, {} \in P,
         \A T \in SUBSET U : \A x \in U \ T : T \in P => T \cup {x} \in P
  PROVE  U \in P
  <1> DEFINE S == {n \in Nat : \A T \in SUBSET U : Cardinality(T) = n => T \in P}
  <1>1. 0 \in S
    BY FS_EmptySet, FS_Subset
  <1>2. ASSUME NEW n \in Nat, n \in S PROVE n + 1 \in S
    <2> SUFFICES ASSUME NEW T \in SUBSET U, Cardinality(T) = n + 1 PROVE T \in P
      OBVIOUS
    <2>1. IsFiniteSet(T)
      BY FS_Subset
    <2>2. PICK x \in T : TRUE
      BY <2>1, FS_EmptySet
    <2>3. Cardinality(T \ {x}) = n
      BY <2>1, Without
    <2>4. T \ {x} \in P /\ (T \ {x}) \cup {x} = T
      BY <1>2, <2>3
    <2> QED BY <2>4
  <1> HIDE DEF S
  <1>3. \A n \in Nat : n \in S
    BY <1>1, <1>2, Naturals
  <1>4. Cardinality(U) \in S
    BY <1>3, FS_CardinalityType
  <1> QED BY <1>4 DEF S

-----------------------------------------------------------------------------
(* Sums. *)

Sum(f, S) == SumFunctionOnSet(f, S)
Pick1(s) == CHOOSE x \in s : TRUE
SumsAre(f, S, g) ==
  g = [s \in SUBSET S |-> IF s = {} THEN 0 ELSE f[Pick1(s)] + g[s \ {Pick1(s)}]]

LEMMA SumIs ==
  ASSUME NEW f, NEW S
  PROVE  Sum(f, S) = (CHOOSE g : SumsAre(f, S, g))[S]
  BY DEF Sum, SumFunctionOnSet, FoldFunctionOnSet, MapThenFoldSet, Pick1, SumsAre

LEMMA SumsExist ==
  ASSUME NEW f, NEW S, IsFiniteSet(S)
  PROVE  \E g : SumsAre(f, S, g)
  <1> DEFINE After(g, s) == IF s = {} THEN 0 ELSE f[Pick1(s)] + g[s \ {Pick1(s)}]
             Up(n) == {s \in SUBSET S : Cardinality(s) <= n}
             Has(n) == \E g : \A s \in Up(n) : g[s] = After(g, s)
             Have == {n \in Nat : Has(n)}
  <1>0. \A s \in SUBSET S : /\ IsFiniteSet(s) /\ Cardinality(s) \in Nat
                            /\ s # {} => /\ s \ {Pick1(s)} \in SUBSET S
                                         /\ Cardinality(s \ {Pick1(s)}) = Cardinality(s) - 1
    <2> TAKE s \in SUBSET S
    <2>1. IsFiniteSet(s) /\ Cardinality(s) \in Nat
      BY FS_Subset, FS_CardinalityType
    <2>2. s # {} => Pick1(s) \in s
      BY DEF Pick1
    <2> QED BY <2>1, <2>2, FS_RemoveElement
  <1>1. 0 \in Have
    <2> DEFINE g == [s \in SUBSET S |-> 0]
    <2>1. ASSUME NEW s \in Up(0) PROVE s = {}
      <3>1. IsFiniteSet(s) /\ Cardinality(s) \in Nat /\ Cardinality(s) <= 0
        BY <1>0
      <3>2. Cardinality(s) = 0
        BY <3>1
      <3> QED BY <3>1, <3>2, FS_EmptySet
    <2>2. \A s \in Up(0) : g[s] = After(g, s)
      BY <2>1
    <2> QED BY <2>2
  <1>2. ASSUME NEW n \in Nat, n \in Have PROVE n + 1 \in Have
    <2>1. PICK g : \A s \in Up(n) : g[s] = After(g, s)
      BY <1>2
    <2> DEFINE h == [s \in SUBSET S |-> IF Cardinality(s) <= n THEN g[s] ELSE After(g, s)]
    <2>2. ASSUME NEW s \in Up(n + 1) PROVE h[s] = After(h, s)
      <3>1. CASE s = {}
        <4>1. s \in Up(n)
          BY <3>1, FS_EmptySet
        <4> QED BY <2>1, <3>1, <4>1
      <3>2. CASE s # {}
        <4> DEFINE t == s \ {Pick1(s)}
        <4>1. t \in SUBSET S /\ Cardinality(t) <= n /\ h[t] = g[t]
          BY <1>0, <3>2
        <4>2. h[s] = After(g, s)
          BY <1>0, <2>1
        <4> QED BY <3>2, <4>1, <4>2
      <3> QED BY <3>1, <3>2
    <2> HIDE DEF h
    <2>3. \A s \in Up(n + 1) : h[s] = After(h, s)
      BY <2>2
    <2>4. Has(n + 1)
      BY <2>3
    <2> HIDE DEF Has
    <2> QED BY <2>4
  <1> HIDE DEF Have
  <1>3. Cardinality(S) \in Have
    BY <1>1, <1>2, Naturals, FS_CardinalityType
  <1>4. PICK g : \A s \in Up(Cardinality(S)) : g[s] = After(g, s)
    BY <1>3 DEF Have
  <1> DEFINE h == [s \in SUBSET S |-> g[s]]
  <1>5. \A s \in SUBSET S : s \in Up(Cardinality(S))
    BY FS_Subset
  <1>6. ASSUME NEW s \in SUBSET S PROVE h[s] = After(h, s)
    BY <1>0, <1>4, <1>5
  <1>7. h = [s \in SUBSET S |-> After(h, s)]
    BY <1>6
  <1> QED BY <1>7 DEF SumsAre

\* A sum does not depend on the set it is part of.
LEMMA SumsAgree ==
  ASSUME NEW f, NEW S, IsFiniteSet(S), NEW R \in SUBSET S, NEW g, NEW h,
         SumsAre(f, S, g), SumsAre(f, R, h)
  PROVE  g[R] = h[R]
  <1> DEFINE Have == {n \in Nat : \A s \in SUBSET R : Cardinality(s) = n => g[s] = h[s]}
  <1>0. \A s \in SUBSET R : /\ IsFiniteSet(s) /\ Cardinality(s) \in Nat
                            /\ Cardinality(s) = 0 => s = {}
                            /\ s # {} => /\ s \ {Pick1(s)} \in SUBSET R
                                         /\ Cardinality(s \ {Pick1(s)}) = Cardinality(s) - 1
    <2> TAKE s \in SUBSET R
    <2>1. IsFiniteSet(s) /\ Cardinality(s) \in Nat
      BY FS_Subset, FS_CardinalityType
    <2>2. s # {} => Pick1(s) \in s
      BY DEF Pick1
    <2> QED BY <2>1, <2>2, FS_RemoveElement, FS_EmptySet
  <1>1. 0 \in Have
    BY <1>0 DEF SumsAre
  <1>2. ASSUME NEW n \in Nat, n \in Have PROVE n + 1 \in Have
    <2> SUFFICES ASSUME NEW s \in SUBSET R, Cardinality(s) = n + 1 PROVE g[s] = h[s]
      OBVIOUS
    <2>1. s # {}
      BY FS_EmptySet
    <2> DEFINE t == s \ {Pick1(s)}
    <2>2. t \in SUBSET R /\ Cardinality(t) = n
      BY <1>0, <2>1
    <2>3. g[t] = h[t]
      BY <1>2, <2>2
    <2>4. g[s] = f[Pick1(s)] + g[t]
      BY <2>1 DEF SumsAre
    <2>5. h[s] = f[Pick1(s)] + h[t]
      BY <2>1 DEF SumsAre
    <2> QED BY <2>3, <2>4, <2>5
  <1> HIDE DEF Have
  <1>3. IsFiniteSet(R) /\ Cardinality(R) \in Have
    BY <1>1, <1>2, Naturals, FS_CardinalityType, FS_Subset
  <1> QED BY <1>3 DEF Have

LEMMA SumUnfolds ==
  ASSUME NEW f, NEW S, IsFiniteSet(S)
  PROVE  Sum(f, S) = IF S = {} THEN 0 ELSE f[Pick1(S)] + Sum(f, S \ {Pick1(S)})
  <1> DEFINE g == CHOOSE g : SumsAre(f, S, g)
  <1>1. SumsAre(f, S, g) /\ Sum(f, S) = g[S]
    BY SumsExist, SumIs
  <1>2. g[S] = IF S = {} THEN 0 ELSE f[Pick1(S)] + g[S \ {Pick1(S)}]
    BY <1>1 DEF SumsAre
  <1> DEFINE R == S \ {Pick1(S)}
             h == CHOOSE h : SumsAre(f, R, h)
  <1>3. IsFiniteSet(R) /\ R \in SUBSET S
    BY FS_Subset
  <1>4. SumsAre(f, R, h) /\ Sum(f, R) = h[R]
    BY <1>3, SumsExist, SumIs
  <1> HIDE DEF g, h
  <1>5. g[R] = h[R]
    BY <1>1, <1>3, <1>4, SumsAgree
  <1> QED BY <1>1, <1>2, <1>4, <1>5

LEMMA SumType ==
  ASSUME NEW f, NEW S, IsFiniteSet(S), \A x \in S : f[x] \in Int
  PROVE  Sum(f, S) \in Int
  <1> DEFINE Have == {n \in Nat : \A T \in SUBSET S : Cardinality(T) = n => Sum(f, T) \in Int}
  <1>0. Sum(f, {}) = 0
    BY SumUnfolds, FS_EmptySet
  <1>1. 0 \in Have
    <2> SUFFICES ASSUME NEW T \in SUBSET S, Cardinality(T) = 0 PROVE Sum(f, T) \in Int
      OBVIOUS
    <2>1. IsFiniteSet(T)
      BY FS_Subset
    <2>2. T = {}
      BY <2>1, FS_EmptySet
    <2> QED BY <1>0, <2>2
  <1>2. ASSUME NEW n \in Nat, n \in Have PROVE n + 1 \in Have
    <2> SUFFICES ASSUME NEW T \in SUBSET S, Cardinality(T) = n + 1 PROVE Sum(f, T) \in Int
      OBVIOUS
    <2>1. IsFiniteSet(T)
      BY FS_Subset
    <2>2. T # {}
      BY FS_EmptySet
    <2> DEFINE p == Pick1(T)
               R == T \ {p}
    <2>3. p \in T
      BY <2>2 DEF Pick1
    <2>4. Cardinality(R) = n /\ R \in SUBSET S
      BY <2>1, <2>3, Without
    <2>5. Sum(f, R) \in Int /\ f[p] \in Int
      BY <1>2, <2>3, <2>4
    <2>6. Sum(f, T) = f[p] + Sum(f, R)
      BY <2>1, <2>2, SumUnfolds
    <2> HIDE DEF p, R
    <2> QED BY <2>5, <2>6
  <1> HIDE DEF Have
  <1>3. Cardinality(S) \in Have
    BY <1>1, <1>2, Naturals, FS_CardinalityType
  <1> QED BY <1>3 DEF Have

\* A sum may begin with any element.
LEMMA SumOfAny ==
  ASSUME NEW f, NEW S, IsFiniteSet(S), \A x \in S : f[x] \in Int, NEW a \in S
  PROVE  Sum(f, S) = f[a] + Sum(f, S \ {a})
  <1> DEFINE Have == {n \in Nat : \A T \in SUBSET S : \A x \in T :
                         Cardinality(T) = n => Sum(f, T) = f[x] + Sum(f, T \ {x})}
  <1>1. 0 \in Have
    <2> SUFFICES ASSUME NEW T \in SUBSET S, NEW x \in T, Cardinality(T) = 0 PROVE FALSE
      OBVIOUS
    <2>1. IsFiniteSet(T)
      BY FS_Subset
    <2> QED BY <2>1, FS_EmptySet
  <1>2. ASSUME NEW n \in Nat, n \in Have PROVE n + 1 \in Have
    <2> SUFFICES ASSUME NEW T \in SUBSET S, NEW x \in T, Cardinality(T) = n + 1
                 PROVE  Sum(f, T) = f[x] + Sum(f, T \ {x})
      OBVIOUS
    <2> DEFINE p == Pick1(T)
    <2>1. IsFiniteSet(T) /\ p \in T
      BY FS_Subset DEF Pick1
    <2>2. Sum(f, T) = f[p] + Sum(f, T \ {p})
      BY <2>1, SumUnfolds
    <2>3. CASE x # p
      <3> HIDE DEF p
      <3> DEFINE U == T \ {x}
                 V == T \ {p}
                 W == U \ {p}
      <3>0. /\ W = V \ {x} /\ W \in SUBSET S /\ U \in SUBSET S /\ V \in SUBSET S
            /\ p \in U /\ x \in V
        BY <2>1, <2>3
      <3>5. Cardinality(U) = n /\ Cardinality(V) = n /\ IsFiniteSet(W)
        BY <2>1, <3>0, Without, FS_Subset
      <3>1. IsFiniteSet(W) /\ W = V \ {x} /\ W \in SUBSET S
            /\ Cardinality(U) = n /\ Cardinality(V) = n /\ U \in SUBSET S /\ V \in SUBSET S
            /\ p \in U /\ x \in V
        BY <3>0, <3>5
      <3>2. Sum(f, U) = f[p] + Sum(f, W)
        BY <1>2, <3>1
      <3>3. Sum(f, V) = f[x] + Sum(f, W)
        BY <1>2, <3>1
      <3>4. Sum(f, W) \in Int /\ f[p] \in Int /\ f[x] \in Int
        BY <2>1, <3>1, SumType
      <3> QED BY <2>2, <3>2, <3>3, <3>4
    <2> QED BY <2>2, <2>3
  <1> HIDE DEF Have
  <1>3. Cardinality(S) \in Have
    BY <1>1, <1>2, Naturals, FS_CardinalityType
  <1> QED BY <1>3 DEF Have

LEMMA SumAdds ==
  ASSUME NEW f, NEW S, IsFiniteSet(S), \A x \in S : f[x] \in Int,
         NEW a, a \notin S, f[a] \in Int
  PROVE  Sum(f, S \cup {a}) = Sum(f, S) + f[a]
  <1>1. IsFiniteSet(S \cup {a}) /\ (S \cup {a}) \ {a} = S /\ Sum(f, S) \in Int
    BY FS_AddElement, SumType
  <1>2. Sum(f, S \cup {a}) = f[a] + Sum(f, (S \cup {a}) \ {a})
    BY <1>1, SumOfAny
  <1> DEFINE b == Sum(f, S)
  <1>3. Sum(f, S \cup {a}) = f[a] + b /\ b \in Int
    BY <1>1, <1>2
  <1> HIDE DEF b
  <1>4. f[a] + b = b + f[a]
    BY <1>3
  <1> QED BY <1>3, <1>4 DEF b

LEMMA SumOfNone ==
  ASSUME NEW f
  PROVE  Sum(f, {}) = 0
  BY SumUnfolds, FS_EmptySet

\* Two sums, element by element.
LEMMA SumLess ==
  ASSUME NEW S, IsFiniteSet(S), NEW f, NEW g,
         \A x \in S : f[x] \in Int /\ g[x] \in Int /\ f[x] <= g[x]
  PROVE  Sum(f, S) <= Sum(g, S)
  <1> DEFINE P == {T \in SUBSET S : Sum(f, T) <= Sum(g, T)}
  <1>1. {} \in P
    BY SumOfNone
  <1>2. ASSUME NEW T \in SUBSET S, NEW x \in S \ T, T \in P PROVE T \cup {x} \in P
    <2>1. IsFiniteSet(T)
      BY FS_Subset
    <2>2. Sum(f, T \cup {x}) = Sum(f, T) + f[x] /\ Sum(g, T \cup {x}) = Sum(g, T) + g[x]
      BY <2>1, SumAdds
    <2>3. Sum(f, T) \in Int /\ Sum(g, T) \in Int
      BY <2>1, SumType
    <2> QED BY <1>2, <2>2, <2>3
  <1> HIDE DEF P
  <1>3. S \in P
    BY <1>1, <1>2, FiniteSubsets
  <1> QED BY <1>3 DEF P

LEMMA SumEquals ==
  ASSUME NEW S, IsFiniteSet(S), NEW f, NEW g, \A x \in S : f[x] \in Int /\ f[x] = g[x]
  PROVE  Sum(f, S) = Sum(g, S)
  <1>1. Sum(f, S) <= Sum(g, S)
    BY SumLess
  <1>2. Sum(g, S) <= Sum(f, S)
    BY SumLess
  <1>3. Sum(f, S) \in Int /\ Sum(g, S) \in Int
    BY SumType
  <1> QED BY <1>1, <1>2, <1>3

LEMMA SumOfZeros ==
  ASSUME NEW S, IsFiniteSet(S), NEW f, \A x \in S : f[x] = 0
  PROVE  Sum(f, S) = 0
  <1> DEFINE P == {T \in SUBSET S : Sum(f, T) = 0}
  <1>1. {} \in P
    BY SumOfNone
  <1>2. ASSUME NEW T \in SUBSET S, NEW x \in S \ T, T \in P PROVE T \cup {x} \in P
    <2>1. IsFiniteSet(T) /\ f[x] = 0 /\ \A y \in T : f[y] \in Int
      BY FS_Subset
    <2>2. Sum(f, T \cup {x}) = Sum(f, T) + f[x]
      BY <2>1, SumAdds
    <2> QED BY <1>2, <2>1, <2>2
  <1> HIDE DEF P
  <1>3. S \in P
    BY <1>1, <1>2, FiniteSubsets
  <1> QED BY <1>3 DEF P

\* A sum of which one element changed.
LEMMA SumChanges ==
  ASSUME NEW S, IsFiniteSet(S), NEW a \in S, NEW f, NEW g,
         \A x \in S : f[x] \in Int /\ g[x] \in Int /\ (x # a => g[x] = f[x])
  PROVE  Sum(g, S) = Sum(f, S) - f[a] + g[a]
  <1> DEFINE R == S \ {a}
             c == Sum(f, R)
  <1>1. IsFiniteSet(R) /\ \A x \in R : g[x] \in Int /\ g[x] = f[x]
    BY FS_RemoveElement
  <1>2. Sum(g, R) = c
    <2> HIDE DEF R
    <2>1. \A x \in R : f[x] \in Int /\ f[x] = g[x]
      BY <1>1
    <2> QED BY <1>1, <2>1, SumEquals
  <1>3. c \in Int
    <2>1. \A x \in R : f[x] \in Int
      OBVIOUS
    <2> QED BY <1>1, <2>1, SumType
  <1>4. Sum(f, S) = f[a] + c
    BY SumOfAny
  <1>5. Sum(g, S) = g[a] + c
    BY <1>2, SumOfAny
  <1>6. f[a] \in Int /\ g[a] \in Int
    OBVIOUS
  <1> HIDE DEF c
  <1>7. g[a] + c = (f[a] + c) - f[a] + g[a]
    BY <1>3, <1>6
  <1> QED BY <1>4, <1>5, <1>7

\* Fewer elements, none of them negative.
LEMMA SumOfFewer ==
  ASSUME NEW S, IsFiniteSet(S), NEW f, \A x \in S : f[x] \in Nat, NEW R \in SUBSET S
  PROVE  Sum(f, R) \in Nat /\ Sum(f, R) <= Sum(f, S)
  <1> DEFINE P == {T \in SUBSET S : Sum(f, T \cap R) \in Nat /\ Sum(f, T \cap R) <= Sum(f, T)}
  <1>1. {} \in P
    BY SumOfNone
  <1>2. ASSUME NEW T \in SUBSET S, NEW x \in S \ T, T \in P PROVE T \cup {x} \in P
    <2> DEFINE U == T \cap R
    <2>1. IsFiniteSet(T) /\ IsFiniteSet(U) /\ U \in SUBSET S
      BY FS_Subset
    <2>2. Sum(f, T \cup {x}) = Sum(f, T) + f[x]
      BY <2>1, SumAdds
    <2>3. (T \cup {x}) \cap R = IF x \in R THEN U \cup {x} ELSE U
      OBVIOUS
    <2>0. x \notin U /\ f[x] \in Int /\ \A y \in U : f[y] \in Int
      OBVIOUS
    <2>4. Sum(f, U \cup {x}) = Sum(f, U) + f[x]
      <3> HIDE DEF U
      <3> QED BY <2>0, <2>1, SumAdds
    <2>5. Sum(f, T) \in Int /\ f[x] \in Nat /\ Sum(f, U) \in Nat /\ Sum(f, U) <= Sum(f, T)
      BY <1>2, <2>1, SumType
    <2> HIDE DEF U
    <2> DEFINE a == Sum(f, U)
               b == Sum(f, T)
               V == (T \cup {x}) \cap R
    <2>6. Sum(f, V) \in {a, a + f[x]}
      BY <2>3, <2>4
    <2>7. Sum(f, V) \in Nat /\ Sum(f, V) <= b + f[x]
      <3> HIDE DEF a, b, V
      <3> QED BY <2>5, <2>6 DEF a, b
    <2> QED BY <2>2, <2>7
  <1> HIDE DEF P
  <1>3. S \in P
    BY <1>1, <1>2, FiniteSubsets
  <1>4. S \cap R = R
    OBVIOUS
  <1> QED BY <1>3, <1>4 DEF P

\* A sum with a bound for each element.
LEMMA SumWithin ==
  ASSUME NEW S, IsFiniteSet(S), NEW f, NEW m \in Nat, \A x \in S : f[x] \in Nat /\ f[x] <= m
  PROVE  Sum(f, S) <= Cardinality(S) * m
  <1> DEFINE P == {T \in SUBSET S : Sum(f, T) <= Cardinality(T) * m}
  <1>1. {} \in P
    BY SumOfNone, FS_EmptySet
  <1>2. ASSUME NEW T \in SUBSET S, NEW x \in S \ T, T \in P PROVE T \cup {x} \in P
    <2>1. IsFiniteSet(T) /\ Cardinality(T) \in Nat
      BY FS_Subset, FS_CardinalityType
    <2>2. Sum(f, T \cup {x}) = Sum(f, T) + f[x] /\ Sum(f, T) \in Int
      BY <2>1, SumAdds, SumType
    <2>3. Cardinality(T \cup {x}) = Cardinality(T) + 1
      BY <2>1, FS_AddElement
    <2>4. (Cardinality(T) + 1) * m = Cardinality(T) * m + m /\ Cardinality(T) * m \in Int
      BY <2>1
    <2> DEFINE cm == Cardinality(T) * m
    <2>5. Sum(f, T) <= cm /\ Cardinality(T \cup {x}) * m = cm + m /\ cm \in Int
      BY <1>2, <2>3, <2>4
    <2> HIDE DEF cm
    <2>6. f[x] \in Nat /\ f[x] <= m
      OBVIOUS
    <2>7. Sum(f, T \cup {x}) <= cm + m
      BY <2>2, <2>5, <2>6
    <2> QED BY <2>5, <2>7
  <1> HIDE DEF P
  <1>3. S \in P
    BY <1>1, <1>2, FiniteSubsets
  <1> QED BY <1>3 DEF P

\* The sum of a sequence is that of its tail and its head.
LEMMA SumShifts ==
  ASSUME NEW n \in Nat, NEW f, NEW g, \A i \in 1..n + 1 : f[i] \in Int,
         \A i \in 1..n : g[i] = f[i + 1]
  PROVE  Sum(f, 1..n + 1) = f[1] + Sum(g, 1..n)
  <1> DEFINE Have == {k \in Nat : k <= n => Sum(f, 1..k + 1) = f[1] + Sum(g, 1..k)}
  <1>1. 0 \in Have
    <2>1. 1..0 + 1 = {} \cup {1} /\ 1..0 = {}
      OBVIOUS
    <2>2. Sum(f, {} \cup {1}) = Sum(f, {}) + f[1]
      BY FS_EmptySet, SumAdds
    <2> QED BY <2>1, <2>2, SumOfNone
  <1>2. ASSUME NEW k \in Nat, k \in Have PROVE k + 1 \in Have
    <2> SUFFICES ASSUME k + 1 <= n PROVE Sum(f, 1..(k + 1) + 1) = f[1] + Sum(g, 1..k + 1)
      OBVIOUS
    <2>1. Sum(f, 1..k + 1) = f[1] + Sum(g, 1..k)
      BY <1>2
    <2> DEFINE A == 1..k
               B == 1..k + 1
    <2>2. 1..(k + 1) + 1 = B \cup {k + 2} /\ k + 2 \notin B
      OBVIOUS
    <2>3. B = A \cup {k + 1} /\ k + 1 \notin A
      OBVIOUS
    <2>4. IsFiniteSet(A) /\ IsFiniteSet(B)
      BY FS_Interval
    <2>5. (\A i \in B : f[i] \in Int) /\ f[k + 2] \in Int
      OBVIOUS
    <2>6. \A i \in A : i \in 1..n /\ i + 1 \in 1..n + 1
      OBVIOUS
    <2>7. \A i \in A : g[i] \in Int
      BY <2>6
    <2>8. k + 1 \in 1..n /\ (k + 1) + 1 = k + 2
      OBVIOUS
    <2>9. g[k + 1] = f[k + 2] /\ g[k + 1] \in Int /\ f[1] \in Int
      BY <2>5, <2>8
    <2> HIDE DEF A, B
    <2> DEFINE a == Sum(f, B)
               b == Sum(g, A)
    <2>10. Sum(f, B \cup {k + 2}) = a + f[k + 2]
      BY <2>2, <2>4, <2>5, SumAdds
    <2>11. Sum(g, A \cup {k + 1}) = b + g[k + 1]
      BY <2>3, <2>4, <2>7, <2>9, SumAdds
    <2>12. a \in Int /\ b \in Int
      BY <2>4, <2>5, <2>7, SumType
    <2>13. a = f[1] + b
      BY <2>1 DEF A, B
    <2>14. a + f[k + 2] = f[1] + (b + g[k + 1])
      <3> HIDE DEF a, b
      <3> QED BY <2>5, <2>9, <2>12, <2>13
    <2> QED BY <2>2, <2>3, <2>10, <2>11, <2>14 DEF A, B
  <1> HIDE DEF Have
  <1>3. n \in Have
    BY <1>1, <1>2, Naturals
  <1> QED BY <1>3 DEF Have

LEMMA IntervalIs ==
  ASSUME NEW n \in Nat
  PROVE  IsFiniteSet(1..n) /\ Cardinality(1..n) = n
  <1>1. 1 \in Int /\ n \in Int
    OBVIOUS
  <1>2. IsFiniteSet(1..n) /\ Cardinality(1..n) = IF 1 > n THEN 0 ELSE n - 1 + 1
    BY <1>1, FS_Interval
  <1>3. (IF 1 > n THEN 0 ELSE n - 1 + 1) = n
    OBVIOUS
  <1> QED BY <1>2, <1>3

LEMMA ProductGrows ==
  ASSUME NEW a \in Nat, NEW b \in Nat, NEW m \in Nat, a <= b
  PROVE  a * m <= b * m /\ a * m \in Nat /\ b * m \in Nat
  <1> DEFINE S == {k \in Nat : a * m <= (a + k) * m}
  <1>1. 0 \in S
    OBVIOUS
  <1>2. ASSUME NEW k \in Nat, k \in S PROVE k + 1 \in S
    <2> DEFINE x == (a + k) * m
    <2>1. (a + (k + 1)) * m = x + m /\ x \in Int /\ a * m <= x /\ a * m \in Int
      BY <1>2
    <2> HIDE DEF x
    <2>2. a * m <= x + m
      BY <2>1
    <2> QED BY <2>1, <2>2
  <1> HIDE DEF S
  <1>3. b - a \in S
    BY <1>1, <1>2, Naturals
  <1>4. a + (b - a) = b
    OBVIOUS
  <1> QED BY <1>3, <1>4 DEF S

\* The greatest of finitely many numbers.
LEMMA MaxIs ==
  ASSUME NEW S \in SUBSET Int, IsFiniteSet(S), S # {}
  PROVE  Max(S) \in S /\ \A y \in S : y <= Max(S)
  <1> DEFINE P == {T \in SUBSET S : T = {} \/ \E x \in T : \A y \in T : y <= x}
  <1>1. {} \in P
    OBVIOUS
  <1>2. ASSUME NEW T \in SUBSET S, NEW x \in S \ T, T \in P PROVE T \cup {x} \in P
    <2>1. CASE T = {}
      BY <2>1
    <2>2. CASE T # {}
      <3>1. PICK z \in T : \A y \in T : y <= z
        BY <1>2, <2>2
      <3>2. CASE z <= x
        BY <3>1, <3>2
      <3>3. CASE ~(z <= x)
        BY <3>1, <3>3
      <3> QED BY <3>2, <3>3
    <2> QED BY <2>1, <2>2
  <1> HIDE DEF P
  <1>3. S \in P
    BY <1>1, <1>2, FiniteSubsets
  <1>4. \E x \in S : \A y \in S : x >= y
    BY <1>3 DEF P
  <1> QED BY <1>4 DEF Max

-----------------------------------------------------------------------------
(* What a filter keeps: where each element was, and that none is missing.   *)

KeptAre(s, S, kept) ==
  kept = [i \in 0..Len(s) |->
            IF i = 0 THEN <<>>
            ELSE IF s[i] \in S THEN Append(kept[i - 1], s[i]) ELSE kept[i - 1]]

\* r is what is kept of the first n of s, p where it was.
Places(s, S, n, r, p) ==
  /\ p \in [1..Len(r) -> 1..n]
  /\ \A i, j \in 1..Len(r) : i < j => p[i] < p[j]
  /\ \A j \in 1..Len(r) : r[j] = s[p[j]] /\ s[p[j]] \in S
  /\ \A m \in 1..n : s[m] \in S => \E j \in 1..Len(r) : p[j] = m

LEMMA FilteredIs ==
  ASSUME NEW s, NEW S
  PROVE  Filtered(s, S) = (CHOOSE kept : KeptAre(s, S, kept))[Len(s)]
  BY DEF Filtered, KeptAre

LEMMA KeptExist ==
  ASSUME NEW s, Len(s) \in Nat, NEW S
  PROVE  \E kept : KeptAre(s, S, kept)
  <1> DEFINE Next1(k, i) ==
               IF i = 0 THEN <<>>
               ELSE IF s[i] \in S THEN Append(k[i - 1], s[i]) ELSE k[i - 1]
             Has(n) == \E k : \A i \in 0..n : k[i] = Next1(k, i)
             Have == {n \in Nat : Has(n)}
  <1>1. 0 \in Have
    <2> DEFINE k == [i \in 0..0 |-> <<>>]
    <2>1. \A i \in 0..0 : k[i] = Next1(k, i)
      OBVIOUS
    <2>2. Has(0)
      BY <2>1
    <2> QED BY <2>2
  <1>2. ASSUME NEW n \in Nat, n \in Have PROVE n + 1 \in Have
    <2>1. PICK k : \A i \in 0..n : k[i] = Next1(k, i)
      BY <1>2
    <2> DEFINE h == [i \in 0..n + 1 |-> IF i <= n THEN k[i] ELSE Next1(k, i)]
    <2>2. ASSUME NEW i \in 0..n + 1 PROVE h[i] = Next1(h, i)
      <3>1. CASE i = 0
        BY <2>1, <3>1
      <3>2. CASE i # 0
        <4>1. i - 1 \in 0..n /\ h[i - 1] = k[i - 1]
          BY <3>2
        <4>2. h[i] = Next1(k, i)
          BY <2>1
        <4> QED BY <3>2, <4>1, <4>2
      <3> QED BY <3>1, <3>2
    <2> HIDE DEF h
    <2>3. \A i \in 0..n + 1 : h[i] = Next1(h, i)
      BY <2>2
    <2>4. Has(n + 1)
      BY <2>3
    <2> HIDE DEF Has
    <2> QED BY <2>4
  <1> HIDE DEF Have
  <1>3. Len(s) \in Have
    BY <1>1, <1>2, Naturals
  <1>4. PICK k : \A i \in 0..Len(s) : k[i] = Next1(k, i)
    BY <1>3 DEF Have
  <1> DEFINE h == [i \in 0..Len(s) |-> k[i]]
  <1>5. ASSUME NEW i \in 0..Len(s) PROVE h[i] = Next1(h, i)
    <2>1. i # 0 => i - 1 \in 0..Len(s) /\ h[i - 1] = k[i - 1]
      OBVIOUS
    <2> QED BY <1>4, <2>1
  <1>6. h = [i \in 0..Len(s) |-> Next1(h, i)]
    BY <1>5
  <1> QED BY <1>6 DEF KeptAre

LEMMA FilteredPlaces ==
  ASSUME NEW T, NEW s \in Seq(T), NEW S
  PROVE  Filtered(s, S) \in Seq(T) /\ \E p : Places(s, S, Len(s), Filtered(s, S), p)
  <1> DEFINE k == CHOOSE kept : KeptAre(s, S, kept)
             n == Len(s)
             Good(i) == k[i] \in Seq(T) /\ \E p : Places(s, S, i, k[i], p)
             Have == {i \in Nat : i <= n => Good(i)}
  <1>0. n \in Nat
    OBVIOUS
  <1>1. KeptAre(s, S, k) /\ Filtered(s, S) = k[n]
    BY <1>0, KeptExist, FilteredIs
  <1>2. k[0] = <<>> /\ \A i \in 0..n : i # 0 =>
          k[i] = IF s[i] \in S THEN Append(k[i - 1], s[i]) ELSE k[i - 1]
    <2> HIDE DEF k
    <2> DEFINE next(i) == IF i = 0 THEN <<>>
                          ELSE IF s[i] \in S THEN Append(k[i - 1], s[i]) ELSE k[i - 1]
    <2>1. k = [i \in 0..n |-> next(i)]
      BY <1>1 DEF KeptAre
    <2> HIDE DEF next
    <2>2. \A i \in 0..n : k[i] = next(i)
      BY <2>1
    <2>3. 0 \in 0..n
      BY <1>0
    <2> QED BY <2>2, <2>3 DEF next
  <1> HIDE DEF k
  <1>3. 0 \in Have
    <2> DEFINE p == [j \in 1..0 |-> 0]
    <2>1. Len(<<>>) = 0 /\ <<>> \in Seq(T) /\ 1..0 = {}
      OBVIOUS
    <2>2. Places(s, S, 0, <<>>, p)
      BY <2>1 DEF Places
    <2>3. Good(0)
      BY <1>2, <2>1, <2>2
    <2> HIDE DEF Good
    <2> QED BY <2>3
  <1>4. ASSUME NEW i \in Nat, i \in Have PROVE i + 1 \in Have
    <2> SUFFICES ASSUME i + 1 <= n PROVE Good(i + 1)
      OBVIOUS
    <2>1. i + 1 \in 0..n /\ i + 1 \in 1..n /\ (i + 1) - 1 = i /\ i + 1 # 0 /\ i <= n
      BY <1>0
    <2>2. PICK p : Places(s, S, i, k[i], p)
      BY <1>4, <2>1
    <2> DEFINE r == k[i]
               t == k[i + 1]
               l == Len(r)
    <2>3. r \in Seq(T) /\ l \in Nat /\ s[i + 1] \in T
      BY <1>4, <2>1
    <2>4. t = IF s[i + 1] \in S THEN Append(r, s[i + 1]) ELSE r
      BY <1>2, <2>1
    <2> HIDE DEF r, t
    <2>5. /\ p \in [1..l -> 1..i]
          /\ \A a, b \in 1..l : a < b => p[a] < p[b]
          /\ \A j \in 1..l : r[j] = s[p[j]] /\ s[p[j]] \in S
          /\ \A m \in 1..i : s[m] \in S => \E j \in 1..l : p[j] = m
      BY <2>2 DEF Places, r
    <2>6. CASE s[i + 1] \notin S
      <3>1. t = r
        BY <2>4, <2>6
      <3>2. p \in [1..l -> 1..i + 1]
        BY <2>5
      <3>3. \A m \in 1..i + 1 : s[m] \in S => m \in 1..i
        BY <2>6
      <3>4. Places(s, S, i + 1, t, p)
        BY <2>5, <3>1, <3>2, <3>3 DEF Places
      <3> QED BY <2>3, <3>1, <3>4 DEF t
    <2>7. CASE s[i + 1] \in S
      <3> DEFINE q == [j \in 1..l + 1 |-> IF j <= l THEN p[j] ELSE i + 1]
      <3>1. /\ t \in Seq(T) /\ Len(t) = l + 1 /\ t[l + 1] = s[i + 1]
            /\ \A j \in 1..l : t[j] = r[j]
        BY <2>3, <2>4, <2>7
      <3>2. \A j \in 1..l + 1 : j \in 1..l \/ j = l + 1
        BY <2>3
      <3>3. /\ q[l + 1] = i + 1 /\ l + 1 \in 1..l + 1
            /\ \A j \in 1..l : q[j] = p[j] /\ j \in 1..l + 1 /\ p[j] \in 1..i
        BY <2>3, <2>5
      <3>4. q \in [1..l + 1 -> 1..i + 1]
        BY <2>5, <3>2, <3>3
      <3> HIDE DEF q
      <3>5. ASSUME NEW a \in 1..l + 1, NEW b \in 1..l + 1, a < b PROVE q[a] < q[b]
        <4>1. a \in 1..l
          BY <2>3, <3>5
        <4>2. CASE b \in 1..l
          BY <2>5, <3>3, <3>5, <4>1, <4>2
        <4>3. CASE b = l + 1
          <5>1. p[a] \in 1..i /\ q[a] = p[a] /\ q[b] = i + 1
            BY <3>3, <4>1, <4>3
          <5> QED BY <5>1
        <4> QED BY <3>2, <4>2, <4>3
      <3>6. ASSUME NEW j \in 1..l + 1 PROVE t[j] = s[q[j]] /\ s[q[j]] \in S
        BY <2>5, <2>7, <3>1, <3>2, <3>3
      <3>7. ASSUME NEW m \in 1..i + 1, s[m] \in S PROVE \E j \in 1..l + 1 : q[j] = m
        <4>1. CASE m = i + 1
          BY <3>3, <4>1
        <4>2. CASE m # i + 1
          <5>1. m \in 1..i
            BY <4>2
          <5>2. PICK j \in 1..l : p[j] = m
            BY <2>5, <3>7, <5>1
          <5> QED BY <3>3, <5>2
        <4> QED BY <4>1, <4>2
      <3>8. Places(s, S, i + 1, t, q)
        BY <3>1, <3>4, <3>5, <3>6, <3>7 DEF Places
      <3> QED BY <3>1, <3>8 DEF t
    <2> QED BY <2>6, <2>7
  <1> HIDE DEF Have
  <1>5. n \in Have
    BY <1>0, <1>3, <1>4, Naturals
  <1> QED BY <1>0, <1>1, <1>5 DEF Have

\* What is wanted of s is its elements from lo to hi.
IsRun(s, S, lo, hi) ==
  /\ lo >= 1 /\ lo <= hi + 1 /\ hi <= Len(s)
  /\ \A m \in 1..Len(s) : s[m] \in S <=> lo <= m /\ m <= hi

\* What is kept is a run of the sequence when what is wanted is one.
LEMMA FilteredRun ==
  ASSUME NEW T, NEW s \in Seq(T), NEW S, NEW lo \in Nat, NEW hi \in Nat, IsRun(s, S, lo, hi)
  PROVE  /\ Filtered(s, S) \in Seq(T) /\ Len(Filtered(s, S)) = hi - lo + 1
         /\ \A j \in 1..hi - lo + 1 : Filtered(s, S)[j] = s[lo + j - 1]
  <1> DEFINE r == Filtered(s, S)
             l == Len(r)
             n == Len(s)
  <1>0. /\ lo >= 1 /\ lo <= hi + 1 /\ hi <= Len(s)
        /\ \A m \in 1..Len(s) : s[m] \in S <=> lo <= m /\ m <= hi
    BY DEF IsRun
  <1> USE <1>0
  <1>1. PICK p : Places(s, S, n, r, p)
    BY FilteredPlaces
  <1>2. r \in Seq(T)
    BY FilteredPlaces
  <1> HIDE DEF r
  <1>3. l \in Nat /\ n \in Nat
    BY <1>2
  <1>4. /\ \A j \in 1..l : p[j] \in 1..n /\ lo <= p[j] /\ p[j] <= hi /\ r[j] = s[p[j]]
        /\ \A i, j \in 1..l : i < j => p[i] < p[j]
        /\ \A m \in lo..hi : \E j \in 1..l : p[j] = m
    <2>1. \A m \in lo..hi : m \in 1..n /\ s[m] \in S
      BY <1>3
    <2> QED BY <1>1, <2>1 DEF Places
  <1> HIDE DEF l
  <1> DEFINE Have == {j \in Nat : j + 1 <= l => p[j + 1] = lo + j}
  <1>5. 0 \in Have
    <2> SUFFICES ASSUME 1 <= l PROVE p[1] = lo
      BY <1>3
    <2>1. 1 \in 1..l /\ p[1] \in lo..hi /\ lo \in lo..hi
      BY <1>3, <1>4
    <2>2. PICK j \in 1..l : p[j] = lo
      BY <1>4, <2>1
    <2>3. j = 1 \/ p[1] < p[j]
      BY <1>4, <2>1
    <2> QED BY <2>1, <2>2, <2>3
  <1>6. ASSUME NEW j \in Nat, j \in Have PROVE j + 1 \in Have
    <2> SUFFICES ASSUME (j + 1) + 1 <= l PROVE p[(j + 1) + 1] = lo + (j + 1)
      OBVIOUS
    <2> DEFINE a == j + 1
               b == (j + 1) + 1
    <2>1. a \in 1..l /\ b \in 1..l /\ a < b /\ p[a] = lo + j
      BY <1>3, <1>6
    <2>2. p[a] < p[b] /\ p[b] \in lo..hi
      BY <1>3, <1>4, <2>1
    <2>3. lo + a \in lo..hi
      BY <2>1, <2>2
    <2>4. PICK i \in 1..l : p[i] = lo + a
      BY <1>4, <2>3
    <2>5. i > a
      <3>1. ~(i < a) /\ i # a
        <4>1. i < a => p[i] < p[a]
          BY <1>4, <2>1
        <4> QED BY <2>1, <2>4, <4>1
      <3> QED BY <2>1, <3>1
    <2>6. i = b \/ i > b
      BY <2>1, <2>5
    <2>7. i > b => p[b] < p[i]
      BY <1>4, <2>1
    <2> QED BY <2>1, <2>2, <2>4, <2>6, <2>7
  <1> HIDE DEF Have
  <1>7. ASSUME NEW j \in 1..l PROVE p[j] = lo + j - 1
    <2>1. j - 1 \in Have /\ (j - 1) + 1 = j /\ j <= l
      BY <1>3, <1>5, <1>6, Naturals
    <2>2. p[j] = lo + (j - 1)
      BY <2>1 DEF Have
    <2> QED BY <2>2
  <1>8. l = hi - lo + 1
    <2>1. CASE lo = hi + 1
      <3>1. l = 0
        <4> SUFFICES ASSUME l # 0 PROVE FALSE
          OBVIOUS
        <4>1. 1 \in 1..l
          BY <1>3
        <4>2. p[1] \in 1..n /\ lo <= p[1] /\ p[1] <= hi
          BY <1>4, <4>1
        <4> QED BY <2>1, <4>2
      <3> QED BY <2>1, <3>1
    <2>2. CASE lo # hi + 1
      <3>1. hi \in lo..hi
        BY <2>2
      <3>2. PICK j \in 1..l : p[j] = hi
        BY <1>4, <3>1
      <3>3. hi = lo + j - 1
        BY <1>7, <3>2
      <3>4. l \in 1..l
        BY <1>3
      <3>5. p[l] = lo + l - 1 /\ p[l] <= hi
        BY <1>4, <1>7, <3>4
      <3> QED BY <1>3, <3>2, <3>3, <3>5
    <2> QED BY <2>1, <2>2
  <1>9. ASSUME NEW j \in 1..hi - lo + 1 PROVE r[j] = s[lo + j - 1]
    BY <1>4, <1>7, <1>8
  <1> QED BY <1>2, <1>8, <1>9 DEF r, l

=============================================================================
