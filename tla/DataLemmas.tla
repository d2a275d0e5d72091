------------------------------ MODULE DataLemmas ------------------------------
(***************************************************************************)
(* Induction and recursion over finite sets and sequences, stated about    *)
(* sets where the library's theorems have a predicate for a parameter, and *)
(* what they say of the folds that the models of leveldb are written with. *)
(***************************************************************************)
EXTENDS Integers, Sequences, SequencesExt, FiniteSetsExt, FiniteSetTheorems,
        SequenceTheorems, TLAPS

-----------------------------------------------------------------------------
(* Induction. *)

LEMMA LeastOf ==
    ASSUME NEW T \in SUBSET Nat, T # {}
    PROVE  \E n \in T : \A m \in T : n <= m
<1>1. \E n \in T : \A m \in T : ~(<<m, n>> \in OpToRel(<, Nat))
  BY NatLessThanWellFounded, WFMin
<1>2. \A m, n \in Nat : ~(<<m, n>> \in OpToRel(<, Nat)) => n <= m
  BY DEF OpToRel
<1> QED
  BY <1>1, <1>2

(* A set of numbers that has 0 and with each number the next has them all. *)
LEMMA NumberInduction ==
    ASSUME NEW S, 0 \in S, \A n \in Nat : n \in S => n + 1 \in S
    PROVE  \A n \in Nat : n \in S
<1> SUFFICES ASSUME Nat \ S # {} PROVE FALSE
  OBVIOUS
<1>1. PICK n \in Nat \ S : \A m \in Nat \ S : n <= m
  BY LeastOf
<1>2. n - 1 \in Nat /\ n - 1 \in S
  BY <1>1
<1> QED
  BY <1>1, <1>2

(* The same up to a bound. *)
LEMMA BoundedInduction ==
    ASSUME NEW N \in Nat, NEW S, 0 \in S, \A n \in 1..N : n - 1 \in S => n \in S
    PROVE  \A n \in 0..N : n \in S
<1> DEFINE T == {n \in Nat : n > N \/ n \in S}
<1>1. \A n \in Nat : n \in T => n + 1 \in T
  <2> SUFFICES ASSUME NEW n \in Nat, n \in T, n + 1 <= N PROVE n + 1 \in S
    OBVIOUS
  <2> QED
    OBVIOUS
<1>2. 0 \in T
  OBVIOUS
<1> HIDE DEF T
<1>3. \A n \in Nat : n \in T
  BY <1>1, <1>2, NumberInduction
<1> QED
  BY <1>3 DEF T

(* A set of subsets that has each set whose proper subsets it has. *)
LEMMA SubsetInduction ==
    ASSUME NEW D, IsFiniteSet(D), NEW Q,
           \A T \in SUBSET D : (\A U \in SUBSET T : U # T => U \in Q) => T \in Q
    PROVE  \A T \in SUBSET D : T \in Q
<1> SUFFICES ASSUME NEW T0 \in (SUBSET D) \ Q PROVE FALSE
  OBVIOUS
<1> DEFINE Sizes == {Cardinality(T) : T \in (SUBSET D) \ Q}
<1>1. \A T \in SUBSET D : IsFiniteSet(T) /\ Cardinality(T) \in Nat
  BY FS_Subset, FS_CardinalityType
<1>2. Sizes \in SUBSET Nat /\ Sizes # {}
  BY <1>1
<1>3. PICK n \in Sizes : \A m \in Sizes : n <= m
  <2> HIDE DEF Sizes
  <2> QED
    BY <1>2, LeastOf
<1>4. PICK T \in (SUBSET D) \ Q : n = Cardinality(T)
  OBVIOUS
<1>5. ASSUME NEW U \in SUBSET T, U # T, U \notin Q
      PROVE  FALSE
  <2>1. U \in (SUBSET D) \ Q
    BY <1>5
  <2>2. Cardinality(T) <= Cardinality(U)
    BY <1>3, <1>4, <2>1
  <2>3. Cardinality(U) <= Cardinality(T) /\ (Cardinality(T) = Cardinality(U) => T = U)
    BY <1>1, FS_Subset
  <2>4. Cardinality(U) \in Nat /\ Cardinality(T) \in Nat
    BY <1>1, <2>1
  <2> HIDE DEF Sizes
  <2> QED
    BY <1>5, <2>2, <2>3, <2>4
<1> QED
  BY <1>5

-----------------------------------------------------------------------------
(* Recursion.  f is defined on the subsets of T by what G makes of an      *)
(* element, the one m takes, and of f on the others.                       *)
Recurses(f, T, b, G, m) ==
    f = [s \in SUBSET T |-> IF s = {} THEN b ELSE G[<<m[s], f[s \ {m[s]}]>>]]

LEMMA RecursionUnique ==
    ASSUME NEW D, IsFiniteSet(D), NEW b, NEW G, NEW m,
           \A s \in SUBSET D : s # {} => m[s] \in s,
           NEW T \in SUBSET D, NEW U \in SUBSET D, NEW f, NEW g,
           Recurses(f, T, b, G, m), Recurses(g, U, b, G, m)
    PROVE  \A s \in SUBSET (T \cap U) : f[s] = g[s]
<1>1. PICK B : B = T \cap U
  OBVIOUS
<1> DEFINE Q == {s \in SUBSET B : f[s] = g[s]}
<1>2. ASSUME NEW s \in SUBSET B, \A r \in SUBSET s : r # s => r \in Q
      PROVE  s \in Q
  <2>1. CASE s = {}
    BY <1>1, <2>1 DEF Recurses
  <2>2. CASE s # {}
    <3>1. m[s] \in s
      BY <1>1, <2>2
    <3>2. f[s \ {m[s]}] = g[s \ {m[s]}]
      BY <1>2, <3>1
    <3>3. f[s] = G[<<m[s], f[s \ {m[s]}]>>]
      BY <1>1, <2>2 DEF Recurses
    <3>4. g[s] = G[<<m[s], g[s \ {m[s]}]>>]
      BY <1>1, <2>2 DEF Recurses
    <3> QED
      BY <3>2, <3>3, <3>4
  <2> QED
    BY <2>1, <2>2
<1>3. IsFiniteSet(B)
  BY <1>1, FS_Subset
<1> HIDE DEF Q
<1>4. \A s \in SUBSET B : s \in Q
  BY <1>2, <1>3, SubsetInduction
<1> QED
  BY <1>1, <1>4 DEF Q

LEMMA Recursion ==
    ASSUME NEW D, IsFiniteSet(D), NEW X, NEW b \in X, NEW G \in [D \X X -> X], NEW m,
           \A s \in SUBSET D : s # {} => m[s] \in s
    PROVE  \E f \in [SUBSET D -> X] : Recurses(f, D, b, G, m)
<1> DEFINE Q == {T \in SUBSET D : \E f \in [SUBSET T -> X] : Recurses(f, T, b, G, m)}
<1>1. ASSUME NEW T \in SUBSET D, \A U \in SUBSET T : U # T => U \in Q
      PROVE  \E f \in [SUBSET T -> X] : Recurses(f, T, b, G, m)
  <2>1. CASE T = {}
    <3> DEFINE f == [s \in SUBSET T |-> b]
    <3>1. f \in [SUBSET T -> X]
      OBVIOUS
    <3>2. Recurses(f, T, b, G, m)
      BY <2>1 DEF Recurses
    <3> QED
      BY <3>1, <3>2
  <2>2. CASE T # {}
    <3> DEFINE F(U) == CHOOSE f \in [SUBSET U -> X] : Recurses(f, U, b, G, m)
               V == [s \in SUBSET T |-> F(s)[s]]
               last == G[<<m[T], V[T \ {m[T]}]>>]
               f == [s \in SUBSET T |-> IF s = T THEN last ELSE V[s]]
    <3>1. \A U \in SUBSET T : U # T => F(U) \in [SUBSET U -> X] /\ Recurses(F(U), U, b, G, m)
      BY <1>1
    <3>2. \A s \in SUBSET T : s # T => V[s] \in X
      BY <3>1
    <3>3. m[T] \in T /\ T \ {m[T]} \in SUBSET T /\ T \ {m[T]} # T
      BY <2>2
    <3>4. last \in X
      BY <3>2, <3>3
    <3>5. f \in [SUBSET T -> X]
      BY <3>2, <3>4
    <3>6. ASSUME NEW s \in SUBSET T, s # T
          PROVE  V[s] = IF s = {} THEN b ELSE G[<<m[s], V[s \ {m[s]}]>>]
      <4>1. Recurses(F(s), s, b, G, m)
        BY <3>1, <3>6
      <4>2. CASE s = {}
        BY <4>1, <4>2 DEF Recurses
      <4>3. CASE s # {}
        <5> DEFINE r == s \ {m[s]}
        <5>1. m[s] \in s /\ r \in SUBSET T /\ r # T /\ r \in SUBSET s
          BY <4>3
        <5>2. Recurses(F(r), r, b, G, m)
          BY <3>1, <5>1
        <5>3. V[r] = F(r)[r] /\ V[s] = F(s)[s]
          BY <5>1
        <5> HIDE DEF F, V
        <5>4. F(s)[r] = F(r)[r]
          BY <4>1, <5>1, <5>2, RecursionUnique
        <5>5. F(s)[s] = G[<<m[s], F(s)[r]>>]
          BY <4>1, <4>3 DEF Recurses
        <5> QED
          BY <4>3, <5>3, <5>4, <5>5
      <4> QED
        BY <4>2, <4>3
    <3>7. \A s \in SUBSET T : f[s] = IF s = {} THEN b ELSE G[<<m[s], f[s \ {m[s]}]>>]
      <4> SUFFICES ASSUME NEW s \in SUBSET T
                   PROVE  f[s] = IF s = {} THEN b ELSE G[<<m[s], f[s \ {m[s]}]>>]
        OBVIOUS
      <4> HIDE DEF V
      <4>1. CASE s = T
        BY <2>2, <3>3, <4>1
      <4>2. CASE s # T
        <5>1. s \ {m[s]} \in SUBSET T /\ s \ {m[s]} # T
          BY <4>2
        <5>2. f[s] = V[s] /\ f[s \ {m[s]}] = V[s \ {m[s]}]
          BY <4>2, <5>1
        <5> HIDE DEF f
        <5> QED
          BY <3>6, <4>2, <5>2
      <4> QED
        BY <4>1, <4>2
    <3> HIDE DEF f
    <3>8. Recurses(f, T, b, G, m)
      BY <3>5, <3>7 DEF Recurses
    <3> QED
      BY <3>5, <3>8
  <2> QED
    BY <2>1, <2>2
<1>2. \A T \in SUBSET D : (\A U \in SUBSET T : U # T => U \in Q) => T \in Q
  BY <1>1
<1> HIDE DEF Q
<1>3. D \in Q
  BY <1>2, SubsetInduction
<1> QED
  BY <1>3 DEF Q

-----------------------------------------------------------------------------
(* A fold over a sequence takes the greatest of its indices last.  Step by *)
(* step: f[1..i] is what is left of b after the first i elements.          *)

LEMMA MaxOfPrefix ==
    ASSUME NEW i \in Nat, i > 0
    PROVE  Max(1..i) = i /\ (1..i) \ {i} = 1..(i - 1)
<1>1. i \in 1..i /\ \A j \in 1..i : i >= j
  OBVIOUS
<1>2. \A x \in 1..i : (\A j \in 1..i : x >= j) => x = i
  OBVIOUS
<1> QED
  BY <1>1, <1>2 DEF Max

LEMMA MaxIsElement ==
    ASSUME NEW n \in Nat, NEW s \in SUBSET (1..n), s # {}
    PROVE  Max(s) \in s
<1> DEFINE T == {n - x : x \in s}
<1>1. T \in SUBSET Nat /\ T # {}
  <2>1. \A x \in s : n - x \in Nat
    OBVIOUS
  <2> QED
    BY <2>1
<1> HIDE DEF T
<1>2. PICK d \in T : \A e \in T : d <= e
  BY <1>1, LeastOf
<1>3. PICK x \in s : d = n - x
  BY <1>2 DEF T
<1>4. ASSUME NEW y \in s PROVE x >= y
  <2>1. n - y \in T
    BY DEF T
  <2>2. n - x <= n - y
    BY <1>2, <1>3, <2>1
  <2>3. x \in Int /\ y \in Int
    OBVIOUS
  <2> QED
    BY <2>2, <2>3
<1> QED
  BY <1>4 DEF Max

Unfolds(f, n, b, G) ==
    \A s \in SUBSET (1..n) : f[s] = IF s = {} THEN b ELSE G[<<Max(s), f[s \ {Max(s)}]>>]

LEMMA PrefixRecursion ==
    ASSUME NEW n \in Nat, NEW X, NEW b \in X, NEW G \in [(1..n) \X X -> X]
    PROVE  \E f \in [SUBSET (1..n) -> X] : Unfolds(f, n, b, G)
<1> DEFINE m == [s \in SUBSET (1..n) |-> Max(s)]
<1>1. \A s \in SUBSET (1..n) : s # {} => m[s] \in s
  BY MaxIsElement
<1>2. IsFiniteSet(1..n)
  BY FS_Interval
<1> HIDE DEF m
<1>3. PICK f \in [SUBSET (1..n) -> X] : Recurses(f, 1..n, b, G, m)
  BY <1>1, <1>2, Recursion
<1>4. \A s \in SUBSET (1..n) : m[s] = Max(s)
  BY DEF m
<1>5. Unfolds(f, n, b, G)
  BY <1>3, <1>4 DEF Recurses, Unfolds
<1> QED
  BY <1>5

(* The steps of a function on the sets of indices that unfolds that way,   *)
(* as long as what it has so far is in X.                                  *)
UnfoldsIn(f, n, X, b, G) ==
    /\ f[{}] = b
    /\ \A s \in SUBSET (1..n) : s # {} /\ f[s \ {Max(s)}] \in X => f[s] = G[<<Max(s), f[s \ {Max(s)}]>>]

InSteps(f, n, X, b, G) ==
    \E h \in [0..n -> X] :
        h[0] = b /\ h[n] = f[1..n] /\ \A i \in 1..n : h[i] = G[<<i, h[i - 1]>>]

LEMMA PrefixSteps ==
    ASSUME NEW n \in Nat, NEW X, NEW b \in X, NEW G \in [(1..n) \X X -> X], NEW f,
           UnfoldsIn(f, n, X, b, G)
    PROVE  InSteps(f, n, X, b, G)
<1> DEFINE h == [i \in 0..n |-> f[1..i]]
           Q == {i \in 0..n : h[i] \in X}
<1>1. h[0] = b /\ h[n] = f[1..n]
  <2>1. 1..0 = {} /\ 0 \in 0..n /\ n \in 0..n
    OBVIOUS
  <2>2. f[1..0] = b
    BY <2>1 DEF UnfoldsIn
  <2> QED
    BY <2>1, <2>2
<1>2. ASSUME NEW i \in 1..n, h[i - 1] \in X
      PROVE  h[i] = G[<<i, h[i - 1]>>]
  <2>1. Max(1..i) = i /\ (1..i) \ {i} = 1..(i - 1)
    BY MaxOfPrefix
  <2>2. (1..i) \in SUBSET (1..n) /\ 1..i # {}
    OBVIOUS
  <2>3. i \in 0..n /\ i - 1 \in 0..n
    OBVIOUS
  <2>4. f[1..i] = G[<<i, f[1..(i - 1)]>>]
    BY <1>2, <2>1, <2>2, <2>3 DEF UnfoldsIn
  <2> QED
    BY <2>3, <2>4
<1> HIDE DEF h
<1>3. 0 \in Q
  BY <1>1
<1>4. \A i \in 1..n : i - 1 \in Q => i \in Q
  <2> SUFFICES ASSUME NEW i \in 1..n, i - 1 \in Q PROVE i \in Q
    OBVIOUS
  <2>1. h[i - 1] \in X
    OBVIOUS
  <2>2. h[i] \in X
    BY <1>2, <2>1
  <2>3. i \in 0..n
    OBVIOUS
  <2> QED
    BY <2>2, <2>3
<1> HIDE DEF Q
<1>5. \A i \in 0..n : i \in Q
  BY <1>3, <1>4, BoundedInduction
<1>6. h \in [0..n -> X]
  BY <1>5 DEF Q, h
<1>7. \A i \in 1..n : i - 1 \in 0..n
  OBVIOUS
<1>8. \A i \in 1..n : h[i] = G[<<i, h[i - 1]>>]
  BY <1>2, <1>6, <1>7
<1> QED
  BY <1>1, <1>6, <1>8 DEF InSteps

-----------------------------------------------------------------------------
(* The sequences the models keep: a list without one of its elements, and  *)
(* a set in some order.                                                    *)

LEMMA WithoutIndex ==
    ASSUME NEW S, NEW s \in Seq(S), NEW i \in 1..Len(s)
    PROVE  /\ RemoveAt(s, i) \in Seq(S)
           /\ Len(RemoveAt(s, i)) = Len(s) - 1
           /\ \A j \in 1..(Len(s) - 1) :
                 RemoveAt(s, i)[j] = IF j < i THEN s[j] ELSE s[j + 1]
<1> DEFINE a == SubSeq(s, 1, i - 1)
           z == SubSeq(s, i + 1, Len(s))
<1>1. a \in Seq(S) /\ Len(a) = i - 1 /\ \A j \in 1..(i - 1) : a[j] = s[j]
  OBVIOUS
<1>2. z \in Seq(S) /\ Len(z) = Len(s) - i /\ \A j \in 1..(Len(s) - i) : z[j] = s[i + j]
  OBVIOUS
<1>3. Len(s) \in Nat /\ i \in Nat
  OBVIOUS
<1> HIDE DEF a, z
<1>4. a \o z \in Seq(S) /\ Len(a \o z) = Len(s) - 1
  BY <1>1, <1>2, <1>3
<1>5. ASSUME NEW j \in 1..(Len(s) - 1)
      PROVE  (a \o z)[j] = IF j < i THEN s[j] ELSE s[j + 1]
  <2>1. CASE j < i
    BY <1>1, <1>2, <1>3, <2>1
  <2>2. CASE ~(j < i)
    <3>1. (a \o z)[j] = z[j - Len(a)]
      BY <1>1, <1>2, <1>3, <2>2
    <3>2. j - Len(a) \in 1..(Len(s) - i) /\ i + (j - Len(a)) = j + 1
      BY <1>1, <1>3, <2>2
    <3> QED
      BY <1>2, <2>2, <3>1, <3>2
  <2> QED
    BY <2>1, <2>2
<1>6. RemoveAt(s, i) = a \o z
  BY DEF RemoveAt, a, z
<1> QED
  BY <1>4, <1>5, <1>6

LEMMA WithoutFirst ==
    ASSUME NEW S, NEW s \in Seq(S), NEW e, IsInjective(s)
    PROVE  /\ RemoveFirst(s, e) \in Seq(S)
           /\ IsInjective(RemoveFirst(s, e))
           /\ ToSet(RemoveFirst(s, e)) = ToSet(s) \ {e}
<1>1. CASE ~\E i \in 1..Len(s) : s[i] = e
  BY <1>1 DEF RemoveFirst, ToSet
<1>2. CASE \E i \in 1..Len(s) : s[i] = e
  <2> DEFINE I == {i \in 1..Len(s) : s[i] = e}
             n == Min(I)
             t == RemoveAt(s, n)
  <2>1. I \in SUBSET Nat /\ I # {}
    BY <1>2
  <2>2. n \in I
    <3> HIDE DEF I
    <3>1. \E x \in I : \A y \in I : x <= y
      BY <2>1, LeastOf
    <3> QED
      BY <3>1 DEF Min
  <2>3. RemoveFirst(s, e) = t
    BY <1>2, <2>1 DEF RemoveFirst, SelectInSeq
  <2> HIDE DEF n
  <2>4. n \in 1..Len(s) /\ s[n] = e
    BY <2>2
  <2>5. /\ t \in Seq(S) /\ Len(t) = Len(s) - 1
        /\ \A j \in 1..(Len(s) - 1) : t[j] = IF j < n THEN s[j] ELSE s[j + 1]
    BY <2>4, WithoutIndex
  <2> HIDE DEF t
  <2>6. DOMAIN s = 1..Len(s) /\ DOMAIN t = 1..(Len(s) - 1) /\ Len(s) \in Nat
    BY <2>5
  <2>7. IsInjective(t)
    <3> SUFFICES ASSUME NEW j \in 1..(Len(s) - 1), NEW k \in 1..(Len(s) - 1), t[j] = t[k]
                 PROVE  j = k
      BY <2>6 DEF IsInjective
    <3> DEFINE at(q) == IF q < n THEN q ELSE q + 1
    <3>1. \A q \in 1..(Len(s) - 1) : at(q) \in 1..Len(s) /\ t[q] = s[at(q)]
      BY <2>4, <2>5, <2>6
    <3>2. at(j) = at(k)
      BY <2>6, <3>1 DEF IsInjective
    <3> QED
      BY <2>4, <2>6, <3>2
  <2>8. ToSet(t) = ToSet(s) \ {e}
    <3>1. ASSUME NEW j \in 1..(Len(s) - 1)
          PROVE  t[j] \in ToSet(s) \ {e}
      <4> DEFINE q == IF j < n THEN j ELSE j + 1
      <4>1. q \in 1..Len(s) /\ q # n /\ t[j] = s[q]
        BY <2>4, <2>5, <2>6
      <4>2. s[q] # s[n]
        BY <2>4, <2>6, <4>1 DEF IsInjective
      <4> QED
        BY <2>4, <2>6, <4>1, <4>2 DEF ToSet
    <3>2. ASSUME NEW q \in 1..Len(s), s[q] # e
          PROVE  \E j \in 1..(Len(s) - 1) : t[j] = s[q]
      <4>1. q # n
        BY <2>4, <3>2
      <4>2. CASE q < n
        <5>1. q \in 1..(Len(s) - 1)
          BY <2>4, <2>6, <4>2
        <5> QED
          BY <2>5, <4>2, <5>1
      <4>3. CASE q > n
        <5>1. PICK j \in 1..(Len(s) - 1) : ~(j < n) /\ j + 1 = q
          <6>1. q - 1 \in 1..(Len(s) - 1) /\ ~(q - 1 < n) /\ (q - 1) + 1 = q
            BY <2>4, <2>6, <4>3
          <6> QED
            BY <6>1
        <5>2. t[j] = s[j + 1]
          BY <2>5, <5>1
        <5> QED
          BY <5>1, <5>2
      <4>4. q < n \/ q > n
        BY <2>4, <2>6, <4>1
      <4> QED
        BY <4>2, <4>3, <4>4
    <3>3. ToSet(t) \subseteq ToSet(s) \ {e}
      BY <2>6, <3>1 DEF ToSet
    <3>4. ToSet(s) \ {e} \subseteq ToSet(t)
      BY <2>6, <3>2 DEF ToSet
    <3> QED
      BY <3>3, <3>4
  <2> QED
    BY <2>3, <2>5, <2>7, <2>8
<1> QED
  BY <1>1, <1>2

LEMMA WithLast ==
    ASSUME NEW S, NEW s \in Seq(S), NEW e \in S, IsInjective(s), e \notin ToSet(s)
    PROVE  /\ Append(s, e) \in Seq(S)
           /\ IsInjective(Append(s, e))
           /\ ToSet(Append(s, e)) = ToSet(s) \cup {e}
<1> DEFINE t == Append(s, e)
<1>1. /\ t \in Seq(S) /\ DOMAIN t = 1..(Len(s) + 1) /\ DOMAIN s = 1..Len(s) /\ Len(s) \in Nat
      /\ \A i \in 1..Len(s) : t[i] = s[i]
      /\ t[Len(s) + 1] = e
  OBVIOUS
<1> HIDE DEF t
<1>2. \A i \in 1..(Len(s) + 1) : i \in 1..Len(s) \/ i = Len(s) + 1
  BY <1>1
<1>3. \A i \in 1..Len(s) : s[i] # e
  BY <1>1 DEF ToSet
<1>4. IsInjective(t)
  BY <1>1, <1>2, <1>3 DEF IsInjective
<1>5. ToSet(t) = ToSet(s) \cup {e}
  <2>1. \A x \in ToSet(t) : x \in ToSet(s) \cup {e}
    BY <1>1, <1>2 DEF ToSet
  <2>2. \A x \in ToSet(s) \cup {e} : x \in ToSet(t)
    <3>1. \A i \in 1..Len(s) : i \in 1..(Len(s) + 1)
      BY <1>1
    <3>2. Len(s) + 1 \in 1..(Len(s) + 1)
      BY <1>1
    <3> QED
      BY <1>1, <3>1, <3>2 DEF ToSet
  <2> QED
    BY <2>1, <2>2
<1> QED
  BY <1>1, <1>4, <1>5 DEF t

LEMMA SetInOrder ==
    ASSUME NEW S, IsFiniteSet(S)
    PROVE  SetToSeq(S) \in Seq(S) /\ ToSet(SetToSeq(S)) = S
<1> DEFINE n == Cardinality(S)
<1>1. n \in Nat /\ ExistsBijection(1..n, S)
  BY FS_CardinalityType
<1> HIDE DEF n
<1>2. \E f \in [1..n -> S] : IsInjective(f)
  BY <1>1 DEF ExistsBijection, Bijection, Injection, IsInjective
<1>3. SetToSeq(S) \in [1..n -> S] /\ IsInjective(SetToSeq(S))
  BY <1>2 DEF SetToSeq, n
<1>4. PICK f \in [1..n -> S] : f = SetToSeq(S) /\ IsInjective(f)
  BY <1>3
<1>5. f \in Injection(1..n, S)
  BY <1>4 DEF Injection, IsInjective
<1>6. IsFiniteSet(1..n) /\ Cardinality(1..n) = n
  BY <1>1, FS_Interval
<1>7. f \in Surjection(1..n, S)
  BY <1>5, <1>6, FS_Injection DEF n
<1>8. f \in Seq(S) /\ DOMAIN f = 1..n
  BY <1>1
<1>9. ToSet(f) = S
  BY <1>7, <1>8 DEF ToSet, Surjection
<1> QED
  BY <1>4, <1>8, <1>9

-----------------------------------------------------------------------------

(* A function on the first numbers is a sequence. *)
LEMMA SeqOfLength ==
    ASSUME NEW S, NEW n \in Nat, NEW q \in [1..n -> S]
    PROVE  /\ q \in Seq(S) /\ Len(q) = n /\ DOMAIN q = 1..n
           /\ ToSet(q) = {q[i] : i \in 1..n}
<1>1. q \in Seq(S)
  OBVIOUS
<1>2. DOMAIN q = 1..n
  OBVIOUS
<1>3. Len(q) = n
  BY <1>1, <1>2, LenProperties
<1> QED
  BY <1>1, <1>2, <1>3 DEF ToSet

(* It is a sequence of all elements of a set if each is somewhere. *)
LEMMA SeqOnto ==
    ASSUME NEW S, NEW n \in Nat, NEW q \in [1..n -> S], \A x \in S : \E i \in 1..n : q[i] = x
    PROVE  q \in Seq(S) /\ Len(q) = n /\ ToSet(q) = S
<1>1. q \in Seq(S) /\ Len(q) = n /\ ToSet(q) = {q[i] : i \in 1..n}
  BY SeqOfLength
<1>2. {q[i] : i \in 1..n} = S
  OBVIOUS
<1> QED
  BY <1>1, <1>2

(* A set in order.  B gives for each element the ones before it.           *)

InRanks(q, S, B) ==
    /\ q = [i \in 1..Cardinality(S) |-> q[i]]
    /\ \A i \in 1..Cardinality(S) : \A x \in S :
          Cardinality(B[x]) = i - 1 => q[i] \in S /\ Cardinality(B[q[i]]) = i - 1

(* A finite set in the order of a strict and total relation, each element  *)
(* at the place that tells how many are before it, is a sequence of all its*)
(* elements in that order.  B gives for each element the ones before it.   *)
LEMMA RankedSet ==
    ASSUME NEW S, IsFiniteSet(S), NEW B \in [S -> SUBSET S],
           \A x \in S : x \notin B[x],
           \A x \in S : \A y \in S : x # y => x \in B[y] \/ y \in B[x],
           \A x \in S : \A y \in S : x \in B[y] => B[x] \subseteq B[y],
           NEW q, InRanks(q, S, B)
    PROVE  /\ q \in Seq(S) /\ Len(q) = Cardinality(S) /\ ToSet(q) = S
           /\ \A i \in 1..Cardinality(S) : \A j \in 1..Cardinality(S) : i < j => q[i] \in B[q[j]]
<1> DEFINE size == Cardinality(S)
           rank == [x \in S |-> Cardinality(B[x]) + 1]
<1>1. size \in Nat
  BY FS_CardinalityType
<1>2. \A x \in S : IsFiniteSet(B[x]) /\ Cardinality(B[x]) \in Nat
  BY FS_Subset, FS_CardinalityType
<1>3. \A x \in S : Cardinality(B[x]) < size
  <2> SUFFICES ASSUME NEW x \in S PROVE Cardinality(B[x]) < size
    OBVIOUS
  <2>1. Cardinality(B[x]) <= size /\ (size = Cardinality(B[x]) => S = B[x])
    BY FS_Subset
  <2>2. S # B[x]
    OBVIOUS
  <2> QED
    BY <1>1, <1>2, <2>1, <2>2
<1>4. \A x \in S : \A y \in S : x \in B[y] => Cardinality(B[x]) < Cardinality(B[y])
  <2> SUFFICES ASSUME NEW x \in S, NEW y \in S, x \in B[y]
               PROVE  Cardinality(B[x]) < Cardinality(B[y])
    OBVIOUS
  <2>1. B[x] \in SUBSET B[y] /\ B[x] # B[y]
    OBVIOUS
  <2>2. Cardinality(B[x]) <= Cardinality(B[y])
        /\ (Cardinality(B[y]) = Cardinality(B[x]) => B[y] = B[x])
    BY <1>2, <2>1, FS_Subset
  <2> QED
    BY <1>2, <2>1, <2>2
<1>5. rank \in [S -> 1..size]
  BY <1>1, <1>2, <1>3
<1>6. \A x \in S : \A y \in S : rank[x] = rank[y] => x = y
  BY <1>2, <1>4
<1>7. rank \in Injection(S, 1..size)
  BY <1>5, <1>6 DEF Injection, IsInjective
<1>8. IsFiniteSet(1..size) /\ Cardinality(1..size) = size
  BY <1>1, FS_Interval
<1>9. rank \in Surjection(S, 1..size)
  BY <1>7, <1>8, FS_Injection
<1>10. \A i \in 1..size : \E x \in S : rank[x] = i
  BY <1>9 DEF Surjection
<1>11. \A i \in 1..size : \E x \in S : Cardinality(B[x]) = i - 1
  BY <1>1, <1>2, <1>10
<1>12. q \in [1..size -> S]
  BY <1>11 DEF InRanks
<1>13. \A i \in 1..size : Cardinality(B[q[i]]) = i - 1
  BY <1>11 DEF InRanks
<1>14. \A x \in S : \E i \in 1..size : q[i] = x
  <2> SUFFICES ASSUME NEW x \in S PROVE \E i \in 1..size : q[i] = x
    OBVIOUS
  <2>1. rank[x] \in 1..size
    BY <1>5
  <2> HIDE DEF size
  <2>2. q[rank[x]] \in S /\ Cardinality(B[q[rank[x]]]) = rank[x] - 1
    BY <1>12, <1>13, <2>1
  <2>3. rank[q[rank[x]]] = rank[x]
    BY <1>1, <2>1, <2>2
  <2> QED
    BY <1>6, <2>1, <2>2, <2>3
<1>15. ASSUME NEW i \in 1..size, NEW j \in 1..size, i < j PROVE q[i] \in B[q[j]]
  <2>1. q[i] \in S /\ q[j] \in S /\ Cardinality(B[q[i]]) = i - 1 /\ Cardinality(B[q[j]]) = j - 1
    BY <1>12, <1>13
  <2>2. q[j] \notin B[q[i]] /\ q[i] # q[j]
    <3> HIDE DEF size
    <3> QED
      BY <1>1, <1>4, <1>15, <2>1
  <2> QED
    BY <2>1, <2>2
<1> QED
  BY <1>1, <1>12, <1>14, <1>15, SeqOnto

(* Counting: h[i] is made of h[i - 1], as long as that stays in X.         *)
Counts(h, n, b, G) == h[0] = b /\ \A i \in 1..n : h[i] = G[<<i, h[i - 1]>>]

(* A recursion over the numbers up to n, as a function of all its values. *)
LEMMA CountSteps ==
    ASSUME NEW n \in Nat, NEW X, NEW b \in X, NEW G \in [(1..n) \X X -> X]
    PROVE  \E h \in [0..n -> X] : Counts(h, n, b, G)
<1>1. PICK f \in [SUBSET (1..n) -> X] : Unfolds(f, n, b, G)
  BY PrefixRecursion
<1>2. UnfoldsIn(f, n, X, b, G)
  BY <1>1 DEF Unfolds, UnfoldsIn
<1>3. InSteps(f, n, X, b, G)
  BY <1>2, PrefixSteps
<1> QED
  BY <1>3 DEF InSteps, Counts

(* A function that counts that way is that one.                            *)
CountsIn(f, n, X, b, G) ==
    f[0] = b /\ \A i \in 1..n : f[i - 1] \in X => f[i] = G[<<i, f[i - 1]>>]

(* Its values stay in the set in which each step leaves them. *)
LEMMA CountIn ==
    ASSUME NEW n \in Nat, NEW X, NEW b \in X, NEW G \in [(1..n) \X X -> X], NEW f,
           CountsIn(f, n, X, b, G)
    PROVE  \A i \in 0..n : f[i] \in X
<1> DEFINE Q == {i \in 0..n : f[i] \in X}
<1>1. 0 \in Q
  BY DEF CountsIn
<1>2. \A i \in 1..n : i - 1 \in Q => i \in Q
  <2> SUFFICES ASSUME NEW i \in 1..n, f[i - 1] \in X PROVE f[i] \in X
    OBVIOUS
  <2>1. <<i, f[i - 1]>> \in (1..n) \X X
    OBVIOUS
  <2>2. G[<<i, f[i - 1]>>] \in X
    BY <2>1
  <2> QED
    BY <2>2 DEF CountsIn
<1> HIDE DEF Q
<1>3. \A i \in 0..n : i \in Q
  BY <1>1, <1>2, BoundedInduction
<1> QED
  BY <1>3 DEF Q

-----------------------------------------------------------------------------

(* Sequences of whatever. *)

(* A sequence is one of its own elements, of which there are finitely many. *)
LEMMA SeqOfItsSet ==
    ASSUME NEW S, NEW s \in Seq(S)
    PROVE  /\ s \in Seq(ToSet(s)) /\ ToSet(s) \subseteq S /\ IsFiniteSet(ToSet(s))
           /\ ToSet(s) = {s[i] : i \in 1..Len(s)}
<1>1. Len(s) \in Nat /\ DOMAIN s = 1..Len(s) /\ s \in [1..Len(s) -> S]
  BY LenProperties
<1>2. ToSet(s) = {s[i] : i \in 1..Len(s)}
  BY <1>1 DEF ToSet
<1>3. s \in [1..Len(s) -> ToSet(s)]
  BY <1>1, <1>2
<1>4. s \in Seq(ToSet(s))
  BY <1>1, <1>3
<1>5. s \in Surjection(1..Len(s), ToSet(s))
  BY <1>2, <1>3 DEF Surjection
<1>6. IsFiniteSet(1..Len(s))
  BY <1>1, FS_Interval
<1> QED
  BY <1>1, <1>2, <1>4, <1>5, <1>6, FS_Surjection
=============================================================================
