----------------------------- MODULE HsPlanProofs ------------------------------
(***************************************************************************)
(* What the operators of HsIntervals, HsPlan and HsDetect return, for      *)
(* every project, every fingerprint and every answer: intervals are kept   *)
(* apart, joined and cut as their points say, and plans and findings have  *)
(* the types the render relies on.                                         *)
(***************************************************************************)
EXTENDS HsDetect, HsPlan, FiniteSetTheorems, SequenceTheorems, WellFoundedInduction, TLAPS

-----------------------------------------------------------------------------
(* Numbers, and folds over sequences. *)

(***************************************************************************)
(* Numbers have a least one: what every induction below is made with.      *)
(***************************************************************************)
LEMMA HasLeast ==
    ASSUME NEW T, T \subseteq Nat, T # {}
    PROVE  \E m \in T : \A o \in T : m <= o
<1>1. PICK m \in T : \A o \in T : ~(<<o, m>> \in OpToRel(<, Nat))
  BY NatLessThanWellFounded, WFMin, Zenon
<1>2. \A o \in T : ~(o < m)
  BY <1>1 DEF OpToRel
<1>3. \A o \in T : m <= o
  BY <1>2
<1> QED BY <1>3

(***************************************************************************)
(* Counting up to n, with what is shown as a set of numbers.               *)
(***************************************************************************)
LEMMA Counting ==
    ASSUME NEW n \in Nat, NEW G, 0 \in G, \A k \in 1..n : k - 1 \in G => k \in G
    PROVE  \A k \in 0..n : k \in G
<1> DEFINE bad == {k \in 0..n : k \notin G}
<1>1. SUFFICES ASSUME bad # {} PROVE FALSE
  OBVIOUS
<1>2. bad \subseteq Nat
  OBVIOUS
<1>3. PICK m \in bad : \A o \in bad : m <= o
  <2> HIDE DEF bad
  <2> QED BY <1>1, <1>2, HasLeast
<1>4. m \in 1..n
  OBVIOUS
<1>5. m - 1 \in 0..n /\ m - 1 \notin bad
  BY <1>3, <1>4
<1> QED BY <1>4, <1>5

(***************************************************************************)
(* A finite set that a relation compares has a greatest element.           *)
(***************************************************************************)
LEMMA HasGreatest ==
    ASSUME NEW S, IsFiniteSet(S), S # {}, NEW R,
           \A x, y \in S : <<x, y>> \in R \/ <<y, x>> \in R,
           \A x, y, z \in S : <<x, y>> \in R /\ <<y, z>> \in R => <<x, z>> \in R
    PROVE  \E x \in S : \A y \in S : <<x, y>> \in R
<1> DEFINE below(x) == {y \in S : <<x, y>> \in R}
           n == Cardinality(S)
           away == {n - Cardinality(below(x)) : x \in S}
<1>1. n \in Nat
  BY FS_CardinalityType
<1>2. ASSUME NEW x \in S
      PROVE  IsFiniteSet(below(x)) /\ Cardinality(below(x)) \in Nat /\ Cardinality(below(x)) <= n
  <2>1. below(x) \subseteq S
    OBVIOUS
  <2> HIDE DEF below
  <2>2. IsFiniteSet(below(x)) /\ Cardinality(below(x)) <= n
    BY <2>1, FS_Subset
  <2> QED BY <2>2, FS_CardinalityType
<1>3. away \subseteq Nat /\ away # {}
  <2> HIDE DEF below, n
  <2> QED BY <1>1, <1>2
<1>4. PICK m \in away : \A o \in away : m <= o
  <2> HIDE DEF away
  <2> QED BY <1>3, HasLeast
<1>5. PICK x \in S : m = n - Cardinality(below(x))
  OBVIOUS
<1>6. ASSUME NEW y \in S PROVE Cardinality(below(y)) <= Cardinality(below(x))
  <2>1. n - Cardinality(below(y)) \in away
    OBVIOUS
  <2>2. m <= n - Cardinality(below(y))
    BY <2>1, <1>4
  <2> HIDE DEF below, n, away
  <2> QED BY <1>1, <1>2, <1>5, <2>2
<1>7. ASSUME NEW y \in S, <<x, y>> \notin R PROVE FALSE
  <2>1. below(x) \subseteq below(y) /\ y \in below(y) /\ y \notin below(x)
    BY <1>7
  <2> HIDE DEF below
  <2>2. Cardinality(below(x)) # Cardinality(below(y)) /\ Cardinality(below(x)) <= Cardinality(below(y))
    BY <2>1, <1>2, FS_Subset
  <2> QED BY <2>2, <1>2, <1>6
<1> QED BY <1>7

(***************************************************************************)
(* Max and Min of a finite set of numbers.                                 *)
(***************************************************************************)
LEMMA MaxOf ==
    ASSUME NEW S, IsFiniteSet(S), S \subseteq Int, S # {}
    PROVE  Max(S) \in S /\ \A y \in S : Max(S) >= y
<1> DEFINE R == {p \in S \X S : p[1] >= p[2]}
<1>0. \A x \in S : x \in Int
  OBVIOUS
<1>1. \A x, y \in S : <<x, y>> \in R <=> x >= y
  OBVIOUS
<1> HIDE DEF R
<1>2. \E x \in S : \A y \in S : <<x, y>> \in R
  <2>1. ASSUME NEW x \in S, NEW y \in S PROVE <<x, y>> \in R \/ <<y, x>> \in R
    <3>1. x \in Int /\ y \in Int
      BY <1>0
    <3> QED BY <3>1, <1>1
  <2>2. \A x, y, z \in S : <<x, y>> \in R /\ <<y, z>> \in R => <<x, z>> \in R
    BY <1>0, <1>1
  <2> QED BY <2>1, <2>2, HasGreatest
<1>3. \E x \in S : \A y \in S : x >= y
  BY <1>1, <1>2
<1> QED BY <1>3 DEF Max

\* The least of a finite set of numbers.
LEMMA MinOf ==
    ASSUME NEW S, IsFiniteSet(S), S \subseteq Int, S # {}
    PROVE  Min(S) \in S /\ \A y \in S : Min(S) <= y
<1> DEFINE R == {p \in S \X S : p[1] =< p[2]}
<1>0. \A x \in S : x \in Int
  OBVIOUS
<1>1. \A x, y \in S : <<x, y>> \in R <=> x <= y
  OBVIOUS
<1> HIDE DEF R
<1>2. \E x \in S : \A y \in S : <<x, y>> \in R
  <2>1. ASSUME NEW x \in S, NEW y \in S PROVE <<x, y>> \in R \/ <<y, x>> \in R
    <3>1. x \in Int /\ y \in Int
      BY <1>0
    <3> QED BY <3>1, <1>1
  <2>2. \A x, y, z \in S : <<x, y>> \in R /\ <<y, z>> \in R => <<x, z>> \in R
    BY <1>0, <1>1
  <2> QED BY <2>1, <2>2, HasGreatest
<1>3. \E x \in S : \A y \in S : x =< y
  BY <1>1, <1>2
<1> QED BY <1>3 DEF Min

\* The larger and the smaller of two numbers.
LEMMA Two ==
    ASSUME NEW a \in Int, NEW b \in Int
    PROVE  /\ Max({a, b}) = IF a >= b THEN a ELSE b
           /\ Min({a, b}) = IF a <= b THEN a ELSE b
           /\ Max({a, b}) \in Int /\ Min({a, b}) \in Int
<1>1. IsFiniteSet({a, b}) /\ {a, b} \subseteq Int /\ {a, b} # {}
  <2>1. IsFiniteSet({a}) /\ IsFiniteSet({a} \cup {b})
    BY FS_Singleton, FS_AddElement
  <2>2. {a, b} = {a} \cup {b}
    OBVIOUS
  <2> QED BY <2>1, <2>2
<1>2. Max({a, b}) \in {a, b} /\ \A y \in {a, b} : Max({a, b}) >= y
  BY <1>1, MaxOf
<1>3. Min({a, b}) \in {a, b} /\ \A y \in {a, b} : Min({a, b}) <= y
  BY <1>1, MinOf
<1> QED BY <1>2, <1>3

\* A number brought into a range.
LEMMA Clamped ==
    ASSUME NEW x \in Int, NEW lo \in Int, NEW hi \in Int
    PROVE  /\ Clamp(x, lo, hi) \in Int
           /\ Clamp(x, lo, hi) = IF hi <= lo \/ x <= lo THEN lo ELSE IF x <= hi THEN x ELSE hi
<1>1. Min({x, hi}) \in Int /\ Min({x, hi}) = IF x <= hi THEN x ELSE hi
  BY Two
<1>2. Max({lo, Min({x, hi})}) = (IF lo >= Min({x, hi}) THEN lo ELSE Min({x, hi}))
      /\ Max({lo, Min({x, hi})}) \in Int
  BY <1>1, Two
<1> QED BY <1>1, <1>2 DEF Clamp

\* What is needed for a fold over a set, and what it is.
Foldable(S, ch, B, base, g) ==
    /\ IsFiniteSet(S) /\ \A T \in SUBSET S : T # {} => ch[T] \in T
    /\ base \in B /\ \A b \in B : \A x \in S : g[<<b, x>>] \in B

FoldsTo(S, ch, B, base, g, f) ==
    /\ f \in [SUBSET S -> B]
    /\ \A T \in SUBSET S : f[T] = IF T = {} THEN base ELSE g[<<f[T \ {ch[T]}], ch[T]>>]

(***************************************************************************)
(* A fold over the subsets of a finite set exists: from the smaller ones   *)
(* to the larger. The folds of the community modules are chosen functions  *)
(* and say nothing unless there is one to choose.                          *)
(***************************************************************************)
LEMMA FoldsExist ==
    ASSUME NEW S, NEW ch, NEW B, NEW base, NEW g, Foldable(S, ch, B, base, g)
    PROVE  \E f : FoldsTo(S, ch, B, base, g, f)
<1> USE DEF Foldable
<1> DEFINE Val(f, T) == IF T = {} THEN base ELSE g[<<f[T \ {ch[T]}], ch[T]>>]
           n == Cardinality(S)
           Upto(f, k) == \A T \in SUBSET S : Cardinality(T) <= k => f[T] = Val(f, T)
           G == {k \in 0..n : \E f \in [SUBSET S -> B] : Upto(f, k)}
<1>1. n \in Nat
  BY FS_CardinalityType
<1>2. ASSUME NEW T \in SUBSET S
      PROVE  /\ IsFiniteSet(T) /\ Cardinality(T) \in 0..n
             /\ (Cardinality(T) = 0 <=> T = {})
             /\ T # {} => Cardinality(T \ {ch[T]}) = Cardinality(T) - 1
  <2>1. IsFiniteSet(T) /\ Cardinality(T) <= n
    BY FS_Subset
  <2>2. Cardinality(T) \in Nat /\ (Cardinality(T) = 0 <=> T = {})
    BY <2>1, FS_CardinalityType, FS_EmptySet
  <2>3. T # {} => Cardinality(T \ {ch[T]}) = Cardinality(T) - 1
    BY <2>1, FS_RemoveElement
  <2> HIDE DEF n
  <2> QED BY <1>1, <2>1, <2>2, <2>3
<1>3. ASSUME NEW f \in [SUBSET S -> B], NEW T \in SUBSET S PROVE Val(f, T) \in B
  <2>1. T # {} => T \ {ch[T]} \in SUBSET S /\ ch[T] \in S
    OBVIOUS
  <2> QED BY <2>1
<1>4. 0 \in G
  <2> DEFINE f == [T \in SUBSET S |-> base]
  <2>1. f \in [SUBSET S -> B]
    OBVIOUS
  <2>2. Upto(f, 0)
    <3> SUFFICES ASSUME NEW T \in SUBSET S, Cardinality(T) <= 0 PROVE f[T] = Val(f, T)
      OBVIOUS
    <3>1. T = {}
      <4>1. Cardinality(T) \in 0..n /\ (Cardinality(T) = 0 <=> T = {})
        BY <1>2
      <4> HIDE DEF n
      <4> QED BY <1>1, <4>1
    <3> QED BY <3>1
  <2> HIDE DEF f, Upto, n
  <2> QED BY <1>1, <2>1, <2>2
<1>5. ASSUME NEW k \in 1..n, k - 1 \in G PROVE k \in G
  <2>1. PICK f \in [SUBSET S -> B] : Upto(f, k - 1)
    <3> HIDE DEF Upto
    <3> QED BY <1>5
  <2> DEFINE h == [T \in SUBSET S |-> IF Cardinality(T) = k THEN Val(f, T) ELSE f[T]]
  <2>2. h \in [SUBSET S -> B]
    BY <1>3
  <2>3. ASSUME NEW T \in SUBSET S, Cardinality(T) <= k PROVE h[T] = Val(h, T)
    <3>0. k \in Int /\ Cardinality(T) \in Int
      <4>1. Cardinality(T) \in 0..n
        BY <1>2
      <4> HIDE DEF n
      <4> QED BY <1>1, <4>1
    <3>1. h[T] = Val(f, T)
      <4>1. CASE Cardinality(T) = k
        BY <4>1
      <4>2. CASE Cardinality(T) # k
        <5>1. Cardinality(T) <= k - 1
          <6> HIDE DEF n
          <6> QED BY <4>2, <2>3, <3>0
        <5>2. f[T] = Val(f, T)
          BY <5>1, <2>1
        <5> QED BY <4>2, <5>2
      <4> QED BY <4>1, <4>2
    <3>2. T # {} => h[T \ {ch[T]}] = f[T \ {ch[T]}]
      <4> SUFFICES ASSUME T # {} PROVE h[T \ {ch[T]}] = f[T \ {ch[T]}]
        OBVIOUS
      <4>1. T \ {ch[T]} \in SUBSET S
        OBVIOUS
      <4>2. Cardinality(T \ {ch[T]}) # k
        <5>1. Cardinality(T \ {ch[T]}) = Cardinality(T) - 1
          BY <1>2
        <5> HIDE DEF n
        <5> QED BY <5>1, <2>3, <3>0
      <4> QED BY <4>1, <4>2
    <3> QED BY <3>1, <3>2
  <2>4. Upto(h, k)
    BY <2>3
  <2>5. k \in 0..n
    <3> HIDE DEF n
    <3> QED BY <1>1
  <2> HIDE DEF h, Upto, n
  <2> QED BY <2>2, <2>4, <2>5
<1>6. n \in G
  <2> HIDE DEF G, n
  <2>1. \A k \in 0..n : k \in G
    BY <1>1, <1>4, <1>5, Counting
  <2> QED BY <1>1, <2>1
<1>7. PICK f \in [SUBSET S -> B] : Upto(f, n)
  <2> HIDE DEF Upto
  <2> QED BY <1>6
<1>8. \A T \in SUBSET S : f[T] = Val(f, T)
  <2> SUFFICES ASSUME NEW T \in SUBSET S PROVE f[T] = Val(f, T)
    OBVIOUS
  <2>1. Cardinality(T) <= n
    <3>1. Cardinality(T) \in 0..n
      BY <1>2
    <3> HIDE DEF n
    <3> QED BY <1>1, <3>1
  <2> QED BY <2>1, <1>7
<1> QED BY <1>8 DEF FoldsTo

\* Folding a sequence of n elements: the subsets of its indices, from the greatest.
Folding(n, B, base, g, f) ==
    /\ f \in [SUBSET (1..n) -> B]
    /\ \A T \in SUBSET (1..n) : f[T] = IF T = {} THEN base ELSE g[<<f[T \ {Max(T)}], Max(T)>>]

\* A fold has its states, if each step stays among them.
LEMMA FoldOfSeq ==
    ASSUME NEW n \in Nat, NEW B, NEW base \in B, NEW g, \A b \in B : \A k \in 1..n : g[<<b, k>>] \in B
    PROVE  \E f : Folding(n, B, base, g, f)
<1> DEFINE S == 1..n
           ch == [T \in SUBSET S |-> Max(T)]
<1>1. IsFiniteSet(S) /\ S \subseteq Int
  BY FS_Interval
<1>2. ASSUME NEW T \in SUBSET S, T # {} PROVE Max(T) \in T
  <2> HIDE DEF S
  <2>1. IsFiniteSet(T) /\ T \subseteq Int
    BY <1>1, FS_Subset
  <2> QED BY <1>2, <2>1, MaxOf
<1>3. \A T \in SUBSET S : ch[T] = Max(T)
  OBVIOUS
<1>4. \A T \in SUBSET S : T # {} => ch[T] \in T
  BY <1>2
<1>5. Foldable(S, ch, B, base, g)
  <2>1. \A b \in B : \A x \in S : g[<<b, x>>] \in B
    OBVIOUS
  <2> HIDE DEF S, ch
  <2> QED BY <1>1, <1>4, <2>1 DEF Foldable
<1> HIDE DEF S, ch
<1>7. PICK f : FoldsTo(S, ch, B, base, g, f)
  BY <1>5, FoldsExist, Zenon
<1>8. \A T \in SUBSET S : f[T] = IF T = {} THEN base ELSE g[<<f[T \ {Max(T)}], Max(T)>>]
  BY <1>3, <1>7 DEF FoldsTo
<1> QED BY <1>7, <1>8 DEF Folding, FoldsTo, S

(***************************************************************************)
(* The fold of the first k indices takes the k-th to that of the first     *)
(* k - 1.                                                                  *)
(***************************************************************************)
LEMMA Ranges ==
    ASSUME NEW n \in Nat, NEW k \in 1..n
    PROVE  1..k \in SUBSET (1..n) /\ 1..k # {} /\ Max(1..k) = k /\ (1..k) \ {k} = 1..(k - 1)
<1>1. IsFiniteSet(1..k) /\ 1..k \subseteq Int /\ 1..k # {}
  <2>1. IsFiniteSet(1..k)
    BY FS_Interval
  <2> QED BY <2>1
<1>2. Max(1..k) \in 1..k /\ \A y \in 1..k : Max(1..k) >= y
  BY <1>1, MaxOf
<1> QED BY <1>1, <1>2

-----------------------------------------------------------------------------
(* Orders of finite sets, and the sequences made by them. *)

\* R orders S strictly and totally.
Orders(R, S) ==
    /\ \A x \in S : <<x, x>> \notin R
    /\ \A x, y, z \in S : <<x, y>> \in R /\ <<y, z>> \in R => <<x, z>> \in R
    /\ \A x, y \in S : x # y => <<x, y>> \in R \/ <<y, x>> \in R

\* What lies below x.
Lower(x, R, S) == {y \in S : <<y, x>> \in R}

(***************************************************************************)
(* Where a set is ordered, the number of elements below one is its rank: a *)
(* number of its own for each, and every rank up to the size of the set is *)
(* somebody's.                                                             *)
(***************************************************************************)
LEMMA Ranks ==
    ASSUME NEW S, IsFiniteSet(S), NEW R, Orders(R, S)
    PROVE  /\ Cardinality(S) \in Nat
           /\ \A x \in S : Cardinality(Lower(x, R, S)) \in 0..Cardinality(S) - 1
           /\ \A x, y \in S : <<x, y>> \in R => Cardinality(Lower(x, R, S)) < Cardinality(Lower(y, R, S))
           /\ \A k \in 1..Cardinality(S) : \E x \in S : Cardinality(Lower(x, R, S)) = k - 1
<1> DEFINE n == Cardinality(S)
           rank == [x \in S |-> Cardinality(Lower(x, R, S))]
<1>1. n \in Nat
  BY FS_CardinalityType
<1>2. ASSUME NEW x \in S
      PROVE  /\ IsFiniteSet(Lower(x, R, S)) /\ Cardinality(Lower(x, R, S)) \in Nat
             /\ Cardinality(Lower(x, R, S)) < n
  <2>1. Lower(x, R, S) \in SUBSET S /\ x \notin Lower(x, R, S)
    BY DEF Lower, Orders
  <2>2. IsFiniteSet(Lower(x, R, S)) /\ Cardinality(Lower(x, R, S)) <= n
        /\ (n = Cardinality(Lower(x, R, S)) => S = Lower(x, R, S))
    BY <2>1, FS_Subset
  <2>3. Cardinality(Lower(x, R, S)) \in Nat
    BY <2>2, FS_CardinalityType
  <2>4. n # Cardinality(Lower(x, R, S))
    BY <2>1, <2>2
  <2> HIDE DEF n
  <2> QED BY <2>2, <2>3, <2>4, <1>1
<1>3. ASSUME NEW x \in S, NEW y \in S, <<x, y>> \in R
      PROVE  Cardinality(Lower(x, R, S)) < Cardinality(Lower(y, R, S))
  <2>1. Lower(x, R, S) \in SUBSET Lower(y, R, S)
    BY <1>3 DEF Lower, Orders
  <2>2. x \in Lower(y, R, S) /\ x \notin Lower(x, R, S)
    BY <1>3 DEF Lower, Orders
  <2>3. Cardinality(Lower(x, R, S)) <= Cardinality(Lower(y, R, S))
        /\ (Cardinality(Lower(y, R, S)) = Cardinality(Lower(x, R, S)) => Lower(y, R, S) = Lower(x, R, S))
    BY <2>1, <1>2, FS_Subset
  <2>4. Cardinality(Lower(x, R, S)) # Cardinality(Lower(y, R, S))
    BY <2>2, <2>3
  <2> QED BY <2>3, <2>4, <1>2
<1>4. rank \in Injection(S, 0..n-1)
  <2>1. rank \in [S -> 0..n-1]
    BY <1>1, <1>2
  <2>2. ASSUME NEW x \in S, NEW y \in S, rank[x] = rank[y] PROVE x = y
    <3>1. Cardinality(Lower(x, R, S)) = Cardinality(Lower(y, R, S))
      BY <2>2
    <3>2. <<x, y>> \notin R /\ <<y, x>> \notin R
      BY <3>1, <1>2, <1>3
    <3> QED BY <3>2 DEF Orders
  <2> QED BY <2>1, <2>2 DEF Injection, IsInjective
<1>5. IsFiniteSet(0..n-1) /\ Cardinality(0..n-1) = n
  <2> HIDE DEF n
  <2> QED BY <1>1, FS_Interval
<1>6. rank \in Surjection(S, 0..n-1)
  <2> HIDE DEF rank
  <2> QED BY <1>4, <1>5, FS_Injection
<1>7. ASSUME NEW k \in 1..n PROVE \E x \in S : rank[x] = k - 1
  <2>1. k - 1 \in 0..n-1
    BY <1>1
  <2> QED BY <1>6, <2>1 DEF Surjection
<1> QED BY <1>1, <1>2, <1>3, <1>7

\* S listed along R.
SortedBy(S, R) ==
    [k \in 1..Cardinality(S) |-> CHOOSE x \in S : Cardinality(Lower(x, R, S)) = k - 1]

(***************************************************************************)
(* Sorting a finite set along an order lists each of its elements, and     *)
(* lists them along the order.                                             *)
(***************************************************************************)
LEMMA SortedFacts ==
    ASSUME NEW S, IsFiniteSet(S), NEW R, Orders(R, S)
    PROVE  /\ Cardinality(S) \in Nat /\ DOMAIN SortedBy(S, R) = 1..Cardinality(S)
           /\ SortedBy(S, R) \in Seq(S) /\ Len(SortedBy(S, R)) = Cardinality(S)
           /\ \A k \in DOMAIN SortedBy(S, R) : SortedBy(S, R)[k] \in S
           /\ \A x \in S : \E k \in DOMAIN SortedBy(S, R) : SortedBy(S, R)[k] = x
           /\ \A j, k \in DOMAIN SortedBy(S, R) : j < k => <<SortedBy(S, R)[j], SortedBy(S, R)[k]>> \in R
<1> DEFINE n == Cardinality(S)
           rank(x) == Cardinality(Lower(x, R, S))
           s == SortedBy(S, R)
<1>1. /\ n \in Nat
      /\ \A x \in S : rank(x) \in 0..n - 1
      /\ \A x, y \in S : <<x, y>> \in R => rank(x) < rank(y)
      /\ \A k \in 1..n : \E x \in S : rank(x) = k - 1
  BY Ranks
<1>2. DOMAIN s = 1..n /\ \A k \in 1..n : s[k] = CHOOSE x \in S : rank(x) = k - 1
  BY DEF SortedBy
<1> HIDE DEF s
<1>3. ASSUME NEW k \in 1..n PROVE s[k] \in S /\ rank(s[k]) = k - 1
  <2>1. \E x \in S : rank(x) = k - 1
    BY <1>1
  <2>2. s[k] = CHOOSE x \in S : rank(x) = k - 1
    BY <1>2
  <2> HIDE DEF rank
  <2> QED BY <2>1, <2>2, Zenon
<1>4. ASSUME NEW x \in S PROVE \E k \in 1..n : s[k] = x
  <2> DEFINE k == rank(x) + 1
  <2>1. k \in 1..n /\ k - 1 = rank(x)
    <3> HIDE DEF n
    <3>1. rank(x) \in 0..n - 1 /\ n \in Nat
      BY <1>1
    <3> HIDE DEF rank
    <3> QED BY <3>1
  <2>2. s[k] \in S /\ rank(s[k]) = rank(x)
    BY <2>1, <1>3
  <2>3. <<s[k], x>> \notin R /\ <<x, s[k]>> \notin R
    <3> HIDE DEF k
    <3>1. rank(x) \in Int
      BY <1>1
    <3> HIDE DEF rank
    <3> QED BY <2>2, <1>1, <3>1
  <2>4. s[k] = x
    BY <2>2, <2>3 DEF Orders
  <2> QED BY <2>1, <2>4
<1>5. ASSUME NEW j \in 1..n, NEW k \in 1..n, j < k PROVE <<s[j], s[k]>> \in R
  <2>1. s[j] \in S /\ s[k] \in S /\ rank(s[j]) = j - 1 /\ rank(s[k]) = k - 1
    BY <1>3
  <2>2. <<s[k], s[j]>> \in R => rank(s[k]) < rank(s[j])
    BY <2>1, <1>1
  <2>3. <<s[k], s[j]>> \notin R /\ s[j] # s[k]
    <3> HIDE DEF rank, n
    <3> QED BY <2>1, <2>2, <1>5, <1>1
  <2> QED BY <2>1, <2>3 DEF Orders
<1>6. s \in Seq(S) /\ Len(s) = n
  <2> HIDE DEF n
  <2>1. s \in [1..n -> S]
    <3>1. s = [k \in 1..n |-> s[k]]
      BY DEF s, n, SortedBy
    <3> QED BY <3>1, <1>3
  <2> QED BY <1>1, <2>1, LenProperties, IsASeq
<1> QED BY <1>1, <1>2, <1>3, <1>4, <1>5, <1>6 DEF s


\* The elements of S in an order given by pairs.
EarlierOn(S) == {p \in S \X S : Earlier(p[1], p[2])}
LessOn(S) == {p \in S \X S : p[1] < p[2]}

\* Intervals are ordered by where they begin, then by where they end.
LEMMA EarlierOrders == ASSUME NEW S, S \subseteq Int \X Int PROVE Orders(EarlierOn(S), S)
<1>1. \A r \in S : r = <<r[1], r[2]>> /\ r[1] \in Int /\ r[2] \in Int
  OBVIOUS
<1>2. \A x, y \in S : <<x, y>> \in EarlierOn(S) <=> Earlier(x, y)
  BY DEF EarlierOn
<1>3. ASSUME NEW x \in S PROVE ~Earlier(x, x)
  BY <1>1 DEF Earlier
<1>4. ASSUME NEW x \in S, NEW y \in S, NEW z \in S, Earlier(x, y), Earlier(y, z) PROVE Earlier(x, z)
  BY <1>1, <1>4 DEF Earlier
<1>5. ASSUME NEW x \in S, NEW y \in S, x # y PROVE Earlier(x, y) \/ Earlier(y, x)
  <2>1. x[1] # y[1] \/ x[2] # y[2]
    BY <1>1, <1>5
  <2> QED BY <2>1, <1>1 DEF Earlier
<1> QED BY <1>2, <1>3, <1>4, <1>5 DEF Orders

\* Numbers are ordered by size.
LEMMA LessOrders == ASSUME NEW S, S \subseteq Int PROVE Orders(LessOn(S), S)
<1>1. \A x, y \in S : <<x, y>> \in LessOn(S) <=> x < y
  BY DEF LessOn
<1>2. \A x \in S : x \in Int
  OBVIOUS
<1> QED BY <1>1, <1>2 DEF Orders

\* InOrder is the sequence that order makes ...
LEMMA InOrderIsEarlier == ASSUME NEW S PROVE InOrder(S) = SortedBy(S, EarlierOn(S))
<1> DEFINE a(k) == CHOOSE x \in S : Cardinality({y \in S : Earlier(y, x)}) = k - 1
           b(k) == CHOOSE x \in S : Cardinality(Lower(x, EarlierOn(S), S)) = k - 1
<1>1. \A x \in S : {y \in S : Earlier(y, x)} = Lower(x, EarlierOn(S), S)
  BY DEF Lower, EarlierOn
<1>2. \A k : a(k) = b(k)
  BY <1>1
<1>3. InOrder(S) = [k \in 1..Cardinality(S) |-> a(k)]
  BY DEF InOrder, Sorted
<1>4. SortedBy(S, EarlierOn(S)) = [k \in 1..Cardinality(S) |-> b(k)]
  BY DEF SortedBy
<1> HIDE DEF a, b
<1> QED BY <1>2, <1>3, <1>4

\* ... and so is the sequence of numbers by size.
LEMMA SortedIsLess == ASSUME NEW S PROVE Sorted(S, <) = SortedBy(S, LessOn(S))
<1> DEFINE a(k) == CHOOSE x \in S : Cardinality({y \in S : y < x}) = k - 1
           b(k) == CHOOSE x \in S : Cardinality(Lower(x, LessOn(S), S)) = k - 1
<1>1. \A x \in S : {y \in S : y < x} = Lower(x, LessOn(S), S)
  BY DEF Lower, LessOn
<1>2. \A k : a(k) = b(k)
  BY <1>1
<1>3. Sorted(S, <) = [k \in 1..Cardinality(S) |-> a(k)]
  BY DEF Sorted
<1>4. SortedBy(S, LessOn(S)) = [k \in 1..Cardinality(S) |-> b(k)]
  BY DEF SortedBy
<1> HIDE DEF a, b
<1> QED BY <1>2, <1>3, <1>4

\* s lists S.
Lists(s, S) ==
    /\ s \in Seq(S) /\ Len(s) = Cardinality(S) /\ Cardinality(S) \in Nat /\ DOMAIN s = 1..Len(s)
    /\ \A k \in 1..Len(s) : s[k] \in S
    /\ \A x \in S : \E k \in 1..Len(s) : s[k] = x

(***************************************************************************)
(* Intervals are listed by beginning and end.                              *)
(***************************************************************************)
LEMMA InOrderFacts ==
    ASSUME NEW S, S \subseteq Int \X Int, IsFiniteSet(S)
    PROVE  /\ Lists(InOrder(S), S)
           /\ \A j, k \in 1..Len(InOrder(S)) : j < k => Earlier(InOrder(S)[j], InOrder(S)[k])
<1>1. Orders(EarlierOn(S), S)
  BY EarlierOrders
<1> DEFINE s == SortedBy(S, EarlierOn(S))
<1>2. /\ Cardinality(S) \in Nat /\ DOMAIN s = 1..Cardinality(S)
      /\ s \in Seq(S) /\ Len(s) = Cardinality(S)
      /\ \A k \in DOMAIN s : s[k] \in S
      /\ \A x \in S : \E k \in DOMAIN s : s[k] = x
      /\ \A j, k \in DOMAIN s : j < k => <<s[j], s[k]>> \in EarlierOn(S)
  BY <1>1, SortedFacts
<1>3. InOrder(S) = s
  BY InOrderIsEarlier
<1> HIDE DEF s
<1>4. \A j, k \in DOMAIN s : j < k => Earlier(s[j], s[k])
  BY <1>2 DEF EarlierOn
<1> QED BY <1>2, <1>3, <1>4 DEF Lists

(***************************************************************************)
(* Numbers are listed by size.                                             *)
(***************************************************************************)
LEMMA Listing ==
    ASSUME NEW S, S \subseteq Int, IsFiniteSet(S)
    PROVE  /\ Lists(Sorted(S, <), S)
           /\ \A j, k \in 1..Len(Sorted(S, <)) : j < k => Sorted(S, <)[j] < Sorted(S, <)[k]
<1>1. Orders(LessOn(S), S)
  BY LessOrders
<1> DEFINE s == SortedBy(S, LessOn(S))
<1>2. /\ Cardinality(S) \in Nat /\ DOMAIN s = 1..Cardinality(S)
      /\ s \in Seq(S) /\ Len(s) = Cardinality(S)
      /\ \A k \in DOMAIN s : s[k] \in S
      /\ \A x \in S : \E k \in DOMAIN s : s[k] = x
      /\ \A j, k \in DOMAIN s : j < k => <<s[j], s[k]>> \in LessOn(S)
  BY <1>1, SortedFacts
<1>3. Sorted(S, <) = s
  BY SortedIsLess
<1> HIDE DEF s
<1>4. \A j, k \in DOMAIN s : j < k => s[j] < s[k]
  BY <1>2 DEF LessOn
<1> QED BY <1>2, <1>3, <1>4 DEF Lists

(***************************************************************************)
(* Some of the elements of a sequence, in their order.                     *)
(***************************************************************************)
LEMMA OnlyFacts ==
    ASSUME NEW V, NEW s \in Seq(V), NEW T, T \subseteq DOMAIN s
    PROVE  /\ Only(s, T) \in Seq(V) /\ Len(Only(s, T)) = Cardinality(T) /\ Cardinality(T) \in Nat
           /\ IsFiniteSet(T) /\ Lists(Sorted(T, <), T)
           /\ \A j, k \in 1..Cardinality(T) : j < k => Sorted(T, <)[j] < Sorted(T, <)[k]
           /\ \A k \in 1..Cardinality(T) : Only(s, T)[k] = s[Sorted(T, <)[k]] /\ Sorted(T, <)[k] \in T
<1>1. IsFiniteSet(T) /\ T \subseteq Int
  <2>1. DOMAIN s = 1..Len(s) /\ Len(s) \in Nat
    BY LenProperties
  <2>2. IsFiniteSet(1..Len(s))
    BY <2>1, FS_Interval
  <2> QED BY <2>1, <2>2, FS_Subset
<1> DEFINE o == Sorted(T, <)
           n == Cardinality(T)
<1>2. Lists(o, T) /\ \A j, k \in 1..Len(o) : j < k => o[j] < o[k]
  BY <1>1, Listing
<1>3. Only(s, T) = [k \in 1..n |-> s[o[k]]]
  BY DEF Only
<1> HIDE DEF o, n
<1>4. n \in Nat /\ Len(o) = n /\ \A k \in 1..n : o[k] \in T
  BY <1>2 DEF Lists, n
<1>5. \A k \in 1..n : s[o[k]] \in V
  <2>1. \A j \in DOMAIN s : s[j] \in V
    BY LenProperties, ElementOfSeq
  <2> QED BY <1>4, <2>1
<1>6. Only(s, T) \in Seq(V) /\ Len(Only(s, T)) = n
  <2>1. Only(s, T) \in [1..n -> V]
    BY <1>3, <1>5
  <2>2. Only(s, T) \in Seq(V)
    BY <2>1, <1>4, IsASeq
  <2>3. DOMAIN Only(s, T) = 1..n
    BY <1>3
  <2> QED BY <2>2, <2>3, <1>4, LenProperties
<1> QED BY <1>1, <1>2, <1>3, <1>4, <1>6 DEF o, n

-----------------------------------------------------------------------------
(* The states of the folds over intervals. *)

\* The states of a fold of n steps.
Stepping(h, n, B, base) == h[0] = base /\ \A k \in 0..n : h[k] \in B

Pair == Int \X Int
Cursor == [cursor : Int, kept : Seq(Pair)]

\* A step of SourceRanges: the cursor goes on, and what lay before the exclusion is kept.
LEMMA SkipType ==
    ASSUME NEW b \in Cursor, NEW e \in Pair, NEW limit \in Int
    PROVE  /\ Skip(b, e, limit) \in Cursor
           /\ Skip(b, e, limit).cursor = LET s == Clamp(e[1], b.cursor, limit)
                                             c == Clamp(e[2], s, limit)
                                         IN IF b.cursor >= c THEN b.cursor ELSE c
           /\ Skip(b, e, limit).kept = IF Clamp(e[1], b.cursor, limit) > b.cursor
                                       THEN Append(b.kept, <<b.cursor, Clamp(e[1], b.cursor, limit)>>)
                                       ELSE b.kept
<1> DEFINE s == Clamp(e[1], b.cursor, limit)
           c == Clamp(e[2], s, limit)
<1>1. b.cursor \in Int /\ b.kept \in Seq(Pair) /\ e[1] \in Int /\ e[2] \in Int
  BY DEF Cursor, Pair
<1>2. s \in Int
  BY <1>1, Clamped
<1>3. c \in Int
  BY <1>1, <1>2, Clamped
<1>4. Max({b.cursor, c}) = (IF b.cursor >= c THEN b.cursor ELSE c) /\ Max({b.cursor, c}) \in Int
  BY <1>1, <1>3, Two
<1>5. Skip(b, e, limit) = [cursor |-> Max({b.cursor, c}),
                           kept |-> IF s > b.cursor THEN Append(b.kept, <<b.cursor, s>>) ELSE b.kept]
  BY DEF Skip
<1>6. Append(b.kept, <<b.cursor, s>>) \in Seq(Pair)
  <2>1. <<b.cursor, s>> \in Pair
    BY <1>1, <1>2 DEF Pair
  <2> QED BY <1>1, <2>1, AppendProperties
<1> HIDE DEF s, c
<1>7. Skip(b, e, limit) \in Cursor
  BY <1>1, <1>4, <1>5, <1>6 DEF Cursor
<1>8. Skip(b, e, limit).cursor = (IF b.cursor >= c THEN b.cursor ELSE c)
      /\ Skip(b, e, limit).kept = IF s > b.cursor THEN Append(b.kept, <<b.cursor, s>>) ELSE b.kept
  BY <1>4, <1>5
<1> QED BY <1>7, <1>8 DEF s, c

\* The states SourceRanges goes through.
LEMMA SkipFold ==
    ASSUME NEW limit \in Int, NEW base \in Cursor, NEW s \in Seq(Pair)
    PROVE  \E h : /\ Stepping(h, Len(s), Cursor, base)
                  /\ \A k \in 1..Len(s) : h[k] = Skip(h[k - 1], s[k], limit)
                  /\ FoldLeft(LAMBDA acc, iv : Skip(acc, iv, limit), base, s) = h[Len(s)]
<1> DEFINE n == Len(s)
           Op(b, e) == Skip(b, e, limit)
           g == [x \in Cursor \X (1..n) |-> Op(x[1], s[x[2]])]
           Rec(it) == [T \in SUBSET (DOMAIN s) |->
                         IF T = {} THEN base ELSE Op(it[T \ {Max(T)}], s[Max(T)])]
           it == CHOOSE it : it = Rec(it)
           h == [k \in 0..n |-> it[1..k]]
<1>1. n \in Nat /\ DOMAIN s = 1..n /\ \A k \in 1..n : s[k] \in Pair
  BY LenProperties, ElementOfSeq
<1>2. ASSUME NEW b \in Cursor, NEW e \in Pair PROVE Op(b, e) \in Cursor
  BY SkipType
<1>3. FoldLeft(LAMBDA acc, iv : Skip(acc, iv, limit), base, s) = it[DOMAIN s]
  BY DEF FoldLeft, MapThenFoldSet
<1> HIDE DEF Op, n
<1>4. PICK f : Folding(n, Cursor, base, g, f)
  <2>1. ASSUME NEW b \in Cursor, NEW k \in 1..n PROVE g[<<b, k>>] \in Cursor
    BY <1>1, <1>2
  <2> HIDE DEF g
  <2> QED BY <1>1, <2>1, FoldOfSeq
<1>5. f = Rec(f)
  <2>1. ASSUME NEW T \in SUBSET (1..n)
        PROVE  f[T] = IF T = {} THEN base ELSE Op(f[T \ {Max(T)}], s[Max(T)])
    <3>1. f[T] = (IF T = {} THEN base ELSE g[<<f[T \ {Max(T)}], Max(T)>>]) /\ f \in [SUBSET (1..n) -> Cursor]
      BY <1>4 DEF Folding
    <3>2. CASE T # {}
      <4>1. Max(T) \in T
        <5>1. IsFiniteSet(1..n) /\ 1..n \subseteq Int
          BY <1>1, FS_Interval
        <5>2. IsFiniteSet(T) /\ T \subseteq Int
          BY <5>1, FS_Subset
        <5> QED BY <3>2, <5>2, MaxOf
      <4>2. f[T \ {Max(T)}] \in Cursor /\ Max(T) \in 1..n
        BY <3>1, <4>1
      <4>3. g[<<f[T \ {Max(T)}], Max(T)>>] = Op(f[T \ {Max(T)}], s[Max(T)])
        BY <4>2
      <4> QED BY <3>1, <3>2, <4>3
    <3> QED BY <3>1, <3>2
  <2>2. f = [T \in SUBSET (1..n) |-> f[T]]
    BY <1>4 DEF Folding
  <2> QED BY <1>1, <2>1, <2>2
<1> HIDE DEF Rec
<1>6. it = Rec(it)
  BY <1>5
<1>7. \A T \in SUBSET (1..n) : it[T] = IF T = {} THEN base ELSE Op(it[T \ {Max(T)}], s[Max(T)])
  <2> DEFINE i == it
  <2>1. i = Rec(i)
    BY <1>6
  <2> HIDE DEF i
  <2>2. \A T \in SUBSET (1..n) : i[T] = IF T = {} THEN base ELSE Op(i[T \ {Max(T)}], s[Max(T)])
    BY <1>1, <2>1 DEF Rec
  <2> QED BY <2>2 DEF i
<1> HIDE DEF it
<1>8. h[0] = base
  <2>1. 1..0 = {} /\ 0 \in 0..n
    BY <1>1
  <2> QED BY <1>7, <2>1
<1>9. ASSUME NEW k \in 1..n PROVE h[k] = Op(h[k - 1], s[k])
  <2>1. 1..k \in SUBSET (1..n) /\ 1..k # {} /\ Max(1..k) = k /\ (1..k) \ {k} = 1..(k - 1)
    BY <1>1, Ranges
  <2>2. it[1..k] = Op(it[1..(k - 1)], s[k])
    BY <1>7, <2>1
  <2>3. k \in 0..n /\ k - 1 \in 0..n
    BY <1>1
  <2> QED BY <2>2, <2>3
<1>10. FoldLeft(LAMBDA acc, iv : Skip(acc, iv, limit), base, s) = h[n]
  <2>1. n \in 0..n
    BY <1>1
  <2> QED BY <1>1, <1>3, <2>1
<1> HIDE DEF h
<1>11. \A k \in 0..n : h[k] \in Cursor
  <2> DEFINE G == {k \in 0..n : h[k] \in Cursor}
  <2>1. 0 \in G
    BY <1>1, <1>8
  <2>2. ASSUME NEW k \in 1..n, k - 1 \in G PROVE k \in G
    <3>1. h[k - 1] \in Cursor /\ s[k] \in Pair /\ k \in 0..n
      BY <1>1, <2>2
    <3>2. Op(h[k - 1], s[k]) \in Cursor
      BY <3>1, <1>2
    <3> QED BY <3>1, <3>2, <1>9
  <2> HIDE DEF G
  <2>3. \A k \in 0..n : k \in G
    BY <1>1, <2>1, <2>2, Counting
  <2> QED BY <2>3 DEF G
<1>12. Stepping(h, n, Cursor, base) /\ \A k \in 1..n : h[k] = Skip(h[k - 1], s[k], limit)
  BY <1>8, <1>9, <1>11 DEF Stepping, Op
<1> QED BY <1>10, <1>12 DEF n

\* A step of Merged.
LEMMA JoinType ==
    ASSUME NEW b \in Seq(Pair), NEW e \in Pair
    PROVE  Join(b, e) \in Seq(Pair)
<1>1. CASE b # << >> /\ e[1] <= Last(b)[2]
  <2>1. Len(b) \in Nat /\ Len(b) \in DOMAIN b /\ DOMAIN b = 1..Len(b)
    BY <1>1, LenProperties, EmptySeq
  <2>2. b[Len(b)] \in Pair
    BY <2>1, ElementOfSeq
  <2>3. Max({b[Len(b)][2], e[2]}) \in Int
    BY <2>2, Two DEF Pair
  <2>4. <<b[Len(b)][1], Max({b[Len(b)][2], e[2]})>> \in Pair
    BY <2>2, <2>3 DEF Pair
  <2>5. Join(b, e) = [b EXCEPT ![Len(b)] = <<b[Len(b)][1], Max({b[Len(b)][2], e[2]})>>]
    BY <1>1 DEF Join
  <2> QED BY <2>1, <2>4, <2>5, ExceptSeq
<1>2. CASE ~ (b # << >> /\ e[1] <= Last(b)[2])
  BY <1>2, AppendProperties DEF Join
<1> QED BY <1>1, <1>2

\* The states Merged goes through.
LEMMA JoinFold ==
    ASSUME NEW base \in Seq(Pair), NEW s \in Seq(Pair)
    PROVE  \E h : /\ Stepping(h, Len(s), Seq(Pair), base)
                  /\ \A k \in 1..Len(s) : h[k] = Join(h[k - 1], s[k])
                  /\ FoldLeft(Join, base, s) = h[Len(s)]
<1> DEFINE n == Len(s)
           Op(b, e) == Join(b, e)
           g == [x \in Seq(Pair) \X (1..n) |-> Op(x[1], s[x[2]])]
           Rec(it) == [T \in SUBSET (DOMAIN s) |->
                         IF T = {} THEN base ELSE Op(it[T \ {Max(T)}], s[Max(T)])]
           it == CHOOSE it : it = Rec(it)
           h == [k \in 0..n |-> it[1..k]]
<1>1. n \in Nat /\ DOMAIN s = 1..n /\ \A k \in 1..n : s[k] \in Pair
  BY LenProperties, ElementOfSeq
<1>2. ASSUME NEW b \in Seq(Pair), NEW e \in Pair PROVE Op(b, e) \in Seq(Pair)
  BY JoinType
<1>3. FoldLeft(Join, base, s) = it[DOMAIN s]
  BY DEF FoldLeft, MapThenFoldSet
<1> HIDE DEF Op, n
<1>4. PICK f : Folding(n, Seq(Pair), base, g, f)
  <2>1. ASSUME NEW b \in Seq(Pair), NEW k \in 1..n PROVE g[<<b, k>>] \in Seq(Pair)
    BY <1>1, <1>2
  <2> HIDE DEF g
  <2> QED BY <1>1, <2>1, FoldOfSeq
<1>5. f = Rec(f)
  <2>1. ASSUME NEW T \in SUBSET (1..n)
        PROVE  f[T] = IF T = {} THEN base ELSE Op(f[T \ {Max(T)}], s[Max(T)])
    <3>1. f[T] = (IF T = {} THEN base ELSE g[<<f[T \ {Max(T)}], Max(T)>>]) /\ f \in [SUBSET (1..n) -> Seq(Pair)]
      BY <1>4 DEF Folding
    <3>2. CASE T # {}
      <4>1. Max(T) \in T
        <5>1. IsFiniteSet(1..n) /\ 1..n \subseteq Int
          BY <1>1, FS_Interval
        <5>2. IsFiniteSet(T) /\ T \subseteq Int
          BY <5>1, FS_Subset
        <5> QED BY <3>2, <5>2, MaxOf
      <4>2. f[T \ {Max(T)}] \in Seq(Pair) /\ Max(T) \in 1..n
        BY <3>1, <4>1
      <4>3. g[<<f[T \ {Max(T)}], Max(T)>>] = Op(f[T \ {Max(T)}], s[Max(T)])
        BY <4>2
      <4> QED BY <3>1, <3>2, <4>3
    <3> QED BY <3>1, <3>2
  <2>2. f = [T \in SUBSET (1..n) |-> f[T]]
    BY <1>4 DEF Folding
  <2> QED BY <1>1, <2>1, <2>2
<1> HIDE DEF Rec
<1>6. it = Rec(it)
  BY <1>5
<1>7. \A T \in SUBSET (1..n) : it[T] = IF T = {} THEN base ELSE Op(it[T \ {Max(T)}], s[Max(T)])
  <2> DEFINE i == it
  <2>1. i = Rec(i)
    BY <1>6
  <2> HIDE DEF i
  <2>2. \A T \in SUBSET (1..n) : i[T] = IF T = {} THEN base ELSE Op(i[T \ {Max(T)}], s[Max(T)])
    BY <1>1, <2>1 DEF Rec
  <2> QED BY <2>2 DEF i
<1> HIDE DEF it
<1>8. h[0] = base
  <2>1. 1..0 = {} /\ 0 \in 0..n
    BY <1>1
  <2> QED BY <1>7, <2>1
<1>9. ASSUME NEW k \in 1..n PROVE h[k] = Op(h[k - 1], s[k])
  <2>1. 1..k \in SUBSET (1..n) /\ 1..k # {} /\ Max(1..k) = k /\ (1..k) \ {k} = 1..(k - 1)
    BY <1>1, Ranges
  <2>2. it[1..k] = Op(it[1..(k - 1)], s[k])
    BY <1>7, <2>1
  <2>3. k \in 0..n /\ k - 1 \in 0..n
    BY <1>1
  <2> QED BY <2>2, <2>3
<1>10. FoldLeft(Join, base, s) = h[n]
  <2>1. n \in 0..n
    BY <1>1
  <2> QED BY <1>1, <1>3, <2>1
<1> HIDE DEF h
<1>11. \A k \in 0..n : h[k] \in Seq(Pair)
  <2> DEFINE G == {k \in 0..n : h[k] \in Seq(Pair)}
  <2>1. 0 \in G
    BY <1>1, <1>8
  <2>2. ASSUME NEW k \in 1..n, k - 1 \in G PROVE k \in G
    <3>1. h[k - 1] \in Seq(Pair) /\ s[k] \in Pair /\ k \in 0..n
      BY <1>1, <2>2
    <3>2. Op(h[k - 1], s[k]) \in Seq(Pair)
      BY <3>1, <1>2
    <3> QED BY <3>1, <3>2, <1>9
  <2> HIDE DEF G
  <2>3. \A k \in 0..n : k \in G
    BY <1>1, <2>1, <2>2, Counting
  <2> QED BY <2>3 DEF G
<1>12. Stepping(h, n, Seq(Pair), base) /\ \A k \in 1..n : h[k] = Join(h[k - 1], s[k])
  BY <1>8, <1>9, <1>11 DEF Stepping, Op
<1> QED BY <1>10, <1>12 DEF n

-----------------------------------------------------------------------------
(* Intervals are told by their points. *)

\* The points of intervals.
Points(s) == {t \in Int : \E k \in 1..Len(s) : Within(t, s[k])}

\* Intervals that are not empty, in order, with something between any two.
Canonical(s) ==
    /\ s \in Seq(Pair)
    /\ \A k \in 1..Len(s) : s[k][1] < s[k][2]
    /\ \A j, k \in 1..Len(s) : j < k => s[j][2] < s[k][1]

(***************************************************************************)
(* The elements of a canonical sequence are pairs of numbers.              *)
(***************************************************************************)
LEMMA PairsOf ==
    ASSUME NEW s \in Seq(Pair)
    PROVE  /\ Len(s) \in Nat /\ DOMAIN s = 1..Len(s)
           /\ \A k \in 1..Len(s) : s[k] \in Pair /\ s[k] = <<s[k][1], s[k][2]>> /\ s[k][1] \in Int /\ s[k][2] \in Int
<1>1. Len(s) \in Nat /\ DOMAIN s = 1..Len(s) /\ \A k \in 1..Len(s) : s[k] \in Pair
  BY LenProperties, ElementOfSeq
<1> QED BY <1>1 DEF Pair

(***************************************************************************)
(* Where two canonical sequences have the same points and agree so far,    *)
(* the second goes on and begins no later than the first.                  *)
(***************************************************************************)
LEMMA GoesOn ==
    ASSUME NEW s, NEW u, Canonical(s), Canonical(u), Points(s) = Points(u), NEW k \in 1..Len(s),
           \A i \in 1..(k - 1) : i \in 1..Len(u) /\ s[i] = u[i]
    PROVE  k \in 1..Len(u) /\ u[k][1] <= s[k][1]
<1>1. Len(s) \in Nat /\ Len(u) \in Nat
      /\ (\A i \in 1..Len(s) : s[i][1] \in Int /\ s[i][2] \in Int)
      /\ (\A i \in 1..Len(u) : u[i][1] \in Int /\ u[i][2] \in Int)
  BY PairsOf DEF Canonical
<1> DEFINE t == s[k][1]
<1>2. t \in Points(s)
  BY <1>1 DEF Points, Within, Canonical
<1>3. PICK j \in 1..Len(u) : Within(t, u[j])
  BY <1>2 DEF Points
<1>4. u[j][1] <= t /\ t < u[j][2]
  BY <1>3 DEF Within
<1>5. j >= k
  <2> SUFFICES ASSUME j < k PROVE FALSE
    BY <1>1
  <2>1. j \in 1..(k - 1) /\ j \in 1..Len(s)
    BY <1>1
  <2>2. s[j] = u[j] /\ s[j][2] < s[k][1]
    BY <2>1 DEF Canonical
  <2> QED BY <1>1, <1>4, <2>1, <2>2
<1>6. k \in 1..Len(u)
  BY <1>1, <1>5
<1>7. u[k][1] <= u[j][1]
  <2>1. CASE j = k
    BY <2>1, <1>1
  <2>2. CASE k < j
    <3>1. u[k][2] < u[j][1] /\ u[k][1] < u[k][2]
      BY <1>6, <2>2 DEF Canonical
    <3> QED BY <1>1, <1>6, <3>1
  <2> QED BY <1>5, <1>1, <2>1, <2>2
<1> QED BY <1>1, <1>4, <1>6, <1>7

(***************************************************************************)
(* Of two intervals that begin together neither ends first.                *)
(***************************************************************************)
LEMMA EndsAlike ==
    ASSUME NEW s, NEW u, Canonical(s), Canonical(u), Points(s) = Points(u),
           NEW k \in 1..Len(s), k \in 1..Len(u), s[k][1] = u[k][1]
    PROVE  u[k][2] <= s[k][2]
<1>1. Len(s) \in Nat /\ Len(u) \in Nat
      /\ (\A i \in 1..Len(s) : s[i][1] \in Int /\ s[i][2] \in Int)
      /\ (\A i \in 1..Len(u) : u[i][1] \in Int /\ u[i][2] \in Int)
  BY PairsOf DEF Canonical
<1> DEFINE t == s[k][2]
<1>2. SUFFICES ASSUME t < u[k][2] PROVE FALSE
  BY <1>1
<1>3. s[k][1] < t
  BY DEF Canonical
<1>4. t \in Points(u)
  BY <1>1, <1>2, <1>3 DEF Points, Within
<1>5. PICK i \in 1..Len(s) : Within(t, s[i])
  BY <1>4 DEF Points
<1>6. s[i][1] <= t /\ t < s[i][2]
  BY <1>5 DEF Within
<1>7. (i < k => s[i][2] < s[k][1]) /\ (k < i => s[k][2] < s[i][1])
  BY DEF Canonical
<1> QED BY <1>1, <1>3, <1>6, <1>7

(***************************************************************************)
(* A set of points is cut into intervals in one way.                       *)
(***************************************************************************)
LEMMA CanonicalUnique ==
    ASSUME NEW s, NEW u, Canonical(s), Canonical(u), Points(s) = Points(u)
    PROVE  s = u
<1>1. Len(s) \in Nat /\ Len(u) \in Nat
      /\ (\A i \in 1..Len(s) : s[i] = <<s[i][1], s[i][2]>> /\ s[i][1] \in Int /\ s[i][2] \in Int)
      /\ (\A i \in 1..Len(u) : u[i] = <<u[i][1], u[i][2]>> /\ u[i][1] \in Int /\ u[i][2] \in Int)
  BY PairsOf DEF Canonical
<1> DEFINE G == {k \in Nat : \A i \in 1..k : (i \in 1..Len(s) <=> i \in 1..Len(u)) /\ (i \in 1..Len(s) => s[i] = u[i])}
<1>2. 0 \in G
  OBVIOUS
<1>3. ASSUME NEW k \in Nat \ {0}, k - 1 \in G PROVE k \in G
  <2>1. \A i \in 1..(k - 1) : (i \in 1..Len(s) <=> i \in 1..Len(u)) /\ (i \in 1..Len(s) => s[i] = u[i])
    BY <1>3
  <2>2. ASSUME k \in 1..Len(s) PROVE k \in 1..Len(u) /\ u[k][1] <= s[k][1]
    <3>1. \A i \in 1..(k - 1) : i \in 1..Len(u) /\ s[i] = u[i]
      BY <2>1, <2>2, <1>1
    <3> QED BY <2>2, <3>1, GoesOn
  <2>3. ASSUME k \in 1..Len(u) PROVE k \in 1..Len(s) /\ s[k][1] <= u[k][1]
    <3>1. \A i \in 1..(k - 1) : i \in 1..Len(s) /\ u[i] = s[i]
      BY <2>1, <2>3, <1>1
    <3> QED BY <2>3, <3>1, GoesOn
  <2>4. ASSUME k \in 1..Len(s) PROVE s[k] = u[k]
    <3>1. k \in 1..Len(u) /\ s[k][1] = u[k][1]
      BY <2>2, <2>3, <2>4, <1>1
    <3>2. u[k][2] <= s[k][2] /\ s[k][2] <= u[k][2]
      BY <3>1, <2>4, EndsAlike
    <3>3. s[k] = <<s[k][1], s[k][2]>> /\ u[k] = <<u[k][1], u[k][2]>>
      BY <1>1, <2>4, <3>1
    <3>4. s[k][2] \in Int /\ u[k][2] \in Int
      BY <1>1, <2>4, <3>1
    <3>5. s[k][2] = u[k][2]
      BY <3>2, <3>4
    <3> QED BY <3>1, <3>3, <3>5
  <2>5. \A i \in 1..k : i \in 1..(k - 1) \/ i = k
    OBVIOUS
  <2> QED BY <2>1, <2>2, <2>3, <2>4, <2>5
<1> DEFINE n == Len(s) + Len(u)
<1>4. n \in G
  <2>1. n \in Nat
    BY <1>1
  <2>2. \A k \in 1..n : k - 1 \in G => k \in G
    BY <1>3
  <2> HIDE DEF G, n
  <2> QED BY <1>2, <2>1, <2>2, Counting
<1>5. \A i \in 1..n : (i \in 1..Len(s) <=> i \in 1..Len(u)) /\ (i \in 1..Len(s) => s[i] = u[i])
  BY <1>4
<1>6. Len(s) = Len(u)
  <2>1. Len(s) > 0 => Len(s) \in 1..Len(u)
    BY <1>1, <1>5
  <2>2. Len(u) > 0 => Len(u) \in 1..Len(s)
    BY <1>1, <1>5
  <2> QED BY <1>1, <2>1, <2>2
<1>7. \A i \in 1..Len(s) : s[i] = u[i]
  BY <1>1, <1>5
<1> QED BY <1>6, <1>7, SeqEqual DEF Canonical

(***************************************************************************)
(* A canonical sequence goes on with an interval behind it.                *)
(***************************************************************************)
LEMMA CanonicalAppend ==
    ASSUME NEW s, Canonical(s), NEW a \in Int, NEW b \in Int, a < b, \A k \in 1..Len(s) : s[k][2] < a
    PROVE  /\ Canonical(Append(s, <<a, b>>)) /\ Len(Append(s, <<a, b>>)) = Len(s) + 1
           /\ Append(s, <<a, b>>)[Len(s) + 1] = <<a, b>>
           /\ \A k \in 1..Len(s) : Append(s, <<a, b>>)[k] = s[k]
           /\ Points(Append(s, <<a, b>>)) = Points(s) \cup a..(b - 1)
<1> DEFINE r == Append(s, <<a, b>>)
<1>1. s \in Seq(Pair) /\ <<a, b>> \in Pair
  BY DEF Canonical, Pair
<1>2. /\ r \in Seq(Pair) /\ Len(r) = Len(s) + 1 /\ r[Len(s) + 1] = <<a, b>>
      /\ \A k \in 1..Len(s) : r[k] = s[k]
  BY <1>1, AppendProperties
<1>3. Len(s) \in Nat /\ (\A k \in 1..Len(s) : s[k][1] \in Int /\ s[k][2] \in Int)
  BY <1>1, PairsOf
<1> HIDE DEF r
<1>4. \A k \in 1..Len(r) : k \in 1..Len(s) \/ k = Len(s) + 1
  BY <1>2, <1>3
<1>5. \A k \in 1..Len(r) : r[k][1] < r[k][2]
  BY <1>2, <1>4 DEF Canonical
<1>6. ASSUME NEW j \in 1..Len(r), NEW k \in 1..Len(r), j < k PROVE r[j][2] < r[k][1]
  <2>1. j \in 1..Len(s)
    BY <1>2, <1>3, <1>6
  <2> QED BY <1>2, <1>4, <1>6, <2>1 DEF Canonical
<1>7. ASSUME NEW t \in Int PROVE t \in Points(r) <=> t \in Points(s) \/ t \in a..(b - 1)
  <2>1. Within(t, <<a, b>>) <=> t \in a..(b - 1)
    BY DEF Within
  <2>2. (\E k \in 1..Len(r) : Within(t, r[k])) <=> (\E k \in 1..Len(s) : Within(t, s[k])) \/ Within(t, <<a, b>>)
    <3>1. Len(s) + 1 \in 1..Len(r) /\ \A k \in 1..Len(s) : k \in 1..Len(r)
      BY <1>2, <1>3
    <3> QED BY <1>2, <1>4, <3>1
  <2> QED BY <2>1, <2>2 DEF Points
<1>8. Points(r) = Points(s) \cup a..(b - 1)
  <2>1. Points(r) \subseteq Int /\ Points(s) \subseteq Int /\ a..(b - 1) \subseteq Int
    BY DEF Points
  <2> QED BY <1>7, <2>1
<1> QED BY <1>2, <1>5, <1>6, <1>8 DEF Canonical, r

-----------------------------------------------------------------------------
(* What is left of a stretch without the exclusions. *)

\* The source is kept up to a cursor, without the intervals of S.
Spared(acc, first, limit, S) ==
    /\ acc \in Cursor /\ first <= acc.cursor /\ acc.cursor <= limit
    /\ Canonical(acc.kept)
    /\ acc.cursor < limit => \A k \in 1..Len(acc.kept) : acc.kept[k][2] < acc.cursor
    /\ acc.cursor < limit => \A x \in S : x[2] <= acc.cursor
    /\ \A t \in Int : t \in Points(acc.kept) <=> first <= t /\ t < acc.cursor /\ \A x \in S : ~Within(t, x)
    /\ \A t \in Points(acc.kept) : \E y \in S : t < y[1]

(***************************************************************************)
(* The moved interval, which begins no earlier than those before it, is     *)
(* skipped, and the source up to it kept.                                  *)
(***************************************************************************)
LEMMA SkipStep ==
    ASSUME NEW first \in Int, NEW limit \in Int, NEW acc, NEW S, S \subseteq Pair,
           Spared(acc, first, limit, S), NEW x \in Pair, x[1] < x[2], \A y \in S : y[1] <= x[1]
    PROVE  Spared(Skip(acc, x, limit), first, limit, S \cup {x})
<1> DEFINE c == acc.cursor
           s == Clamp(x[1], c, limit)
           e == Clamp(x[2], s, limit)
           moved == Skip(acc, x, limit)
<1>1. /\ acc \in Cursor /\ c \in Int /\ acc.kept \in Seq(Pair) /\ x[1] \in Int /\ x[2] \in Int
      /\ first <= c /\ c <= limit
  BY DEF Spared, Cursor, Pair
<1>2. s \in Int /\ s = IF limit <= c \/ x[1] <= c THEN c ELSE IF x[1] <= limit THEN x[1] ELSE limit
  BY <1>1, Clamped
<1>3. e \in Int /\ e = IF limit <= s \/ x[2] <= s THEN s ELSE IF x[2] <= limit THEN x[2] ELSE limit
  <2> DEFINE to == x[2]
  <2>1. to \in Int /\ s \in Int
    BY <1>1, <1>2
  <2> HIDE DEF s, to
  <2>2. Clamp(to, s, limit) \in Int
        /\ Clamp(to, s, limit) = IF limit <= s \/ to <= s THEN s ELSE IF to <= limit THEN to ELSE limit
    BY <2>1, Clamped
  <2> QED BY <2>2 DEF to
<1>4. /\ moved \in Cursor /\ moved.cursor = (IF c >= e THEN c ELSE e)
      /\ moved.kept = IF s > c THEN Append(acc.kept, <<c, s>>) ELSE acc.kept
  BY <1>1, SkipType
<1> HIDE DEF c, s, e, moved
<1>5. \A y \in S : y[1] \in Int /\ y[2] \in Int
  BY DEF Pair
<1>6. /\ Canonical(acc.kept)
      /\ c < limit => \A k \in 1..Len(acc.kept) : acc.kept[k][2] < c
      /\ c < limit => \A y \in S : y[2] <= c
      /\ \A t \in Int : t \in Points(acc.kept) <=> first <= t /\ t < c /\ \A y \in S : ~Within(t, y)
      /\ \A t \in Points(acc.kept) : \E y \in S : t < y[1]
  BY DEF Spared, c
<1>7. c <= s /\ s <= limit /\ s <= e /\ e <= limit /\ moved.cursor = e
  BY <1>1, <1>2, <1>3, <1>4
<1>8. \A t \in Points(acc.kept) : t \in Int /\ t < x[1]
  <2> SUFFICES ASSUME NEW t \in Points(acc.kept) PROVE t \in Int /\ t < x[1]
    OBVIOUS
  <2>1. t \in Int
    BY DEF Points
  <2>2. PICK y \in S : t < y[1]
    BY <1>6
  <2> QED BY <2>1, <2>2, <1>5, <1>1
<1>9. \A t \in Int : s <= t /\ t < e => Within(t, x)
  BY <1>1, <1>2, <1>3, <1>7 DEF Within
<1>10. CASE s > c
  <2>1. c < limit /\ s <= x[1]
    BY <1>1, <1>2, <1>10
  <2>2. /\ Canonical(moved.kept) /\ Len(moved.kept) = Len(acc.kept) + 1 /\ moved.kept[Len(acc.kept) + 1] = <<c, s>>
        /\ \A k \in 1..Len(acc.kept) : moved.kept[k] = acc.kept[k]
        /\ Points(moved.kept) = Points(acc.kept) \cup c..(s - 1)
    <3>1. moved.kept = Append(acc.kept, <<c, s>>) /\ Canonical(acc.kept) /\ c < s
          /\ \A k \in 1..Len(acc.kept) : acc.kept[k][2] < c
      BY <1>1, <1>2, <1>4, <1>6, <1>10, <2>1
    <3> DEFINE old == acc.kept
    <3>2. Canonical(old) /\ \A k \in 1..Len(old) : old[k][2] < c
      BY <3>1
    <3> HIDE DEF old
    <3>3. /\ Canonical(Append(old, <<c, s>>)) /\ Len(Append(old, <<c, s>>)) = Len(old) + 1
          /\ Append(old, <<c, s>>)[Len(old) + 1] = <<c, s>>
          /\ \A k \in 1..Len(old) : Append(old, <<c, s>>)[k] = old[k]
          /\ Points(Append(old, <<c, s>>)) = Points(old) \cup c..(s - 1)
      BY <3>1, <3>2, <1>1, <1>2, CanonicalAppend
    <3> QED BY <3>1, <3>3 DEF old
  <2>3. e < limit => s < e
    BY <1>1, <1>2, <1>3, <1>10
  <2>4. ASSUME e < limit, NEW k \in 1..Len(moved.kept) PROVE moved.kept[k][2] < e
    <3>0. Len(acc.kept) \in Nat /\ \A i \in 1..Len(acc.kept) : acc.kept[i][2] \in Int
      BY <1>1, PairsOf
    <3>1. CASE k \in 1..Len(acc.kept)
      <4>1. moved.kept[k] = acc.kept[k] /\ acc.kept[k][2] < c /\ acc.kept[k][2] \in Int
        BY <3>0, <3>1, <2>1, <2>2, <1>6
      <4> QED BY <4>1, <1>1, <1>2, <1>3, <1>7
    <3>2. CASE k = Len(acc.kept) + 1
      BY <3>2, <2>2, <2>3, <2>4
    <3> QED BY <3>0, <3>1, <3>2, <2>2
  <2>5. ASSUME e < limit, NEW y \in S \cup {x} PROVE y[2] <= e
    <3>1. CASE y \in S
      BY <3>1, <1>1, <1>2, <1>3, <1>5, <1>6, <1>7, <2>1
    <3>2. CASE y = x
      BY <3>2, <2>5, <1>1, <1>2, <1>3
    <3> QED BY <3>1, <3>2
  <2>6. ASSUME NEW t \in Int PROVE t \in Points(moved.kept) <=> first <= t /\ t < e /\ \A y \in S \cup {x} : ~Within(t, y)
    <3>1. t \in Points(moved.kept) <=> t \in Points(acc.kept) \/ (c <= t /\ t < s)
      BY <2>2, <1>1, <1>2
    <3>2. ASSUME t < c PROVE t \in Points(acc.kept) <=> first <= t /\ \A y \in S \cup {x} : ~Within(t, y)
      <4>1. t \in Points(acc.kept) <=> first <= t /\ \A y \in S : ~Within(t, y)
        BY <1>6, <3>2
      <4>2. t \in Points(acc.kept) => ~Within(t, x)
        BY <1>1, <1>8 DEF Within
      <4> QED BY <4>1, <4>2
    <3>3. t \in Points(acc.kept) => t < c
      BY <1>6
    <3>4. ASSUME c <= t, t < s PROVE first <= t /\ t < e /\ \A y \in S \cup {x} : ~Within(t, y)
      <4>1. \A y \in S : ~Within(t, y)
        BY <3>4, <1>1, <1>5, <1>6, <2>1 DEF Within
      <4>2. ~Within(t, x)
        BY <3>4, <1>1, <1>2, <2>1 DEF Within
      <4> QED BY <3>4, <4>1, <4>2, <1>1, <1>2, <1>3, <1>7
    <3>5. t < c => t < e
      BY <1>1, <1>2, <1>3, <1>7
    <3>6. c <= t \/ t < c
      BY <1>1
    <3>7. s <= t \/ t < s
      BY <1>2
    <3> QED BY <3>1, <3>2, <3>3, <3>4, <3>5, <3>6, <3>7, <1>9
  <2>7. ASSUME NEW t \in Points(moved.kept) PROVE \E y \in S \cup {x} : t < y[1]
    <3>1. t \in Points(acc.kept) \/ t < s
      BY <2>2, <2>7, <1>1, <1>2
    <3> QED BY <3>1, <1>1, <1>2, <1>8, <2>1, <2>2, <2>7
  <2>8. moved.cursor = e /\ moved \in Cursor /\ first <= e /\ e <= limit
    BY <1>1, <1>2, <1>3, <1>4, <1>7
  <2>9. Spared(moved, first, limit, S \cup {x})
    BY <2>2, <2>4, <2>5, <2>6, <2>7, <2>8 DEF Spared
  <2> QED BY <2>9 DEF moved
<1>11. CASE ~(s > c)
  <2>1. s = c /\ moved.kept = acc.kept
    BY <1>1, <1>2, <1>4, <1>7, <1>11
  <2>2. ASSUME e < limit PROVE c < limit /\ c <= e /\ x[2] <= e
    BY <2>1, <2>2, <1>1, <1>2, <1>3, <1>7
  <2>3. ASSUME e < limit, NEW k \in 1..Len(acc.kept) PROVE acc.kept[k][2] < e
    <3>1. acc.kept[k][2] \in Int
      BY <1>1, PairsOf
    <3>2. acc.kept[k][2] < c
      BY <1>6, <2>2, <2>3
    <3> QED BY <3>1, <3>2, <1>1, <1>3, <2>2, <2>3
  <2>4. ASSUME e < limit, NEW y \in S \cup {x} PROVE y[2] <= e
    <3>1. y \in S => y[2] <= c /\ y[2] \in Int
      BY <1>5, <1>6, <2>2, <2>4
    <3> QED BY <3>1, <1>1, <1>3, <2>2, <2>4
  <2>5. ASSUME NEW t \in Int PROVE t \in Points(acc.kept) <=> first <= t /\ t < e /\ \A y \in S \cup {x} : ~Within(t, y)
    <3>1. t \in Points(acc.kept) <=> first <= t /\ t < c /\ \A y \in S : ~Within(t, y)
      BY <1>6
    <3>2. t \in Points(acc.kept) => ~Within(t, x)
      BY <1>1, <1>8 DEF Within
    <3>3. t < c => t < e
      BY <1>1, <1>3, <1>7, <2>1
    <3>4. t < e => t < c \/ Within(t, x)
      BY <1>1, <1>3, <1>9, <2>1
    <3> QED BY <3>1, <3>2, <3>3, <3>4
  <2>6. \A t \in Points(acc.kept) : \E y \in S \cup {x} : t < y[1]
    BY <1>6
  <2> QED BY <1>1, <1>3, <1>4, <1>6, <1>7, <2>1, <2>3, <2>4, <2>5, <2>6 DEF Spared, moved
<1> QED BY <1>10, <1>11

\* What can be taken out of an episode.
CutSet(S) == IsFiniteSet(S) /\ S \subseteq Pair /\ \A x \in S : x[1] < x[2]

(***************************************************************************)
(* What is left of a stretch: the points of it in no exclusion, in         *)
(* intervals as long as they can be, in order.                             *)
(***************************************************************************)
LEMMA SourceRangesFacts ==
    ASSUME NEW start \in Int, NEW end \in Int, NEW excl, CutSet(excl)
    PROVE  /\ Canonical(SourceRanges(start, end, excl))
           /\ \A t \in Int : t \in Points(SourceRanges(start, end, excl)) <=>
                               0 <= t /\ start <= t /\ t < end /\ \A x \in excl : ~Within(t, x)
<1> DEFINE first == Max({0, start})
           limit == Max({first, end})
           s == InOrder(excl)
           n == Len(s)
           base == [cursor |-> first, kept |-> << >>]
           rest == FoldLeft(LAMBDA acc, iv : Skip(acc, iv, limit), base, s)
           upto(k) == {s[j] : j \in 1..k}
<1>1. first \in Int /\ first = IF 0 >= start THEN 0 ELSE start
  BY Two
<1>2. limit \in Int /\ limit = IF first >= end THEN first ELSE end
  BY <1>1, Two
<1>3. Lists(s, excl) /\ \A j, k \in 1..n : j < k => Earlier(s[j], s[k])
  <2>1. excl \subseteq Int \X Int /\ IsFiniteSet(excl)
    BY DEF CutSet, Pair
  <2> QED BY <2>1, InOrderFacts
<1>4. SourceRanges(start, end, excl) = IF rest.cursor < limit THEN Append(rest.kept, <<rest.cursor, limit>>) ELSE rest.kept
  BY DEF SourceRanges
<1> HIDE DEF first, limit, s
<1>5. /\ n \in Nat /\ s \in Seq(Pair) /\ \A k \in 1..n : s[k] \in excl /\ s[k] \in Pair /\ s[k][1] < s[k][2]
      /\ \A x \in excl : \E k \in 1..n : s[k] = x
  <2>1. s \in Seq(excl) /\ excl \subseteq Pair /\ n \in Nat /\ \A k \in 1..n : s[k] \in excl
    BY <1>3, LenProperties DEF Lists, CutSet
  <2>2. s \in Seq(Pair)
    <3>1. s \in [1..n -> excl]
      BY <2>1, LenProperties
    <3>2. s \in [1..n -> Pair]
      BY <3>1, <2>1
    <3> QED BY <3>2, <2>1, IsASeq
  <2> QED BY <2>1, <2>2, <1>3 DEF Lists, CutSet
<1>6. base \in Cursor
  BY <1>1, EmptySeq DEF Cursor
<1>7. PICK h : /\ Stepping(h, n, Cursor, base) /\ \A k \in 1..n : h[k] = Skip(h[k - 1], s[k], limit)
               /\ rest = h[n]
  <2> HIDE DEF base
  <2>1. s \in Seq(Pair)
    BY <1>5
  <2>2. \E h : /\ Stepping(h, Len(s), Cursor, base)
               /\ \A k \in 1..Len(s) : h[k] = Skip(h[k - 1], s[k], limit)
               /\ FoldLeft(LAMBDA acc, iv : Skip(acc, iv, limit), base, s) = h[Len(s)]
    BY <2>1, <1>2, <1>6, SkipFold
  <2> QED BY <2>2
<1> HIDE DEF n, rest, base
<1> DEFINE G == {k \in 0..n : Spared(h[k], first, limit, upto(k))}
<1>8. 0 \in G
  <2>1. h[0] = [cursor |-> first, kept |-> << >>] /\ upto(0) = {}
    BY <1>7 DEF Stepping, base
  <2>2. Canonical(<< >>) /\ Points(<< >>) = {} /\ Len(<< >>) = 0
    BY EmptySeq DEF Canonical, Points
  <2>3. Spared(h[0], first, limit, {})
    BY <2>1, <2>2, <1>1, <1>2, <1>6 DEF Spared, base
  <2>4. 0 \in 0..n
    BY <1>5 DEF n
  <2>5. Spared(h[0], first, limit, upto(0))
    BY <2>1, <2>3
  <2> QED BY <2>4, <2>5
<1>9. ASSUME NEW k \in 1..n, k - 1 \in G PROVE k \in G
  <2>1. h[k] = Skip(h[k - 1], s[k], limit) /\ Spared(h[k - 1], first, limit, upto(k - 1))
    BY <1>7, <1>9
  <2>2. upto(k - 1) \subseteq Pair
    BY <1>5, <1>9
  <2>3. \A y \in upto(k - 1) : y[1] <= s[k][1]
    <3> SUFFICES ASSUME NEW j \in 1..(k - 1) PROVE s[j][1] <= s[k][1]
      OBVIOUS
    <3>1. j \in 1..n /\ j < k
      BY <1>5, <1>9
    <3>2. Earlier(s[j], s[k]) /\ s[j] \in Pair /\ s[k] \in Pair
      BY <3>1, <1>3, <1>5 DEF n
    <3> QED BY <3>2 DEF Earlier, Pair
  <2>4. upto(k) = upto(k - 1) \cup {s[k]}
    <3>1. \A j \in 1..k : j \in 1..(k - 1) \/ j = k
      BY <1>9
    <3>2. \A j \in 1..(k - 1) : j \in 1..k
      BY <1>9
    <3> QED BY <3>1, <3>2
  <2> HIDE DEF upto
  <2>5. Spared(h[k], first, limit, upto(k))
    <3>1. s[k] \in Pair /\ s[k][1] < s[k][2]
      BY <1>5, <1>9
    <3>2. Spared(Skip(h[k - 1], s[k], limit), first, limit, upto(k - 1) \cup {s[k]})
      BY <2>1, <2>2, <2>3, <3>1, <1>1, <1>2, SkipStep
    <3> QED BY <2>1, <2>4, <3>2
  <2>6. k \in 0..n
    BY <1>5, <1>9 DEF n
  <2> QED BY <2>5, <2>6
<1>10. Spared(rest, first, limit, excl)
  <2> HIDE DEF G
  <2>0. n \in Nat
    BY <1>5 DEF n
  <2>1. n \in G
    <3>1. \A k \in 0..n : k \in G
      BY <2>0, <1>8, <1>9, Counting
    <3> QED BY <2>0, <3>1
  <2>2. Spared(h[n], first, limit, upto(n))
    BY <2>1 DEF G
  <2>3. upto(n) = excl
    BY <1>5
  <2> QED BY <2>2, <2>3, <1>7
<1>11. excl \subseteq Pair /\ \A x \in excl : x[1] \in Int /\ x[2] \in Int
  BY DEF CutSet, Pair
<1> DEFINE r == SourceRanges(start, end, excl)
           c == rest.cursor
<1>12. c \in Int /\ first <= c /\ c <= limit /\ Canonical(rest.kept)
       /\ (c < limit => \A k \in 1..Len(rest.kept) : rest.kept[k][2] < c)
       /\ (c < limit => \A x \in excl : x[2] <= c)
       /\ \A t \in Int : t \in Points(rest.kept) <=> first <= t /\ t < c /\ \A x \in excl : ~Within(t, x)
  BY <1>10 DEF Spared, Cursor
<1>13. \A t \in Int : (0 <= t /\ start <= t /\ t < end) <=> (first <= t /\ t < limit)
  BY <1>1, <1>2
<1>14. CASE c < limit
  <2>1. r = Append(rest.kept, <<c, limit>>)
    BY <1>4, <1>14
  <2> HIDE DEF r, c
  <2> DEFINE w == rest.kept
  <2>0. /\ Canonical(w) /\ c \in Int /\ limit \in Int /\ c < limit
        /\ \A k \in 1..Len(w) : w[k][2] < c
    BY <1>2, <1>12, <1>14
  <2> HIDE DEF w
  <2>a. Canonical(Append(w, <<c, limit>>)) /\ Points(Append(w, <<c, limit>>)) = Points(w) \cup c..(limit - 1)
    BY <2>0, CanonicalAppend
  <2> USE DEF w
  <2>2. Canonical(r) /\ Points(r) = Points(rest.kept) \cup c..(limit - 1)
    BY <2>1, <2>a
  <2>3. ASSUME NEW t \in Int PROVE t \in Points(r) <=> first <= t /\ t < limit /\ \A x \in excl : ~Within(t, x)
    <3>1. t \in Points(r) <=> t \in Points(rest.kept) \/ (c <= t /\ t < limit)
      BY <2>2, <1>2, <1>12
    <3>2. c <= t => \A x \in excl : ~Within(t, x)
      BY <1>11, <1>12, <1>14 DEF Within
    <3> QED BY <3>1, <3>2, <1>1, <1>2, <1>12
  <2> QED BY <2>2, <2>3, <1>13 DEF r
<1>15. CASE ~(c < limit)
  <2>1. r = rest.kept /\ c = limit
    BY <1>2, <1>4, <1>12, <1>15
  <2> QED BY <2>1, <1>12, <1>13
<1> QED BY <1>14, <1>15

-----------------------------------------------------------------------------
(* Intervals joined. *)

\* The intervals of S are joined.
Joined(acc, S) ==
    /\ Canonical(acc)
    /\ \A t \in Int : t \in Points(acc) <=> \E x \in S : Within(t, x)
    /\ \A k \in 1..Len(acc) : \E y \in S : acc[k][1] <= y[1]

(***************************************************************************)
(* The moved interval, which begins no earlier than those before it, goes   *)
(* into the last one or behind it.                                         *)
(***************************************************************************)
LEMMA JoinStep ==
    ASSUME NEW acc, NEW S, S \subseteq Pair, Joined(acc, S),
           NEW x \in Pair, x[1] < x[2], \A y \in S : y[1] <= x[1]
    PROVE  Joined(Join(acc, x), S \cup {x})
<1> DEFINE n == Len(acc)
           moved == Join(acc, x)
<1>1. /\ Canonical(acc) /\ acc \in Seq(Pair) /\ n \in Nat /\ DOMAIN acc = 1..n
      /\ (\A k \in 1..n : acc[k] = <<acc[k][1], acc[k][2]>> /\ acc[k][1] \in Int /\ acc[k][2] \in Int
                          /\ acc[k][1] < acc[k][2])
      /\ (\A j, k \in 1..n : j < k => acc[j][2] < acc[k][1])
      /\ (\A t \in Int : t \in Points(acc) <=> \E y \in S : Within(t, y))
      /\ Points(acc) \subseteq Int
  BY PairsOf DEF Joined, Canonical, Points
<1>2. x = <<x[1], x[2]>> /\ x[1] \in Int /\ x[2] \in Int /\ \A y \in S : y[1] \in Int /\ y[2] \in Int
  BY DEF Pair
<1>3. \A k \in 1..n : acc[k][1] <= x[1]
  <2> SUFFICES ASSUME NEW k \in 1..n PROVE acc[k][1] <= x[1]
    OBVIOUS
  <2>1. PICK y \in S : acc[k][1] <= y[1]
    BY DEF Joined
  <2> QED BY <2>1, <1>1, <1>2
<1>4. (acc # << >> <=> n > 0) /\ (n > 0 => Last(acc) = acc[n])
  BY <1>1, EmptySeq DEF Last
<1>5. CASE n > 0 /\ x[1] <= acc[n][2]
  <2> DEFINE a == acc[n][1]
             b == IF acc[n][2] >= x[2] THEN acc[n][2] ELSE x[2]
  <2>1. n \in 1..n /\ a \in Int /\ b \in Int /\ a < b /\ acc[n][2] \in Int
    BY <1>1, <1>2, <1>5
  <2>2. moved = [acc EXCEPT ![n] = <<a, b>>]
    <3>1. Max({acc[n][2], x[2]}) = b
      BY <2>1, <1>2, Two
    <3>2. moved = [acc EXCEPT ![n] = <<acc[n][1], Max({acc[n][2], x[2]})>>]
      BY <1>4, <1>5 DEF Join
    <3> QED BY <3>1, <3>2
  <2>3. <<a, b>> \in Pair
    BY <2>1 DEF Pair
  <2>4. /\ moved \in Seq(Pair) /\ Len(moved) = n /\ moved[n] = <<a, b>>
        /\ \A k \in 1..n : k # n => moved[k] = acc[k]
    <3>1. moved \in Seq(Pair) /\ Len(moved) = n
      BY <2>1, <2>2, <2>3, <1>1, ExceptSeq
    <3> QED BY <3>1, <2>1, <2>2, <1>1
  <2> HIDE DEF moved, b, n
  <2>5. \A k \in 1..Len(moved) : moved[k][1] < moved[k][2]
    <3> SUFFICES ASSUME NEW k \in 1..n PROVE moved[k][1] < moved[k][2]
      BY <2>4
    <3>1. CASE k = n
      BY <2>1, <2>4, <3>1
    <3>2. CASE k # n
      <4>1. moved[k] = acc[k] /\ acc[k][1] < acc[k][2]
        BY <2>4, <1>1, <3>2
      <4> QED BY <4>1
    <3> QED BY <3>1, <3>2
  <2>6. \A j, k \in 1..Len(moved) : j < k => moved[j][2] < moved[k][1]
    <3> SUFFICES ASSUME NEW j \in 1..n, NEW k \in 1..n, j < k PROVE moved[j][2] < moved[k][1]
      BY <2>4
    <3>1. moved[j] = acc[j] /\ acc[j][2] < acc[k][1]
      BY <2>4, <1>1
    <3>2. moved[k][1] = acc[k][1]
      BY <2>4
    <3> QED BY <3>1, <3>2
  <2>7. ASSUME NEW t \in Int PROVE t \in Points(moved) <=> \E y \in S \cup {x} : Within(t, y)
    <3>1. Within(t, moved[n]) <=> Within(t, acc[n]) \/ Within(t, x)
      <4>0. a <= x[1] /\ x[1] <= acc[n][2]
        BY <1>3, <1>5, <2>1
      <4>1. Within(t, moved[n]) <=> a <= t /\ t < b
        BY <2>4 DEF Within
      <4>2. Within(t, acc[n]) <=> a <= t /\ t < acc[n][2]
        BY DEF Within
      <4>3. Within(t, x) <=> x[1] <= t /\ t < x[2]
        BY DEF Within
      <4> QED BY <4>0, <4>1, <4>2, <4>3, <1>2, <2>1 DEF b
    <3>2. (\E k \in 1..n : Within(t, moved[k])) <=> (\E k \in 1..n : Within(t, acc[k])) \/ Within(t, x)
      BY <3>1, <2>1, <2>4
    <3>3. t \in Points(moved) <=> t \in Points(acc) \/ Within(t, x)
      BY <3>2, <2>4 DEF Points, n
    <3> QED BY <3>3, <1>1
  <2>8. \A k \in 1..Len(moved) : \E y \in S \cup {x} : moved[k][1] <= y[1]
    <3> SUFFICES ASSUME NEW k \in 1..n PROVE moved[k][1] <= x[1]
      BY <2>4
    <3>1. moved[k][1] = acc[k][1]
      BY <2>4
    <3> QED BY <3>1, <1>3
  <2> QED BY <2>4, <2>5, <2>6, <2>7, <2>8 DEF Joined, Canonical, moved
<1>6. CASE ~(n > 0 /\ x[1] <= acc[n][2])
  <2>1. moved = Append(acc, <<x[1], x[2]>>)
    BY <1>2, <1>4, <1>6 DEF Join
  <2>2. ASSUME NEW k \in 1..n PROVE acc[k][2] < x[1]
    <3>1. n \in 1..n /\ acc[n][2] < x[1] /\ acc[n][1] < acc[n][2] /\ acc[n][1] \in Int /\ acc[n][2] \in Int
      BY <1>1, <1>2, <1>6
    <3>2. k < n => acc[k][2] < acc[n][1]
      BY <3>1, <1>1
    <3>3. acc[k][2] \in Int
      BY <1>1
    <3> QED BY <3>1, <3>2, <3>3, <1>1, <1>2
  <2> DEFINE a == x[1]
             b == x[2]
  <2>3. a \in Int /\ b \in Int /\ a < b /\ \A k \in 1..Len(acc) : acc[k][2] < a
    BY <1>2, <2>2
  <2> HIDE DEF a, b
  <2>4. /\ Canonical(Append(acc, <<a, b>>)) /\ Len(Append(acc, <<a, b>>)) = Len(acc) + 1
        /\ Append(acc, <<a, b>>)[Len(acc) + 1] = <<a, b>>
        /\ \A k \in 1..Len(acc) : Append(acc, <<a, b>>)[k] = acc[k]
        /\ Points(Append(acc, <<a, b>>)) = Points(acc) \cup a..(b - 1)
    BY <2>3, <1>1, CanonicalAppend
  <2>5. /\ Canonical(moved) /\ Len(moved) = n + 1 /\ moved[n + 1] = <<x[1], x[2]>>
        /\ \A k \in 1..n : moved[k] = acc[k]
        /\ Points(moved) = Points(acc) \cup x[1]..(x[2] - 1)
    BY <2>1, <2>4 DEF a, b
  <2> HIDE DEF moved, n
  <2>6. ASSUME NEW t \in Int PROVE t \in Points(moved) <=> \E y \in S \cup {x} : Within(t, y)
    <3>1. Within(t, x) <=> t \in x[1]..(x[2] - 1)
      BY <1>2 DEF Within
    <3> QED BY <3>1, <2>5, <1>1
  <2>7. \A k \in 1..Len(moved) : \E y \in S \cup {x} : moved[k][1] <= y[1]
    <3>1. \A k \in 1..Len(moved) : k \in 1..n \/ k = n + 1
      BY <2>5, <1>1
    <3> QED BY <3>1, <2>5, <1>2, <1>3
  <2> QED BY <2>5, <2>6, <2>7 DEF Joined, moved
<1> QED BY <1>5, <1>6

(***************************************************************************)
(* Joining intervals keeps their points, in intervals as long as they can  *)
(* be, in order.                                                           *)
(***************************************************************************)
LEMMA MergedFacts ==
    ASSUME NEW S, CutSet(S)
    PROVE  /\ Canonical(Merged(S))
           /\ \A t \in Int : t \in Points(Merged(S)) <=> \E x \in S : Within(t, x)
<1> DEFINE s == InOrder(S)
           n == Len(s)
           upto(k) == {s[j] : j \in 1..k}
<1>3. Lists(s, S) /\ \A j, k \in 1..n : j < k => Earlier(s[j], s[k])
  <2>1. S \subseteq Int \X Int /\ IsFiniteSet(S)
    BY DEF CutSet, Pair
  <2> QED BY <2>1, InOrderFacts
<1>4. Merged(S) = FoldLeft(Join, << >>, s)
  BY DEF Merged
<1> HIDE DEF s
<1>5. /\ n \in Nat /\ s \in Seq(Pair) /\ \A k \in 1..n : s[k] \in S /\ s[k] \in Pair /\ s[k][1] < s[k][2]
      /\ \A x \in S : \E k \in 1..n : s[k] = x
  <2>1. s \in Seq(S) /\ S \subseteq Pair /\ n \in Nat /\ \A k \in 1..n : s[k] \in S
    BY <1>3, LenProperties DEF Lists, CutSet
  <2>2. s \in Seq(Pair)
    <3>1. s \in [1..n -> S]
      BY <2>1, LenProperties
    <3>2. s \in [1..n -> Pair]
      BY <3>1, <2>1
    <3> QED BY <3>2, <2>1, IsASeq
  <2> QED BY <2>1, <2>2, <1>3 DEF Lists, CutSet
<1>6. << >> \in Seq(Pair)
  BY EmptySeq
<1>7. PICK h : /\ Stepping(h, n, Seq(Pair), << >>) /\ \A k \in 1..n : h[k] = Join(h[k - 1], s[k])
               /\ Merged(S) = h[n]
  <2>1. s \in Seq(Pair)
    BY <1>5
  <2>2. \E h : /\ Stepping(h, Len(s), Seq(Pair), << >>)
               /\ \A k \in 1..Len(s) : h[k] = Join(h[k - 1], s[k])
               /\ FoldLeft(Join, << >>, s) = h[Len(s)]
    BY <2>1, <1>6, JoinFold
  <2> QED BY <2>2, <1>4
<1> HIDE DEF n
<1> DEFINE G == {k \in 0..n : Joined(h[k], upto(k))}
<1>8. 0 \in G
  <2>1. h[0] = << >> /\ upto(0) = {}
    BY <1>7 DEF Stepping
  <2>2. Canonical(<< >>) /\ Points(<< >>) = {} /\ Len(<< >>) = 0
    BY EmptySeq DEF Canonical, Points
  <2>3. Joined(h[0], {})
    BY <2>1, <2>2 DEF Joined
  <2>4. 0 \in 0..n
    BY <1>5 DEF n
  <2>5. Joined(h[0], upto(0))
    BY <2>1, <2>3
  <2> QED BY <2>4, <2>5
<1>9. ASSUME NEW k \in 1..n, k - 1 \in G PROVE k \in G
  <2>1. h[k] = Join(h[k - 1], s[k]) /\ Joined(h[k - 1], upto(k - 1))
    BY <1>7, <1>9
  <2>2. upto(k - 1) \subseteq Pair
    BY <1>5, <1>9
  <2>3. \A y \in upto(k - 1) : y[1] <= s[k][1]
    <3> SUFFICES ASSUME NEW j \in 1..(k - 1) PROVE s[j][1] <= s[k][1]
      OBVIOUS
    <3>1. j \in 1..n /\ j < k
      BY <1>5, <1>9
    <3>2. Earlier(s[j], s[k]) /\ s[j] \in Pair /\ s[k] \in Pair
      BY <3>1, <1>3, <1>5 DEF n
    <3> QED BY <3>2 DEF Earlier, Pair
  <2>4. upto(k) = upto(k - 1) \cup {s[k]}
    <3>1. \A j \in 1..k : j \in 1..(k - 1) \/ j = k
      BY <1>9
    <3>2. \A j \in 1..(k - 1) : j \in 1..k
      BY <1>9
    <3> QED BY <3>1, <3>2
  <2> HIDE DEF upto
  <2>5. Joined(h[k], upto(k))
    <3>1. s[k] \in Pair /\ s[k][1] < s[k][2]
      BY <1>5, <1>9
    <3>2. Joined(Join(h[k - 1], s[k]), upto(k - 1) \cup {s[k]})
      BY <2>1, <2>2, <2>3, <3>1, JoinStep
    <3> QED BY <2>1, <2>4, <3>2
  <2>6. k \in 0..n
    BY <1>5, <1>9 DEF n
  <2> QED BY <2>5, <2>6
<1>10. Joined(Merged(S), S)
  <2> HIDE DEF G
  <2>0. n \in Nat
    BY <1>5 DEF n
  <2>1. n \in G
    <3>1. \A k \in 0..n : k \in G
      BY <2>0, <1>8, <1>9, Counting
    <3> QED BY <2>0, <3>1
  <2>2. Joined(h[n], upto(n))
    BY <2>1 DEF G
  <2>3. upto(n) = S
    BY <1>5
  <2> QED BY <2>2, <2>3, <1>7
<1> QED BY <1>10 DEF Joined

-----------------------------------------------------------------------------
(* Cues and their order. *)

(***************************************************************************)
(* What a function gives for finitely many arguments is finite.            *)
(***************************************************************************)
LEMMA FiniteImage ==
    ASSUME NEW S, IsFiniteSet(S), NEW f
    PROVE  IsFiniteSet({f[x] : x \in S})
<1> DEFINE T == {f[x] : x \in S}
           g == [x \in S |-> f[x]]
<1>1. g \in Surjection(S, T)
  BY DEF Surjection
<1> HIDE DEF g, T
<1>2. IsFiniteSet(T)
  BY <1>1, FS_Surjection
<1> QED BY <1>2 DEF T

\* The cues of a plan: what tells what, at which line, and where.
Policies == Overlays \cup {Insert, "after_aligned_speech_gap", "insert_for_dense_action"}
CueSet(book) ==
    [id : DOMAIN book.frags, frags : SUBSET (DOMAIN book.frags), ep : 1..book.eps,
     anchor : DOMAIN book.lines, start : Int, at : Int, bound : Int, gap : {<< >>} \cup Pair,
     policy : Policies, side : {"none", "before", "after"}, purpose : {"none"} \cup STRING, pause : BOOLEAN, est : Int, sure : BOOLEAN]
\* ... of which those laid over the original have a pause.
Cued(book) == {c \in CueSet(book) : c.policy \in Overlays => c.gap \in Pair}

\* What the larger and the smaller of two numbers bound.
LEMMA Bounded ==
    ASSUME NEW a \in Int, NEW b \in Int
    PROVE  /\ Max({a, b}) \in Int /\ a <= Max({a, b}) /\ b <= Max({a, b})
           /\ Min({a, b}) \in Int /\ Min({a, b}) <= a /\ Min({a, b}) <= b
BY Two

\* Cues by episode and place; equal ones keep their order.
Sooner(cs, i, j) == \/ cs[i].ep < cs[j].ep
                    \/ cs[i].ep = cs[j].ep
                         /\ (cs[i].at < cs[j].at \/ (cs[i].at = cs[j].at /\ i < j))
SoonerOf(cs, p) == Sooner(cs, p[1], p[2])
PlaceOn(cs, S) == {p \in S \X S : SoonerOf(cs, p)}

\* PlaceOn is Sooner ...
LEMMA PlaceOnIs ==
    ASSUME NEW cs, NEW S, NEW x \in S, NEW y \in S
    PROVE  <<x, y>> \in PlaceOn(cs, S) <=> Sooner(cs, x, y)
<1>1. <<x, y>> \in PlaceOn(cs, S) <=> SoonerOf(cs, <<x, y>>)
  BY DEF PlaceOn
<1>2. SoonerOf(cs, <<x, y>>) <=> Sooner(cs, x, y)
  BY DEF SoonerOf, Sooner
<1> QED BY <1>1, <1>2

\* ... and orders the cues strictly and totally.
LEMMA PlaceOrders ==
    ASSUME NEW cs, DOMAIN cs \subseteq Int, \A k \in DOMAIN cs : cs[k].ep \in Int /\ cs[k].at \in Int
    PROVE  Orders(PlaceOn(cs, DOMAIN cs), DOMAIN cs)
<1> DEFINE D == DOMAIN cs
<1>1. \A x, y \in D : <<x, y>> \in PlaceOn(cs, D) <=> Sooner(cs, x, y)
  BY PlaceOnIs
<1>2. \A x \in D : x \in Int
  OBVIOUS
<1>3. ASSUME NEW x \in D PROVE ~Sooner(cs, x, x)
  BY <1>2 DEF Sooner
<1>4. ASSUME NEW x \in D, NEW y \in D, NEW z \in D, Sooner(cs, x, y), Sooner(cs, y, z) PROVE Sooner(cs, x, z)
  BY <1>2, <1>4 DEF Sooner
<1>5. ASSUME NEW x \in D, NEW y \in D, x # y PROVE Sooner(cs, x, y) \/ Sooner(cs, y, x)
  BY <1>2, <1>5 DEF Sooner
<1> QED BY <1>1, <1>3, <1>4, <1>5 DEF Orders

\* ByPlace sorts the cues by that order.
LEMMA ByPlaceIsSorted ==
    ASSUME NEW cs
    PROVE  ByPlace(cs) = [k \in DOMAIN cs |-> cs[SortedBy(DOMAIN cs, PlaceOn(cs, DOMAIN cs))[k]]]
<1> DEFINE D == DOMAIN cs
           a(k) == CHOOSE x \in D : Cardinality({y \in D : Sooner(cs, y, x)}) = k - 1
           b(k) == CHOOSE x \in D : Cardinality(Lower(x, PlaceOn(cs, DOMAIN cs), D)) = k - 1
           o == [k \in 1..Cardinality(D) |-> a(k)]
<1>1. ByPlace(cs) = [k \in D |-> cs[o[k]]]
  BY DEF ByPlace, Sorted, Sooner
<1>2. \A x, y \in D : <<y, x>> \in PlaceOn(cs, D) <=> Sooner(cs, y, x)
  BY PlaceOnIs
<1>3. \A x \in D : {y \in D : Sooner(cs, y, x)} = Lower(x, PlaceOn(cs, DOMAIN cs), D)
  BY <1>2 DEF Lower
<1>4. \A k : a(k) = b(k)
  BY <1>3
<1>5. SortedBy(D, PlaceOn(cs, DOMAIN cs)) = [k \in 1..Cardinality(D) |-> b(k)]
  BY DEF SortedBy
<1> HIDE DEF a, b
<1>6. SortedBy(D, PlaceOn(cs, DOMAIN cs)) = o
  BY <1>4, <1>5
<1> HIDE DEF o
<1> QED BY <1>1, <1>6

(***************************************************************************)
(* Put in their order, the cues are the same cues.                         *)
(***************************************************************************)
LEMMA ByPlaceType ==
    ASSUME NEW V, NEW cs \in Seq(V), \A c \in V : c.ep \in Int /\ c.at \in Int
    PROVE  /\ ByPlace(cs) \in Seq(V) /\ Len(ByPlace(cs)) = Len(cs) /\ DOMAIN ByPlace(cs) = 1..Len(cs)
           /\ \A k \in 1..Len(cs) : \E j \in 1..Len(cs) : ByPlace(cs)[k] = cs[j]
           /\ \A j \in 1..Len(cs) : \E k \in 1..Len(cs) : ByPlace(cs)[k] = cs[j]
<1> DEFINE D == DOMAIN cs
           R == PlaceOn(cs, D)
           o == SortedBy(D, R)
           n == Len(cs)
<1>1. n \in Nat /\ D = 1..n /\ \A k \in 1..n : cs[k] \in V
  BY LenProperties, ElementOfSeq
<1>2. IsFiniteSet(D) /\ D \subseteq Int /\ Cardinality(D) = n
  <2> HIDE DEF D, n
  <2>1. IsFiniteSet(1..n) /\ Cardinality(1..n) = n
    BY <1>1, FS_Interval
  <2> QED BY <2>1, <1>1
<1>3. Orders(R, D)
  BY <1>1, <1>2, PlaceOrders
<1>4. ByPlace(cs) = [k \in D |-> cs[o[k]]]
  BY ByPlaceIsSorted
<1> HIDE DEF R, D
<1>5. /\ DOMAIN o = 1..Cardinality(D)
      /\ \A k \in DOMAIN o : o[k] \in D
      /\ \A x \in D : \E k \in DOMAIN o : o[k] = x
  BY <1>2, <1>3, SortedFacts
<1> HIDE DEF o, n
<1>6. \A k \in 1..n : o[k] \in 1..n
  BY <1>1, <1>2, <1>5
<1>7. ByPlace(cs) = [k \in 1..n |-> cs[o[k]]]
  BY <1>1, <1>4
<1>8. \A k \in 1..n : cs[o[k]] \in V
  BY <1>1, <1>6
<1>9. ByPlace(cs) \in Seq(V) /\ Len(ByPlace(cs)) = n /\ DOMAIN ByPlace(cs) = 1..n
  <2>1. [k \in 1..n |-> cs[o[k]]] \in Seq(V)
    BY <1>1, <1>8, IsASeq
  <2>2. DOMAIN ByPlace(cs) = 1..n
    BY <1>7
  <2> QED BY <1>1, <1>7, <2>1, <2>2, LenProperties
<1>10. \A j \in 1..n : \E k \in 1..n : o[k] = j
  BY <1>1, <1>2, <1>5
<1>11. \A k \in 1..n : \E j \in 1..n : ByPlace(cs)[k] = cs[j]
  BY <1>6, <1>7
<1>12. \A j \in 1..n : \E k \in 1..n : ByPlace(cs)[k] = cs[j]
  BY <1>7, <1>10
<1> QED BY <1>9, <1>11, <1>12 DEF n

-----------------------------------------------------------------------------
(* What a project is made of. *)

\* The fields of a project that the proofs use.
LEMMA Lines ==
    ASSUME NEW book, IsProject(book)
    PROVE  /\ Len(book.lines) \in Nat /\ DOMAIN book.lines = 1..Len(book.lines)
           /\ \A k \in DOMAIN book.lines :
                /\ book.lines[k].ep \in 1..book.eps /\ book.lines[k].from \in Int /\ book.lines[k].to \in Int
                /\ book.lines[k].n \in Nat /\ IsFiniteSet(book.lines[k].toks)
           /\ Range(book.lines) = {book.lines[k] : k \in DOMAIN book.lines} /\ IsFiniteSet(Range(book.lines))
<1> DEFINE ls == book.lines
<1>1. ls \in Seq(Range(ls))
  BY DEF IsProject
<1>2. Len(ls) \in Nat /\ DOMAIN ls = 1..Len(ls)
  BY <1>1, LenProperties
<1>3. \A l \in Range(ls) : l.ep \in 1..book.eps /\ l.from \in Int /\ l.to \in Int /\ l.n \in Nat /\ IsFiniteSet(l.toks)
  BY DEF IsProject
<1> HIDE DEF ls
<1>4. Range(ls) = {ls[k] : k \in DOMAIN ls}
  BY DEF Range
<1>5. IsFiniteSet({ls[k] : k \in DOMAIN ls})
  <2>1. IsFiniteSet(1..Len(ls))
    BY <1>2, FS_Interval
  <2> QED BY <1>2, <2>1, FiniteImage
<1> QED BY <1>2, <1>3, <1>4, <1>5 DEF ls

(***************************************************************************)
(* What is said in an episode is finitely many intervals.                  *)
(***************************************************************************)
Item == [from : Int, to : Int, spoken : BOOLEAN]

\* The lines and the words of an episode are finitely many utterances.
LEMMA ItemsType ==
    ASSUME NEW book, IsProject(book), NEW e
    PROVE  IsFiniteSet(Items(book, e)) /\ Items(book, e) \subseteq Item
<1> DEFINE A == {l \in Range(book.lines) : l.ep = e}
           B == {w \in book.words : w.ep = e}
           X == A \cup B
           f == [i \in X |-> AsItem(i)]
<1>1. IsFiniteSet(A) /\ \A i \in A : i.from \in Int /\ i.to \in Int /\ i.spoken \in BOOLEAN
  <2>1. IsFiniteSet(Range(book.lines))
    BY Lines
  <2>2. IsFiniteSet(A)
    BY <2>1, FS_Subset
  <2> QED BY <2>2 DEF IsProject
<1>2. IsFiniteSet(B) /\ \A i \in B : i.from \in Int /\ i.to \in Int /\ i.spoken \in BOOLEAN
  <2>1. IsFiniteSet(book.words)
    BY DEF IsProject
  <2>2. IsFiniteSet(B)
    BY <2>1, FS_Subset
  <2> QED BY <2>2 DEF IsProject
<1>3. Items(book, e) = {AsItem(i) : i \in X}
  BY DEF Items
<1> HIDE DEF A, B
<1>4. IsFiniteSet(X) /\ \A i \in X : i.from \in Int /\ i.to \in Int /\ i.spoken \in BOOLEAN
  BY <1>1, <1>2, FS_Union
<1> HIDE DEF X
<1>5. {AsItem(i) : i \in X} = {f[i] : i \in X}
  OBVIOUS
<1> HIDE DEF f
<1>6. IsFiniteSet({f[i] : i \in X})
  BY <1>4, FiniteImage
<1>7. \A i \in X : AsItem(i) \in Item
  BY <1>4 DEF AsItem, Item
<1> QED BY <1>3, <1>5, <1>6, <1>7

\* What is spoken in an episode.
LEMMA SpeechType ==
    ASSUME NEW book, IsProject(book), NEW e
    PROVE  Speech(book, e) \in Seq(Pair)
<1> DEFINE A == {i \in Items(book, e) : i.to > i.from}
           f == [i \in A |-> <<i.from, i.to>>]
           S == {<<i.from, i.to>> : i \in A}
<1>1. IsFiniteSet(A) /\ \A i \in A : i.from \in Int /\ i.to \in Int /\ i.from < i.to
  <2>1. IsFiniteSet(Items(book, e)) /\ Items(book, e) \subseteq Item
    BY ItemsType
  <2>2. IsFiniteSet(A)
    BY <2>1, FS_Subset
  <2>3. \A i \in A : i \in Item
    BY <2>1
  <2> QED BY <2>2, <2>3 DEF Item
<1>2. Speech(book, e) = Merged(S)
  BY DEF Speech, MergedSpeech
<1> HIDE DEF A
<1>3. CutSet(S)
  <2>1. S = {f[i] : i \in A}
    OBVIOUS
  <2> HIDE DEF f
  <2>2. IsFiniteSet(S)
    BY <1>1, <2>1, FiniteImage
  <2>3. S \subseteq Pair /\ \A x \in S : x[1] < x[2]
    BY <1>1 DEF Pair
  <2> QED BY <2>2, <2>3 DEF CutSet
<1> HIDE DEF S
<1> QED BY <1>2, <1>3, MergedFacts DEF Canonical

(***************************************************************************)
(* A cut moved out of an utterance is a point of time.                     *)
(***************************************************************************)
LEMMA SafeInsertType ==
    ASSUME NEW at \in Int, NEW speech \in Seq(Pair)
    PROVE  SafeInsert(at, speech) \in Int
<1> DEFINE hit == {k \in DOMAIN speech : Within(at, speech[k])}
           k == CHOOSE k \in hit : TRUE
           prior == at - speech[k][1]
           after == speech[k][2] - at
           early == speech[k][1] - SnapMargin
           late == speech[k][2] + SnapMargin
           Ahead == IF k > 1 /\ early <= speech[k - 1][2]
                    THEN (speech[k - 1][2] + speech[k][1]) \div 2 ELSE early
           Behind == IF k < Len(speech) /\ late >= speech[k + 1][1]
                     THEN (speech[k][2] + speech[k + 1][1]) \div 2 ELSE late
           moved == IF prior <= after THEN Ahead ELSE Behind
<1>1. SafeInsert(at, speech) = CASE hit = {} -> at
                                 [] hit # {} /\ Min({prior, after}) > MaxShift -> at
                                 [] OTHER -> Max({0, moved})
  BY DEF SafeInsert
<1>2. /\ Len(speech) \in Nat /\ DOMAIN speech = 1..Len(speech)
      /\ \A j \in 1..Len(speech) : speech[j][1] \in Int /\ speech[j][2] \in Int
  BY PairsOf
<1>3. SnapMargin \in Nat
  BY IntervalBounds
<1>4. CASE hit = {}
  BY <1>1, <1>4
<1>5. CASE hit # {}
  <2>1. k \in DOMAIN speech
    BY <1>5
  <2> HIDE DEF hit, k
  <2>2. speech[k][1] \in Int /\ speech[k][2] \in Int /\ k \in 1..Len(speech)
    BY <1>2, <2>1
  <2>3. Ahead \in Int
    <3>1. CASE k > 1
      <4>1. k - 1 \in 1..Len(speech)
        BY <1>2, <2>2, <3>1
      <4>2. speech[k - 1][2] \in Int
        BY <1>2, <4>1
      <4> QED BY <1>3, <2>2, <4>2
    <3>2. CASE ~(k > 1)
      BY <1>3, <2>2, <3>2
    <3> QED BY <3>1, <3>2
  <2>4. Behind \in Int
    <3>1. CASE k < Len(speech)
      <4>1. k + 1 \in 1..Len(speech)
        BY <1>2, <2>2, <3>1
      <4>2. speech[k + 1][1] \in Int
        BY <1>2, <4>1
      <4> QED BY <1>3, <2>2, <4>2
    <3>2. CASE ~(k < Len(speech))
      BY <1>3, <2>2, <3>2
    <3> QED BY <3>1, <3>2
  <2> HIDE DEF Ahead, Behind
  <2>5. Max({0, moved}) \in Int
    <3>1. moved \in Int
      BY <2>3, <2>4
    <3> HIDE DEF moved
    <3> QED BY <3>1, Two
  <2> HIDE DEF moved, prior, after
  <2> QED BY <1>1, <2>5
<1> QED BY <1>4, <1>5

\* The lines of an episode that are not cut.
LEMMA KeptType ==
    ASSUME NEW book, IsProject(book), NEW cuts, NEW e
    PROVE  /\ KeptLines(book, cuts, e) \in Seq(DOMAIN book.lines)
           /\ Len(KeptLines(book, cuts, e)) \in Nat
           /\ DOMAIN KeptLines(book, cuts, e) = 1..Len(KeptLines(book, cuts, e))
           /\ Range(KeptLines(book, cuts, e)) = {k \in DOMAIN book.lines : book.lines[k].ep = e /\ Outside(book.lines[k], cuts[e])}
           /\ IsFiniteSet(Range(KeptLines(book, cuts, e)))
<1> DEFINE T == {k \in DOMAIN book.lines : book.lines[k].ep = e /\ Outside(book.lines[k], cuts[e])}
           s == Sorted(T, <)
<1>1. KeptLines(book, cuts, e) = s
  BY DEF KeptLines
<1>2. T \subseteq DOMAIN book.lines /\ T \subseteq Int /\ IsFiniteSet(T)
  <2>1. DOMAIN book.lines = 1..Len(book.lines) /\ Len(book.lines) \in Nat
    BY Lines
  <2>2. IsFiniteSet(DOMAIN book.lines)
    BY <2>1, FS_Interval
  <2>3. T \subseteq DOMAIN book.lines
    OBVIOUS
  <2> HIDE DEF T
  <2> QED BY <2>1, <2>2, <2>3, FS_Subset
<1> HIDE DEF T
<1>3. Lists(s, T)
  BY <1>2, Listing
<1> HIDE DEF s
<1>4. s \in Seq(T) /\ DOMAIN s = 1..Len(s) /\ Len(s) \in Nat /\ (\A k \in 1..Len(s) : s[k] \in T)
      /\ \A x \in T : \E k \in 1..Len(s) : s[k] = x
  BY <1>3 DEF Lists
<1>5. Range(s) = T
  BY <1>4 DEF Range
<1>6. s \in Seq(DOMAIN book.lines)
  <2>1. \A k \in 1..Len(s) : s[k] \in DOMAIN book.lines
    BY <1>2, <1>4
  <2> QED BY <1>4, <2>1, IsASeq
<1> QED BY <1>1, <1>2, <1>4, <1>5, <1>6 DEF T

\* Where a cue's line begins or ends.
LEMMA BoundaryType ==
    ASSUME NEW book, IsProject(book), NEW c \in CueSet(book)
    PROVE  Boundary(book, c) \in Int
<1>1. c.anchor \in DOMAIN book.lines
  BY DEF CueSet
<1> QED BY <1>1, Lines DEF Boundary

\* A cue cut in at the boundary of its scene stays the cue it was.
LEMMA AlignInsertType ==
    ASSUME NEW book, IsProject(book), NEW c \in CueSet(book)
    PROVE  AlignInsert(book, c) \in Cued(book) /\ AlignInsert(book, c).policy = Insert
           /\ AlignInsert(book, c).ep = c.ep /\ AlignInsert(book, c).id = c.id
<1> DEFINE b == Boundary(book, c)
           d == [c EXCEPT !.at = b, !.bound = b, !.policy = Insert, !.gap = << >>]
<1>1. b \in Int
  BY BoundaryType
<1>2. AlignInsert(book, c) = d
  BY DEF AlignInsert
<1>3. Insert \in Policies /\ Insert \notin Overlays
  BY DEF Insert, Overlays, Policies
<1> HIDE DEF b
<1>4. d \in CueSet(book) /\ d.policy = Insert /\ d.ep = c.ep /\ d.id = c.id
  BY <1>1, <1>3 DEF CueSet
<1> HIDE DEF d
<1> QED BY <1>2, <1>3, <1>4 DEF Cued

-----------------------------------------------------------------------------
(* Pauses and free stretches. *)

(***************************************************************************)
(* A sum of numbers is a number.                                           *)
(***************************************************************************)
LEMMA TotalType ==
    ASSUME NEW S, IsFiniteSet(S), NEW f, \A x \in S : f[x] \in Int
    PROVE  Total(f, S) \in Int
<1> DEFINE ch == [T \in SUBSET S |-> CHOOSE x \in T : TRUE]
           g == [x \in Int \X S |-> f[x[2]] + x[1]]
           Rec(it) == [T \in SUBSET S |->
                         IF T = {} THEN 0
                         ELSE f[CHOOSE x \in T : TRUE] + it[T \ {CHOOSE x \in T : TRUE}]]
           it == CHOOSE it : it = Rec(it)
<1>1. Total(f, S) = it[S]
  BY DEF Total, MapThenSumSet, MapThenFoldSet
<1>2. PICK h : FoldsTo(S, ch, Int, 0, g, h)
  <2>1. \A T \in SUBSET S : T # {} => ch[T] \in T
    OBVIOUS
  <2>2. \A b \in Int : \A x \in S : g[<<b, x>>] \in Int
    OBVIOUS
  <2>3. 0 \in Int
    OBVIOUS
  <2> HIDE DEF ch, g
  <2>4. Foldable(S, ch, Int, 0, g)
    BY <2>1, <2>2, <2>3 DEF Foldable
  <2> QED BY <2>4, FoldsExist, Zenon
<1>3. h = Rec(h)
  <2>1. ASSUME NEW T \in SUBSET S
        PROVE  h[T] = IF T = {} THEN 0 ELSE f[CHOOSE x \in T : TRUE] + h[T \ {CHOOSE x \in T : TRUE}]
    <3> DEFINE c == CHOOSE x \in T : TRUE
    <3>1. h \in [SUBSET S -> Int] /\ h[T] = (IF T = {} THEN 0 ELSE g[<<h[T \ {ch[T]}], ch[T]>>])
      BY <1>2 DEF FoldsTo
    <3>2. ch[T] = c
      OBVIOUS
    <3>3. CASE T # {}
      <4>1. c \in S
        BY <3>3
      <4> HIDE DEF c
      <4>2. h[T \ {c}] \in Int
        BY <3>1
      <4>3. g[<<h[T \ {c}], c>>] = f[c] + h[T \ {c}]
        BY <4>1, <4>2
      <4> HIDE DEF g, ch
      <4>4. h[T] = f[c] + h[T \ {c}]
        BY <3>1, <3>2, <3>3, <4>3
      <4> QED BY <3>3, <4>4 DEF c
    <3> QED BY <3>1, <3>3
  <2>2. h = [T \in SUBSET S |-> h[T]]
    BY <1>2 DEF FoldsTo
  <2> QED BY <2>1, <2>2
<1> HIDE DEF Rec
<1>4. it = Rec(it)
  BY <1>3
<1> HIDE DEF it
<1>5. \A T \in SUBSET S : it[T] = IF T = {} THEN 0 ELSE f[CHOOSE x \in T : TRUE] + it[T \ {CHOOSE x \in T : TRUE}]
  BY <1>4 DEF Rec
<1>12. it[{}] = 0
  <2>1. {} \in SUBSET S
    OBVIOUS
  <2> QED BY <1>5, <2>1, Zenon
<1> DEFINE n == Cardinality(S)
           G == {k \in 0..n : \A T \in SUBSET S : Cardinality(T) <= k => it[T] \in Int}
<1>6. n \in Nat
  BY FS_CardinalityType
<1>7. \A T \in SUBSET S : IsFiniteSet(T) /\ Cardinality(T) \in Nat /\ Cardinality(T) <= n
  BY FS_Subset, FS_CardinalityType
<1>8. 0 \in G
  <2> SUFFICES ASSUME NEW T \in SUBSET S, Cardinality(T) <= 0 PROVE it[T] \in Int
    BY <1>6
  <2>1. T = {}
    BY <1>7, FS_EmptySet
  <2> QED BY <1>12, <2>1
<1>9. ASSUME NEW k \in 1..n, k - 1 \in G PROVE k \in G
  <2> SUFFICES ASSUME NEW T \in SUBSET S, Cardinality(T) <= k PROVE it[T] \in Int
    BY <1>6
  <2>1. CASE T = {}
    BY <1>12, <2>1
  <2>2. CASE T # {}
    <3> DEFINE c == CHOOSE x \in T : TRUE
    <3>1. c \in T
      BY <2>2
    <3> HIDE DEF c
    <3>2. Cardinality(T \ {c}) = Cardinality(T) - 1
      BY <1>7, <3>1, FS_RemoveElement
    <3>3. T \ {c} \in SUBSET S /\ Cardinality(T \ {c}) <= k - 1
      BY <1>6, <1>7, <3>2
    <3>4. it[T \ {c}] \in Int
      BY <1>9, <3>3
    <3>5. it[T] = f[c] + it[T \ {c}]
      BY <1>5, <2>2 DEF c
    <3>6. f[c] \in Int
      BY <3>1
    <3> QED BY <3>4, <3>5, <3>6
  <2> QED BY <2>1, <2>2
<1> HIDE DEF G
<1>10. n \in G
  <2>1. \A k \in 0..n : k \in G
    BY <1>6, <1>8, <1>9, Counting
  <2> QED BY <1>6, <2>1
<1>11. it[S] \in Int
  BY <1>6, <1>10 DEF G
<1> QED BY <1>1, <1>11

(***************************************************************************)
(* Sequences joined end to end.                                            *)
(***************************************************************************)
LEMMA FlattenType ==
    ASSUME NEW V, NEW seqs \in Seq(Seq(V))
    PROVE  FlattenSeq(seqs) \in Seq(V)
<1> DEFINE n == Len(seqs)
           g == [x \in Seq(V) \X (1..n) |-> x[1] \o seqs[x[2]]]
           Rec(fl) == [i \in 1..Len(seqs) |-> IF i = 1 THEN seqs[i] ELSE fl[i - 1] \o seqs[i]]
           fl == CHOOSE fl : fl = Rec(fl)
<1>1. n \in Nat /\ DOMAIN seqs = 1..n /\ \A k \in 1..n : seqs[k] \in Seq(V)
  BY LenProperties, ElementOfSeq
<1>2. FlattenSeq(seqs) = IF n = 0 THEN seqs ELSE fl[n]
  BY DEF FlattenSeq
<1>3. CASE n = 0
  <2>1. seqs = << >>
    BY <1>3, EmptySeq
  <2> QED BY <1>2, <1>3, <2>1, EmptySeq
<1>4. CASE n # 0
  <2> HIDE DEF n
  <2>1. PICK f : Folding(n, Seq(V), << >>, g, f)
    <3>1. ASSUME NEW b \in Seq(V), NEW k \in 1..n PROVE g[<<b, k>>] \in Seq(V)
      <4>1. b \o seqs[k] \in Seq(V)
        BY <1>1, ConcatProperties
      <4> QED BY <4>1
    <3>2. << >> \in Seq(V)
      BY EmptySeq
    <3> HIDE DEF g
    <3> QED BY <1>1, <3>1, <3>2, FoldOfSeq
  <2> DEFINE F == [i \in 1..n |-> f[1..i]]
  <2>2. ASSUME NEW i \in 1..n PROVE F[i] = IF i = 1 THEN seqs[i] ELSE F[i - 1] \o seqs[i]
    <3>1. 1..i \in SUBSET (1..n) /\ 1..i # {} /\ Max(1..i) = i /\ (1..i) \ {i} = 1..(i - 1)
      BY <1>1, Ranges
    <3>2. 1..(i - 1) \in SUBSET (1..n)
      BY <1>1
    <3>3. f[1..i] = g[<<f[1..(i - 1)], i>>] /\ f[1..(i - 1)] \in Seq(V)
      BY <2>1, <3>1, <3>2 DEF Folding
    <3>4. f[1..i] = f[1..(i - 1)] \o seqs[i]
      BY <3>3
    <3>5. CASE i = 1
      <4>1. 1..(i - 1) = {}
        BY <3>5
      <4>2. f[{}] = << >>
        BY <2>1 DEF Folding
      <4>3. << >> \o seqs[i] = seqs[i]
        BY <1>1, ConcatEmptySeq
      <4> QED BY <3>4, <3>5, <4>1, <4>2, <4>3
    <3>6. CASE i # 1
      <4>1. i - 1 \in 1..n
        BY <1>1, <3>6
      <4> QED BY <3>4, <3>6, <4>1
    <3> QED BY <3>5, <3>6
  <2>3. F = Rec(F)
    <3>1. F = [i \in 1..n |-> F[i]]
      OBVIOUS
    <3> HIDE DEF F
    <3> QED BY <2>2, <3>1 DEF n
  <2> HIDE DEF Rec
  <2>4. fl = Rec(fl)
    BY <2>3
  <2> HIDE DEF fl
  <2>5. \A i \in 1..n : fl[i] = IF i = 1 THEN seqs[i] ELSE fl[i - 1] \o seqs[i]
    BY <2>4 DEF Rec, n
  <2> DEFINE G == {k \in 0..n : k # 0 => fl[k] \in Seq(V)}
  <2>6. 0 \in G
    BY <1>1
  <2>7. ASSUME NEW k \in 1..n, k - 1 \in G PROVE k \in G
    <3>1. CASE k = 1
      BY <1>1, <2>5, <3>1
    <3>2. CASE k # 1
      <4>1. fl[k - 1] \in Seq(V) /\ seqs[k] \in Seq(V)
        BY <1>1, <2>7, <3>2
      <4>2. fl[k - 1] \o seqs[k] \in Seq(V)
        BY <4>1, ConcatProperties
      <4>0. k \in 0..n
        BY <1>1
      <4>5. fl[k] = (IF k = 1 THEN seqs[k] ELSE fl[k - 1] \o seqs[k])
        BY <2>5, Zenon
      <4>6. fl[k] = fl[k - 1] \o seqs[k]
        BY <4>5, <3>2, Zenon
      <4>3. fl[k] = fl[k - 1] \o seqs[k] /\ k \in 0..n
        BY <4>0, <4>6
      <4>4. fl[k] \in Seq(V)
        BY <4>2, <4>3
      <4> QED BY <4>3, <4>4
    <3> QED BY <3>1, <3>2
  <2> HIDE DEF G
  <2>8. n \in G
    <3>1. \A k \in 0..n : k \in G
      BY <1>1, <2>6, <2>7, Counting
    <3> QED BY <1>1, <3>1
  <2> QED BY <1>2, <1>4, <2>8 DEF G
<1> QED BY <1>3, <1>4

(***************************************************************************)
(* Intervals joined are intervals, whichever they are.                     *)
(***************************************************************************)
LEMMA MergedType ==
    ASSUME NEW S, IsFiniteSet(S), S \subseteq Pair
    PROVE  Merged(S) \in Seq(Pair)
<1> DEFINE s == InOrder(S)
<1>1. s \in Seq(Pair) /\ Len(s) \in Nat
  <2>1. Lists(s, S)
    BY InOrderFacts DEF Pair
  <2>2. s \in Seq(S) /\ Len(s) \in Nat /\ DOMAIN s = 1..Len(s) /\ \A k \in 1..Len(s) : s[k] \in S
    BY <2>1 DEF Lists
  <2> HIDE DEF s
  <2>3. \A k \in 1..Len(s) : s[k] \in Pair
    BY <2>2
  <2> QED BY <2>2, <2>3, IsASeq
<1>2. << >> \in Seq(Pair)
  BY EmptySeq
<1>3. Merged(S) = FoldLeft(Join, << >>, s)
  BY DEF Merged
<1> HIDE DEF s
<1>4. \E h : /\ Stepping(h, Len(s), Seq(Pair), << >>)
             /\ \A k \in 1..Len(s) : h[k] = Join(h[k - 1], s[k])
             /\ FoldLeft(Join, << >>, s) = h[Len(s)]
  BY <1>1, <1>2, JoinFold
<1>5. PICK h : Stepping(h, Len(s), Seq(Pair), << >>) /\ FoldLeft(Join, << >>, s) = h[Len(s)]
  BY <1>4
<1>6. Len(s) \in 0..Len(s)
  BY <1>1
<1> QED BY <1>3, <1>5, <1>6 DEF Stepping

\* The pauses that are long enough.
LEMMA PausesType ==
    ASSUME NEW gaps \in Seq(Pair)
    PROVE  Pauses(gaps) \in Seq(Pair)
<1> DEFINE T == {k \in DOMAIN gaps : gaps[k][2] - gaps[k][1] >= MinGap}
<1>1. T \subseteq DOMAIN gaps /\ Pauses(gaps) = Only(gaps, T)
  BY DEF Pauses
<1> HIDE DEF T
<1> QED BY <1>1, OnlyFacts

(***************************************************************************)
(* The pauses of an episode.                                               *)
(***************************************************************************)
LEMMA SpeechFreeGapsType ==
    ASSUME NEW items, IsFiniteSet(items), items \subseteq Item, NEW length \in Int
    PROVE  SpeechFreeGaps(items, length) \in Seq(Pair)
<1> DEFINE spoken == {i \in items : i.spoken /\ i.to > i.from}
           iv(i) == <<Max({0, i.from - GapMargin}), Min({length, i.to + GapMargin})>>
           S == {<<Max({0, i.from - GapMargin}), Min({length, i.to + GapMargin})>> : i \in spoken}
           busy == Merged(S)
           u == [k \in DOMAIN busy |-> busy[k][2]]
           ends == <<0>> \o u
           left(k) == Max({ends[j] : j \in 1..k})
           right(k) == IF k > Len(busy) THEN length ELSE busy[k][1]
           gaps == [k \in 1..(Len(busy) + 1) |-> <<left(k), right(k)>>]
<1>1. SpeechFreeGaps(items, length) = Pauses(gaps)
  BY DEF SpeechFreeGaps
<1>2. busy \in Seq(Pair)
  <2>1. IsFiniteSet(spoken)
    BY FS_Subset
  <2>2. \A i \in spoken : i.from \in Int /\ i.to \in Int
    BY DEF Item
  <2>3. GapMargin \in Int
    BY IntervalBounds
  <2> HIDE DEF spoken
  <2>4. ASSUME NEW i \in spoken PROVE iv(i) \in Pair
    <3>1. i.from - GapMargin \in Int /\ i.to + GapMargin \in Int
      BY <2>2, <2>3
    <3>2. Max({0, i.from - GapMargin}) \in Int
      BY <3>1, Two
    <3>3. Min({length, i.to + GapMargin}) \in Int
      BY <3>1, Two
    <3> QED BY <3>2, <3>3 DEF Pair
  <2>5. S \subseteq Pair
    BY <2>4
  <2>6. IsFiniteSet(S)
    <3> DEFINE f == [i \in spoken |-> iv(i)]
    <3>1. S = {f[i] : i \in spoken}
      OBVIOUS
    <3> HIDE DEF f
    <3> QED BY <3>1, <2>1, FiniteImage
  <2> HIDE DEF S
  <2> QED BY <2>5, <2>6, MergedType
<1> HIDE DEF busy
<1>3. /\ Len(busy) \in Nat /\ DOMAIN busy = 1..Len(busy)
      /\ \A k \in 1..Len(busy) : busy[k][1] \in Int /\ busy[k][2] \in Int
  BY <1>2, PairsOf
<1>4. ends \in Seq(Int) /\ Len(ends) = Len(busy) + 1 /\ DOMAIN ends = 1..(Len(busy) + 1)
  <2>1. u \in Seq(Int) /\ Len(u) = Len(busy)
    <3>1. u \in Seq(Int)
      BY <1>3, IsASeq
    <3>2. DOMAIN u = 1..Len(busy)
      BY <1>3
    <3> QED BY <3>1, <3>2, <1>3, LenProperties
  <2>2. <<0>> \in Seq(Int) /\ Len(<<0>>) = 1
    OBVIOUS
  <2> HIDE DEF u
  <2>3. ends \in Seq(Int) /\ Len(ends) = Len(<<0>>) + Len(u)
    BY <2>1, <2>2, ConcatProperties
  <2>4. Len(ends) = Len(busy) + 1
    BY <2>1, <2>2, <2>3, <1>3
  <2> QED BY <2>3, <2>4, LenProperties
<1> HIDE DEF ends
<1>5. ASSUME NEW k \in 1..(Len(busy) + 1) PROVE <<left(k), right(k)>> \in Pair
  <2>1. \A j \in 1..k : ends[j] \in Int
    <3>1. \A j \in 1..k : j \in DOMAIN ends
      BY <1>3, <1>4
    <3> QED BY <3>1, <1>4, ElementOfSeq
  <2>2. left(k) \in Int
    <3> DEFINE E == {ends[j] : j \in 1..k}
    <3>1. IsFiniteSet(1..k) /\ k \in 1..k
      BY <1>3, FS_Interval
    <3>2. IsFiniteSet(E)
      BY <3>1, FiniteImage
    <3>3. E \subseteq Int /\ E # {}
      BY <2>1, <3>1
    <3> HIDE DEF E
    <3>4. Max(E) \in E
      BY <3>2, <3>3, MaxOf
    <3> QED BY <3>3, <3>4 DEF E
  <2>3. right(k) \in Int
    BY <1>3
  <2> QED BY <2>2, <2>3 DEF Pair
<1> HIDE DEF left, right
<1>6. gaps \in Seq(Pair)
  <2>1. Len(busy) + 1 \in Nat
    BY <1>3
  <2> QED BY <1>5, <2>1, IsASeq
<1> HIDE DEF gaps
<1> QED BY <1>1, <1>6, PausesType

\* The stretches without speech that are not cut.
LEMMA RetainedGapsType ==
    ASSUME NEW items, IsFiniteSet(items), items \subseteq Item, NEW length \in Int, NEW excl, CutSet(excl)
    PROVE  RetainedGaps(items, length, excl) \in Seq(Pair)
<1> DEFINE A == {i \in items : Outside(i, excl)}
           gaps == SpeechFreeGaps(A, length)
           parts == [k \in DOMAIN gaps |-> SourceRanges(gaps[k][1], gaps[k][2], excl)]
<1>1. RetainedGaps(items, length, excl) = Pauses(FlattenSeq(parts))
  BY DEF RetainedGaps
<1>2. IsFiniteSet(A) /\ A \subseteq Item
  BY FS_Subset
<1> HIDE DEF A
<1>3. gaps \in Seq(Pair)
  BY <1>2, SpeechFreeGapsType
<1> HIDE DEF gaps
<1>4. /\ Len(gaps) \in Nat /\ DOMAIN gaps = 1..Len(gaps)
      /\ \A k \in 1..Len(gaps) : gaps[k][1] \in Int /\ gaps[k][2] \in Int
  BY <1>3, PairsOf
<1>5. ASSUME NEW k \in 1..Len(gaps) PROVE SourceRanges(gaps[k][1], gaps[k][2], excl) \in Seq(Pair)
  <2> DEFINE a == gaps[k][1]
             b == gaps[k][2]
  <2>1. a \in Int /\ b \in Int
    BY <1>4
  <2> HIDE DEF a, b
  <2>2. Canonical(SourceRanges(a, b, excl))
    BY <2>1, SourceRangesFacts
  <2> QED BY <2>2 DEF Canonical, a, b
<1>6. parts \in Seq(Seq(Pair))
  BY <1>4, <1>5, IsASeq
<1> HIDE DEF parts
<1>7. FlattenSeq(parts) \in Seq(Pair)
  BY <1>6, FlattenType
<1> QED BY <1>1, <1>7, PausesType

\* The pauses of an episode.
LEMMA GapsType ==
    ASSUME NEW book, IsProject(book), NEW e \in 1..book.eps, NEW cuts, CutSet(cuts[e])
    PROVE  GapsOf(book, cuts, e) \in Seq(Pair)
<1>1. IsFiniteSet(Items(book, e)) /\ Items(book, e) \subseteq Item
  BY ItemsType
<1>2. book.length[e] \in Int
  <2> DEFINE l == book.length
             n == book.eps
  <2>1. l \in [1..n -> Nat] /\ e \in 1..n
    BY DEF IsProject
  <2> HIDE DEF l, n
  <2>2. l[e] \in Nat
    BY <2>1
  <2> QED BY <2>2 DEF l
<1> QED BY <1>1, <1>2, RetainedGapsType DEF GapsOf

-----------------------------------------------------------------------------
(* The budget of a narration. *)

(***************************************************************************)
(* Rounding stays below a bound in whole units.                            *)
(***************************************************************************)
LEMMA RoundDivType ==
    ASSUME NEW a \in Int, NEW b \in Nat \ {0}
    PROVE  RoundDiv(a, b) \in Int
<1>1. a \div b \in Int
  BY SMT
<1> QED BY <1>1 DEF RoundDiv

\* Halves are rounded to whole numbers.
LEMMA HalfEvenType == ASSUME NEW a \in Int PROVE HalfEven(a) \in Int
BY RoundDivType DEF HalfEven

\* A share of n, rounded, is not above n.
LEMMA RoundDivBound ==
    ASSUME NEW n \in Nat, NEW c \in Nat \ {0}, NEW i \in 0..c
    PROVE  RoundDiv(i * n, c) \in 0..n
<1> DEFINE a == i * n
           q == a \div c
           m == a % c
<1>1. a \in Nat /\ a <= c * n
  <2>1. (c - i) * n >= 0
    <3>1. c - i \in Nat
      OBVIOUS
    <3> QED BY <3>1
  <2>2. i * n >= 0
    <3>1. i \in Nat
      OBVIOUS
    <3> QED BY <3>1
  <2>3. (c - i) * n = c * n - i * n
    OBVIOUS
  <2> QED BY <2>1, <2>2, <2>3
<1> HIDE DEF a
<1>2. q \in Int /\ m \in Int /\ 0 <= m /\ m < c /\ a = c * q + m
  BY <1>1
<1> HIDE DEF q, m
<1>3. q >= 0
  <2> SUFFICES ASSUME q <= -1 PROVE FALSE
    BY <1>2
  <2>1. c * (-1 - q) >= 0
    <3>1. -1 - q \in Nat
      BY <1>2
    <3> QED BY <3>1
  <2>2. c * (-1 - q) = -c - c * q
    BY <1>2
  <2> QED BY <2>1, <2>2, <1>1, <1>2
<1>4. q <= n /\ (q = n => m = 0)
  <2>1. ASSUME q > n PROVE FALSE
    <3>1. c * (q - n - 1) >= 0
      <4>1. q - n - 1 \in Nat
        BY <1>2, <2>1
      <4> QED BY <4>1
    <3>2. c * (q - n - 1) = c * q - c * n - c
      BY <1>2
    <3> QED BY <3>1, <3>2, <1>1, <1>2
  <2>2. ASSUME q = n PROVE m = 0
    <3>1. c * q = c * n /\ c * n \in Int
      BY <2>2
    <3> QED BY <3>1, <1>1, <1>2
  <2> QED BY <2>1, <2>2, <1>2
<1>5. RoundDiv(a, c) = IF 2 * m > c \/ (2 * m = c /\ q % 2 = 1) THEN q + 1 ELSE q
  BY DEF RoundDiv, q, m
<1> QED BY <1>2, <1>3, <1>4, <1>5 DEF a

(***************************************************************************)
(* A book is split into passages of the book.                              *)
(***************************************************************************)
LEMMA SplitEvenlyType ==
    ASSUME NEW n \in Nat, NEW count \in Int
    PROVE  /\ SplitEvenly(n, count) \in Seq(SUBSET (1..n)) /\ Len(SplitEvenly(n, count)) \in Nat
           /\ DOMAIN SplitEvenly(n, count) = 1..Len(SplitEvenly(n, count))
<1> DEFINE c == Clamp(count, 1, n)
           edge(i) == RoundDiv(i * n, c)
           s == [k \in 1..c |-> (edge(k - 1) + 1)..edge(k)]
<1>1. SplitEvenly(n, count) = IF n = 0 THEN << >> ELSE s
  BY DEF SplitEvenly
<1>2. SplitEvenly(n, count) \in Seq(SUBSET (1..n))
  <2>1. CASE n = 0
    BY <1>1, <2>1, EmptySeq
  <2>2. CASE n # 0
    <3>1. c \in Nat \ {0}
      <4>1. c = IF n <= 1 \/ count <= 1 THEN 1 ELSE IF count <= n THEN count ELSE n
        BY Clamped
      <4> HIDE DEF c
      <4> QED BY <4>1, <2>2
    <3> HIDE DEF c
    <3>2. \A i \in 0..c : edge(i) \in 0..n
      BY <3>1, RoundDivBound
    <3> HIDE DEF edge
    <3>3. ASSUME NEW k \in 1..c PROVE (edge(k - 1) + 1)..edge(k) \in SUBSET (1..n)
      <4>1. k - 1 \in 0..c /\ k \in 0..c
        BY <3>1
      <4>2. edge(k - 1) \in 0..n /\ edge(k) \in 0..n
        BY <3>2, <4>1
      <4> QED BY <4>2
    <3>4. s \in Seq(SUBSET (1..n))
      BY <3>1, <3>3, IsASeq
    <3> QED BY <1>1, <2>2, <3>4
  <2> QED BY <2>1, <2>2
<1> QED BY <1>2, LenProperties

\* The passages of a book.
LEMMA Passages ==
    ASSUME NEW book, IsProject(book)
    PROVE  /\ Len(book.frags) \in Nat /\ DOMAIN book.frags = 1..Len(book.frags)
           /\ IsFiniteSet(DOMAIN book.frags) /\ DOMAIN book.frags \subseteq Nat /\ DOMAIN book.frags \subseteq Int
<1> DEFINE fs == book.frags
<1>1. fs \in Seq(Range(fs))
  BY DEF IsProject
<1> HIDE DEF fs
<1>2. Len(fs) \in Nat /\ DOMAIN fs = 1..Len(fs)
  BY <1>1, LenProperties
<1>3. IsFiniteSet(1..Len(fs))
  BY <1>2, FS_Interval
<1> QED BY <1>2, <1>3 DEF fs

(***************************************************************************)
(* An episode tells passages of the book.                                  *)
(***************************************************************************)
LEMMA ToldType ==
    ASSUME NEW book, IsProject(book), NEW cuts, NEW e \in 1..book.eps
    PROVE  Told(book, cuts)[e] \in Seq(DOMAIN book.frags)
<1> DEFINE D == DOMAIN book.frags
           In(c) == Sorted({f \in D : book.frags[f].chapter = c}, <)
           mine(c) == {k \in DOMAIN In(c) : book.home[c][Assignment(book, cuts, In(c), book.home[c])[k]] = e}
           share(c) == IF In(c) = << >> THEN << >> ELSE Only(In(c), mine(c))
           parts == [c \in DOMAIN book.home |-> share(c)]
<1>1. Told(book, cuts)[e] = FlattenSeq(parts)
  BY DEF Told
<1>2. IsFiniteSet(D) /\ D \subseteq Int
  BY Passages
<1>3. ASSUME NEW c PROVE share(c) \in Seq(D)
  <2> DEFINE T == {f \in D : book.frags[f].chapter = c}
  <2>1. IsFiniteSet(T) /\ T \subseteq Int /\ T \subseteq D
    BY <1>2, FS_Subset
  <2>2. In(c) = Sorted(T, <)
    OBVIOUS
  <2> HIDE DEF T
  <2>3. Lists(In(c), T)
    BY <2>1, <2>2, Listing
  <2>4. mine(c) \subseteq DOMAIN In(c)
    OBVIOUS
  <2> HIDE DEF In, mine
  <2>5. In(c) \in Seq(D)
    <3>1. Len(In(c)) \in Nat /\ DOMAIN In(c) = 1..Len(In(c)) /\ In(c) \in Seq(T) /\ \A k \in 1..Len(In(c)) : In(c)[k] \in D
      BY <2>1, <2>3 DEF Lists
    <3> QED BY <3>1, IsASeq
  <2>6. Only(In(c), mine(c)) \in Seq(D)
    BY <2>4, <2>5, OnlyFacts
  <2>7. << >> \in Seq(D)
    BY EmptySeq
  <2> QED BY <2>6, <2>7
<1> HIDE DEF share
<1>4. Len(book.home) \in Nat /\ DOMAIN book.home = 1..Len(book.home)
  <2>1. book.home \in Seq(Seq(1..book.eps))
    BY DEF IsProject
  <2> QED BY <2>1, LenProperties
<1>5. parts \in Seq(Seq(D))
  BY <1>3, <1>4, IsASeq
<1> HIDE DEF parts, D
<1>6. FlattenSeq(parts) \in Seq(D)
  BY <1>5, FlattenType
<1> QED BY <1>1, <1>6 DEF D

\* How long passages are expected to be told.
LEMMA EstOfType ==
    ASSUME NEW book, IsProject(book), NEW S, S \subseteq DOMAIN book.frags
    PROVE  EstOf(book, S) \in Int
<1> DEFINE T == {f \in S : book.frags[f].narrative}
<1>1. IsFiniteSet(T)
  <2>1. IsFiniteSet(DOMAIN book.frags)
    BY Passages
  <2>2. T \subseteq DOMAIN book.frags
    OBVIOUS
  <2> HIDE DEF T
  <2> QED BY <2>1, <2>2, FS_Subset
<1>2. EstOf(book, S) = Clamp(EstPer * Cardinality(T), EstMin, EstCap)
  BY DEF EstOf
<1> HIDE DEF T
<1>3. Cardinality(T) \in Int
  BY <1>1, FS_CardinalityType
<1>4. EstPer \in Int /\ EstMin \in Int /\ EstCap \in Int
  BY PlanBounds
<1>5. EstPer * Cardinality(T) \in Int
  BY <1>3, <1>4
<1> QED BY <1>2, <1>4, <1>5, Clamped

-----------------------------------------------------------------------------
(* The cues of an opening. *)

\* What an episode's narrations have taken.
Taken == [gaps : SUBSET Int, at : SUBSET Int, forced : SUBSET Int]

\* The middle of a pause.
LEMMA MiddleType == ASSUME NEW g \in Pair PROVE Middle(g) \in Int
<1>1. g[1] + g[2] \in Int
  BY DEF Pair
<1> QED BY <1>1, HalfEvenType DEF Middle

\* A narration takes its pause from the others.
LEMMA TakeType ==
    ASSUME NEW taken \in Taken, NEW gaps \in Seq(Pair), NEW k, k = 0 \/ k \in DOMAIN gaps
    PROVE  Take(taken, gaps, k) \in Taken
<1>1. CASE k = 0
  BY <1>1 DEF Take
<1>2. CASE k # 0
  <2>1. k \in Int /\ gaps[k] \in Pair
    BY <1>2, PairsOf
  <2>2. Middle(gaps[k]) \in Int
    BY <2>1, MiddleType
  <2> DEFINE m == Middle(gaps[k])
  <2>3. Take(taken, gaps, k) = [taken EXCEPT !.gaps = @ \cup {k}, !.at = @ \cup {m}]
    BY <1>2 DEF Take
  <2> HIDE DEF m
  <2>4. m \in Int
    BY <2>2 DEF m
  <2> QED BY <2>1, <2>3, <2>4 DEF Taken
<1> QED BY <1>1, <1>2

(***************************************************************************)
(* The pause of the opening narration is one of the pauses.                *)
(***************************************************************************)
LEMMA OpeningGapType ==
    ASSUME NEW gaps \in Seq(Pair), NEW est \in Int
    PROVE  LET p == OpeningGap(gaps, est) IN
           p.k = 0 \/ (p.k \in 1..Len(gaps) /\ p.at \in Int /\ p.gap \in Pair)
<1> DEFINE usable(g) == Min({g[2], OpenTo}) - g[1]
           fit == {k \in DOMAIN gaps : gaps[k][1] < OpenTo /\ usable(gaps[k]) >= est + OpenSlack}
           k == Min(fit)
           b == Min({gaps[k][2], OpenTo})
           p == [k |-> k, at |-> gaps[k][1] + usable(gaps[k]) \div 2, gap |-> <<gaps[k][1], b>>]
<1>1. OpeningGap(gaps, est) = IF fit = {} THEN [k |-> 0, at |-> 0, gap |-> << >>] ELSE p
  BY DEF OpeningGap
<1>2. CASE fit = {}
  BY <1>1, <1>2
<1>3. CASE fit # {}
  <2>1. Len(gaps) \in Nat /\ DOMAIN gaps = 1..Len(gaps) /\ \A j \in 1..Len(gaps) : gaps[j][1] \in Int /\ gaps[j][2] \in Int
    BY PairsOf
  <2>2. k \in fit
    <3>1. IsFiniteSet(fit) /\ fit \subseteq Int
      <4>1. IsFiniteSet(1..Len(gaps)) /\ fit \subseteq 1..Len(gaps)
        BY <2>1, FS_Interval
      <4> HIDE DEF fit
      <4>2. IsFiniteSet(fit)
        BY <4>1, FS_Subset
      <4> QED BY <4>1, <4>2
    <3> HIDE DEF fit
    <3> QED BY <1>3, <3>1, MinOf
  <2>3. k \in 1..Len(gaps)
    BY <2>1, <2>2
  <2> HIDE DEF k, fit
  <2>4. gaps[k][1] \in Int /\ gaps[k][2] \in Int
    BY <2>1, <2>3
  <2>5. OpenTo \in Int
    BY PlanBounds
  <2>6. b \in Int
    <3> DEFINE x == gaps[k][2]
    <3>1. x \in Int
      BY <2>4
    <3> HIDE DEF x
    <3>2. Min({x, OpenTo}) \in Int
      BY <2>5, <3>1, Two
    <3> QED BY <3>2 DEF x
  <2>7. usable(gaps[k]) = b - gaps[k][1]
    OBVIOUS
  <2>8. gaps[k][1] + usable(gaps[k]) \div 2 \in Int
    <3> HIDE DEF b, usable
    <3> QED BY <2>4, <2>6, <2>7
  <2> HIDE DEF usable, b
  <2>9. p.k \in 1..Len(gaps) /\ p.at \in Int /\ p.gap \in Pair
    BY <2>3, <2>4, <2>6, <2>8 DEF Pair
  <2> HIDE DEF p
  <2> QED BY <1>1, <1>3, <2>9
<1> QED BY <1>2, <1>3

\* the first elements of a sequence
LEMMA FirstOnes ==
    ASSUME NEW V, NEW s \in Seq(V), NEW n \in Int, n <= Len(s)
    PROVE  SubSeq(s, 1, n) \in Seq(V) /\ Len(SubSeq(s, 1, n)) = IF 1 <= n THEN n ELSE 0
<1>1. Len(s) \in Nat /\ DOMAIN s = 1..Len(s) /\ \A i \in 1..Len(s) : s[i] \in V
  BY LenProperties, ElementOfSeq
<1>2. \A i \in 1..n : s[i] \in V
  BY <1>1
<1> QED BY <1>2, SubSeqProperties

\* The lines an episode opens with.
LEMMA OpeningBlockType ==
    ASSUME NEW book, IsProject(book), NEW held \in Seq(DOMAIN book.lines)
    PROVE  OpeningBlock(book, held) \in Seq(DOMAIN book.lines)
<1> DEFINE D == DOMAIN book.lines
           T == {j \in DOMAIN held : OpenFrom <= book.lines[held[j]].from /\ book.lines[held[j]].from <= OpenTo}
           early == Only(held, T)
           fits(j) == \A i \in 2..j : book.lines[early[i]].from - book.lines[early[i - 1]].to <= OpenGap
           J == {j \in DOMAIN early : fits(j)}
           size == Max(J)
           block == SubSeq(early, 1, size)
           words == Total([i \in 1..size |-> book.lines[block[i]].n], 1..size)
<1>1. OpeningBlock(book, held) = IF \/ early = << >> \/ size < 2 \/ words < OpenWords
                                    \/ book.lines[block[size]].to - book.lines[block[1]].from < OpenMin
                                 THEN << >> ELSE block
  BY DEF OpeningBlock
<1>2. early \in Seq(D)
  <2>1. T \subseteq DOMAIN held
    OBVIOUS
  <2> HIDE DEF T
  <2> QED BY <2>1, OnlyFacts
<1> HIDE DEF early
<1>3. CASE early = << >>
  <2>1. << >> \in Seq(D)
    BY EmptySeq
  <2> QED BY <1>1, <1>3, <2>1
<1>4. CASE early # << >>
  <2>1. Len(early) \in Nat /\ DOMAIN early = 1..Len(early) /\ Len(early) >= 1
    BY <1>2, <1>4, LenProperties, EmptySeq
  <2>2. 1 \in J
    BY <2>1
  <2>3. IsFiniteSet(J) /\ J \subseteq 1..Len(early)
    <3>1. IsFiniteSet(1..Len(early)) /\ J \subseteq 1..Len(early)
      BY <2>1, FS_Interval
    <3> HIDE DEF J
    <3> QED BY <3>1, FS_Subset
  <2> HIDE DEF J
  <2>4. size \in 1..Len(early)
    <3>1. J \subseteq Int /\ J # {}
      BY <2>2, <2>3
    <3> QED BY <3>1, <2>3, MaxOf
  <2> HIDE DEF size
  <2>5. block \in Seq(D)
    <3>1. size \in Int /\ size <= Len(early)
      BY <2>1, <2>4
    <3> QED BY <1>2, <3>1, FirstOnes
  <2>6. << >> \in Seq(D)
    BY EmptySeq
  <2> HIDE DEF block, words
  <2> QED BY <1>1, <2>5, <2>6
<1> QED BY <1>3, <1>4

\* the last element of a sequence
LEMMA LastOne ==
    ASSUME NEW V, NEW s \in Seq(V), s # << >>
    PROVE  Last(s) \in V /\ s[1] \in V /\ \E k \in DOMAIN s : s[k] = Last(s)
<1>1. Len(s) \in Nat /\ DOMAIN s = 1..Len(s) /\ Len(s) >= 1
  BY LenProperties, EmptySeq
<1>2. Len(s) \in 1..Len(s) /\ 1 \in 1..Len(s)
  BY <1>1
<1> QED BY <1>1, <1>2, ElementOfSeq DEF Last

(***************************************************************************)
(* The opening narration is a cue with a pause.                            *)
(***************************************************************************)
LEMMA OpeningType ==
    ASSUME NEW book, IsProject(book), NEW e \in 1..book.eps, NEW told \in Seq(DOMAIN book.frags), told # << >>,
           NEW held \in Seq(DOMAIN book.lines), NEW gaps \in Seq(Pair)
    PROVE  LET o == Opening(book, e, told, held, gaps) IN
           /\ o.cues \in Seq(Cued(book)) /\ o.told \in 0..Len(told) /\ o.end \in Int /\ o.taken \in Taken
<1> DEFINE D == DOMAIN book.frags
           T == {k \in DOMAIN told : book.frags[told[k]].narrative}
           narrated == Sorted(T, <)
           chosen == IF narrated = << >> THEN <<1>> ELSE SubSeq(narrated, 1, Min({3, Len(narrated)}))
           opened == {told[k] : k \in Range(chosen)}
           est == Min({EstOf(book, opened), OpeningCap})
           block == IF e = 1 THEN OpeningBlock(book, held) ELSE << >>
           pause == OpeningGap(gaps, est)
           cue == [id |-> Min(opened), frags |-> opened, ep |-> e, anchor |-> block[1], start |-> 0,
                   at |-> pause.at, bound |-> 0, gap |-> pause.gap, policy |-> "overlay_opening_gap",
                   side |-> "none", purpose |-> "none", pause |-> FALSE, est |-> est, sure |-> TRUE]
           free == [Free EXCEPT !.gaps = {pause.k}, !.at = {pause.at}]
           o == [cues |-> <<cue>>, lines |-> Range(block), told |-> Last(chosen),
                 end |-> book.lines[Last(block)].to, taken |-> free]
<1>1. Opening(book, e, told, held, gaps) = IF block = << >> \/ pause.k = 0 THEN NoOpening ELSE o
  BY DEF Opening
<1>2. /\ NoOpening.cues \in Seq(Cued(book)) /\ NoOpening.told \in 0..Len(told) /\ NoOpening.end \in Int
      /\ NoOpening.taken \in Taken
  <2>1. << >> \in Seq(Cued(book)) /\ Len(told) \in Nat
    BY EmptySeq, LenProperties
  <2> QED BY <2>1 DEF NoOpening, Free, Taken
<1>3. Len(told) \in Nat /\ DOMAIN told = 1..Len(told) /\ Len(told) >= 1 /\ \A k \in 1..Len(told) : told[k] \in D
  BY LenProperties, EmptySeq, ElementOfSeq
<1>4. chosen \in Seq(DOMAIN told) /\ chosen # << >>
  <2>1. IsFiniteSet(T) /\ T \subseteq Int /\ T \subseteq DOMAIN told
    <3>1. IsFiniteSet(1..Len(told)) /\ T \subseteq 1..Len(told)
      BY <1>3, FS_Interval
    <3> HIDE DEF T
    <3>2. IsFiniteSet(T)
      BY <3>1, FS_Subset
    <3> QED BY <1>3, <3>1, <3>2
  <2> HIDE DEF T
  <2>2. Lists(narrated, T)
    BY <2>1, Listing
  <2> HIDE DEF narrated
  <2>3. Len(narrated) \in Nat /\ narrated \in Seq(DOMAIN told)
    <3>1. Len(narrated) \in Nat /\ DOMAIN narrated = 1..Len(narrated) /\ narrated \in Seq(T)
          /\ \A k \in 1..Len(narrated) : narrated[k] \in T
      BY <2>2 DEF Lists
    <3>2. \A k \in 1..Len(narrated) : narrated[k] \in DOMAIN told
      BY <2>1, <3>1
    <3> QED BY <3>1, <3>2, IsASeq
  <2>4. CASE narrated = << >>
    <3>1. chosen = <<1>>
      BY <2>4
    <3>2. 1 \in DOMAIN told
      BY <1>3
    <3>3. <<1>> \in Seq(DOMAIN told) /\ <<1>> # << >>
      BY <3>2
    <3> QED BY <3>1, <3>3
  <2>5. CASE narrated # << >>
    <3>1. Len(narrated) >= 1
      BY <2>3, <2>5, EmptySeq
    <3> DEFINE n == Len(narrated)
               m == Min({3, n})
    <3>2. m \in Int /\ 1 <= m /\ m <= n
      <4> HIDE DEF n
      <4>1. n \in Int /\ n >= 1
        BY <2>3, <3>1 DEF n
      <4> DEFINE t == 3
      <4>2. t \in Int
        OBVIOUS
      <4> HIDE DEF t
      <4>3. Min({t, n}) = IF t <= n THEN t ELSE n
        BY <4>1, <4>2, Two
      <4> QED BY <4>1, <4>3 DEF t
    <3>3. chosen = SubSeq(narrated, 1, m)
      BY <2>5
    <3> HIDE DEF m, chosen
    <3>4. SubSeq(narrated, 1, m) \in Seq(DOMAIN told) /\ Len(SubSeq(narrated, 1, m)) = IF 1 <= m THEN m ELSE 0
      BY <2>3, <3>2, FirstOnes
    <3>5. Len(chosen) >= 1
      BY <3>2, <3>3, <3>4
    <3>6. chosen \in Seq(DOMAIN told)
      BY <3>3, <3>4
    <3>7. chosen # << >>
      BY <3>5, EmptySeq
    <3> QED BY <3>6, <3>7
  <2> QED BY <2>4, <2>5
<1> HIDE DEF chosen
<1>5. opened \subseteq D /\ IsFiniteSet(opened) /\ opened # {}
  <2>1. Len(chosen) \in Nat /\ DOMAIN chosen = 1..Len(chosen) /\ Len(chosen) >= 1
        /\ \A k \in 1..Len(chosen) : chosen[k] \in DOMAIN told
    BY <1>4, LenProperties, EmptySeq, ElementOfSeq
  <2>2. Range(chosen) = {chosen[k] : k \in 1..Len(chosen)}
    BY <2>1 DEF Range
  <2>3. IsFiniteSet(Range(chosen))
    <3>1. IsFiniteSet(1..Len(chosen))
      BY <2>1, FS_Interval
    <3>2. IsFiniteSet({chosen[k] : k \in 1..Len(chosen)})
      BY <3>1, FiniteImage
    <3> QED BY <2>2, <3>2
  <2>4. 1 \in 1..Len(chosen)
    BY <2>1
  <2>5. chosen[1] \in Range(chosen) /\ Range(chosen) \subseteq DOMAIN told
    BY <2>1, <2>2, <2>4
  <2>6. IsFiniteSet(opened)
    BY <2>3, FiniteImage
  <2> QED BY <2>5, <2>6, <1>3
<1> HIDE DEF opened
<1>6. Min(opened) \in opened
  <2>1. opened \subseteq Int
    BY <1>5, Passages
  <2> QED BY <1>5, <2>1, MinOf
<1>7. est \in Int
  <2>1. EstOf(book, opened) \in Int
    BY <1>5, EstOfType
  <2>2. OpeningCap \in Int
    BY PlanBounds
  <2> DEFINE x == EstOf(book, opened)
  <2> HIDE DEF x
  <2>3. Min({x, OpeningCap}) \in Int
    BY <2>1, <2>2, Two DEF x
  <2> QED BY <2>3 DEF x
<1> HIDE DEF est
<1>8. block \in Seq(DOMAIN book.lines)
  <2>1. << >> \in Seq(DOMAIN book.lines)
    BY EmptySeq
  <2> QED BY <2>1, OpeningBlockType
<1>9. pause.k = 0 \/ (pause.k \in 1..Len(gaps) /\ pause.at \in Int /\ pause.gap \in Pair)
  BY <1>7, OpeningGapType
<1> HIDE DEF block, pause
<1>10. CASE ~(block = << >> \/ pause.k = 0)
  <2>1. block[1] \in DOMAIN book.lines /\ Last(block) \in DOMAIN book.lines
    BY <1>8, <1>10, LastOne
  <2>2. pause.k \in Int /\ pause.at \in Int /\ pause.gap \in Pair
    BY <1>9, <1>10
  <2>3. cue \in CueSet(book)
    <3>1. "overlay_opening_gap" \in Policies
      BY DEF Policies, Overlays
    <3>2. Min(opened) \in D /\ opened \in SUBSET D
      BY <1>5, <1>6
    <3> DEFINE m == Min(opened)
    <3> HIDE DEF m
    <3>3. m \in D
      BY <3>2 DEF m
    <3> QED BY <1>7, <2>1, <2>2, <3>1, <3>2, <3>3 DEF CueSet, m
  <2>4. cue.gap \in Pair
    BY <2>2
  <2> HIDE DEF cue
  <2>5. <<cue>> \in Seq(Cued(book))
    <3>1. cue \in Cued(book)
      BY <2>3, <2>4 DEF Cued
    <3> QED BY <3>1
  <2>6. Last(chosen) \in 0..Len(told)
    <3>1. Last(chosen) \in DOMAIN told
      BY <1>4, LastOne
    <3> QED BY <3>1, <1>3
  <2>7. book.lines[Last(block)].to \in Int
    BY <2>1, Lines
  <2>8. free \in Taken
    BY <2>2 DEF Free, Taken
  <2> HIDE DEF free
  <2>9. o.cues \in Seq(Cued(book)) /\ o.told \in 0..Len(told) /\ o.end \in Int /\ o.taken \in Taken
    BY <2>5, <2>6, <2>7, <2>8
  <2> HIDE DEF o
  <2> QED BY <1>1, <1>10, <2>9
<1> HIDE DEF o
<1> QED BY <1>1, <1>2, <1>10

-----------------------------------------------------------------------------
(* The gap that is best for a passage. *)

\* Of finitely many candidates one has the least number.
LEMMA LeastOf ==
    ASSUME NEW S, IsFiniteSet(S), S # {}, NEW f, \A x \in S : f[x] \in Int
    PROVE  \E x \in S : \A y \in S : f[x] <= f[y]
<1> DEFINE V == {f[x] : x \in S}
<1>1. IsFiniteSet(V)
  BY FiniteImage
<1>2. V \subseteq Int /\ V # {}
  OBVIOUS
<1>3. Min(V) \in V /\ \A v \in V : Min(V) <= v
  <2> HIDE DEF V
  <2> QED BY <1>1, <1>2, MinOf
<1> QED BY <1>3

\* Nothing in S comes before x, by f, g, h and i.
Foremost(x, S, f, g, h, i) ==
    \A y \in S :
      \/ f[x] < f[y]
      \/ f[x] = f[y] /\ g[x] < g[y]
      \/ f[x] = f[y] /\ g[x] = g[y] /\ h[x] < h[y]
      \/ f[x] = f[y] /\ g[x] = g[y] /\ h[x] = h[y] /\ i[x] <= i[y]

(***************************************************************************)
(* Of finitely many things compared by four numbers, one after the other,  *)
(* one comes first.                                                        *)
(***************************************************************************)
LEMMA LexLeast ==
    ASSUME NEW S, IsFiniteSet(S), S # {}, NEW f, NEW g, NEW h, NEW i,
           \A x \in S : f[x] \in Int /\ g[x] \in Int /\ h[x] \in Int /\ i[x] \in Int
    PROVE  \E x \in S : Foremost(x, S, f, g, h, i)
<1>1. PICK a \in S : \A y \in S : f[a] <= f[y]
  BY LeastOf
<1> DEFINE A == {x \in S : f[x] = f[a]}
<1>2. IsFiniteSet(A) /\ A # {}
  BY FS_Subset
<1>3. PICK b \in A : \A y \in A : g[b] <= g[y]
  <2> HIDE DEF A
  <2>1. A \subseteq S
    BY DEF A
  <2> QED BY <1>2, <2>1, LeastOf
<1> DEFINE B == {x \in A : g[x] = g[b]}
<1>4. IsFiniteSet(B) /\ B # {}
  <2> HIDE DEF A
  <2> QED BY <1>2, <1>3, FS_Subset
<1>5. PICK c \in B : \A y \in B : h[c] <= h[y]
  <2>1. B \subseteq S
    OBVIOUS
  <2> HIDE DEF A, B
  <2> QED BY <1>4, <2>1, LeastOf
<1> DEFINE C == {x \in B : h[x] = h[c]}
<1>6. IsFiniteSet(C) /\ C # {}
  <2> HIDE DEF A, B
  <2> QED BY <1>4, <1>5, FS_Subset
<1>7. PICK d \in C : \A y \in C : i[d] <= i[y]
  <2>1. C \subseteq S
    OBVIOUS
  <2> HIDE DEF A, B, C
  <2> QED BY <1>6, <2>1, LeastOf
<1>8. d \in S /\ f[d] = f[a] /\ g[d] = g[b] /\ h[d] = h[c]
  OBVIOUS
<1>9. ASSUME NEW y \in S
      PROVE  \/ f[d] < f[y]
             \/ f[d] = f[y] /\ g[d] < g[y]
             \/ f[d] = f[y] /\ g[d] = g[y] /\ h[d] < h[y]
             \/ f[d] = f[y] /\ g[d] = g[y] /\ h[d] = h[y] /\ i[d] <= i[y]
  <2>1. CASE f[y] # f[a]
    BY <1>1, <1>8, <2>1
  <2>2. CASE f[y] = f[a] /\ g[y] # g[b]
    <3>1. g[b] <= g[y] /\ g[b] \in Int /\ g[y] \in Int
      BY <1>3, <2>2
    <3> QED BY <3>1, <1>8, <2>2
  <2>3. CASE f[y] = f[a] /\ g[y] = g[b] /\ h[y] # h[c]
    <3>1. h[c] <= h[y] /\ h[c] \in Int /\ h[y] \in Int
      BY <1>5, <2>3
    <3> QED BY <3>1, <1>8, <2>3
  <2>4. CASE f[y] = f[a] /\ g[y] = g[b] /\ h[y] = h[c]
    <3>1. i[d] <= i[y]
      BY <1>7, <2>4
    <3> QED BY <3>1, <1>8, <2>4
  <2> QED BY <2>1, <2>2, <2>3, <2>4
<1>10. Foremost(d, S, f, g, h, i)
  BY <1>9 DEF Foremost
<1> QED BY <1>8, <1>10

\* A distance is not negative.
LEMMA AbsType == ASSUME NEW n \in Int PROVE Abs(n) \in Nat
BY DEF Abs

(***************************************************************************)
(* The pause a narration takes is one of the pauses.                       *)
(***************************************************************************)
LEMMA SelectGapType ==
    ASSUME NEW gaps \in Seq(Pair), NEW taken, NEW edge \in Int, NEW target \in Int, NEW minimum, NEW side, NEW limit
    PROVE  SelectGap(gaps, taken, edge, target, minimum, side, limit) = 0
           \/ SelectGap(gaps, taken, edge, target, minimum, side, limit) \in DOMAIN gaps
<1> DEFINE away(g) == IF side = "before" THEN edge - g[2] ELSE g[1] - edge
           fit == {k \in DOMAIN gaps :
                     /\ k \notin taken.gaps
                     /\ gaps[k][2] - gaps[k][1] >= minimum
                     /\ \A a \in taken.at : Abs(Middle(gaps[k]) - a) >= Spacing
                     /\ away(gaps[k]) >= 0 /\ away(gaps[k]) <= limit}
           rank(k) == 65 * Abs(Middle(gaps[k]) - target) + 35 * Abs(Middle(gaps[k]) - edge)
           room(k) == Min({gaps[k][2] - gaps[k][1], GapCap})
           above(a, b) == \/ rank(a) < rank(b)
                          \/ rank(a) = rank(b) /\ (room(a) > room(b) \/ (room(a) = room(b) /\ a <= b))
           best == CHOOSE k \in fit : \A o \in fit : above(k, o)
<1>1. SelectGap(gaps, taken, edge, target, minimum, side, limit) = IF fit = {} THEN 0 ELSE best
  BY DEF SelectGap
<1>2. fit \subseteq DOMAIN gaps
  OBVIOUS
<1> HIDE DEF fit
<1>3. ASSUME fit # {} PROVE best \in fit
  <2>1. Len(gaps) \in Nat /\ DOMAIN gaps = 1..Len(gaps) /\ \A k \in 1..Len(gaps) : gaps[k] \in Pair
    BY PairsOf
  <2>2. IsFiniteSet(fit)
    <3>1. IsFiniteSet(1..Len(gaps))
      BY <2>1, FS_Interval
    <3> QED BY <1>2, <2>1, <3>1, FS_Subset
  <2>3. ASSUME NEW k \in fit PROVE rank(k) \in Int /\ room(k) \in Int /\ k \in Int
    <3>1. gaps[k] \in Pair /\ k \in Int
      BY <1>2, <2>1
    <3>2. Middle(gaps[k]) \in Int
      BY <3>1, MiddleType
    <3>3. Abs(Middle(gaps[k]) - target) \in Int /\ Abs(Middle(gaps[k]) - edge) \in Int
      BY <3>2, AbsType
    <3>4. room(k) \in Int
      <4> DEFINE x == gaps[k][2] - gaps[k][1]
      <4>0. GapCap \in Int
        BY PlanBounds
      <4>1. x \in Int /\ GapCap \in Int
        BY <3>1, <4>0 DEF Pair
      <4> HIDE DEF x
      <4>2. Min({x, GapCap}) \in Int
        BY <4>1, Two
      <4> QED BY <4>2 DEF x
    <3> QED BY <3>1, <3>3, <3>4
  <2> HIDE DEF rank, room
  <2> DEFINE f == [k \in fit |-> rank(k)]
             g == [k \in fit |-> -room(k)]
             h == [k \in fit |-> k]
  <2>4. \A k \in fit : f[k] \in Int /\ g[k] \in Int /\ h[k] \in Int
    BY <2>3
  <2> HIDE DEF f, g, h
  <2>7. fit # {}
    BY <1>3
  <2>5. PICK x \in fit : Foremost(x, fit, f, g, h, h)
    BY <2>7, <2>2, <2>4, LexLeast
  <2>6. \A y \in fit : above(x, y)
    <3> SUFFICES ASSUME NEW y \in fit PROVE above(x, y)
      OBVIOUS
    <3>1. f[x] = rank(x) /\ f[y] = rank(y) /\ g[x] = -room(x) /\ g[y] = -room(y) /\ h[x] = x /\ h[y] = y
      BY DEF f, g, h
    <3>2. rank(x) \in Int /\ rank(y) \in Int /\ room(x) \in Int /\ room(y) \in Int /\ x \in Int /\ y \in Int
      BY <2>3
    <3> QED BY <2>5, <3>1, <3>2 DEF Foremost
  <2> HIDE DEF above
  <2> QED BY <2>6
<1> HIDE DEF best
<1> QED BY <1>1, <1>2, <1>3

(***************************************************************************)
(* The line a narration goes to is one of those it may go to.              *)
(***************************************************************************)
LEMMA BestLineType ==
    ASSUME NEW book, IsProject(book), NEW toks, NEW target \in Int,
           NEW pool, pool \subseteq DOMAIN book.lines, pool # {}
    PROVE  LET b == BestLine(book, toks, target, pool) IN b.k \in pool /\ b.sure \in BOOLEAN
<1> DEFINE common(k) == Cardinality(toks \cap book.lines[k].toks)
           far(k) == Abs(book.lines[k].from - target)
           rank(k) == (4200 * common(k)) \div Max({1, Cardinality(book.lines[k].toks)})
                        + (1800 * (Window - Min({Window, far(k)}))) \div Window
           above(a, b) == \/ rank(a) > rank(b)
                          \/ rank(a) = rank(b) /\ (far(a) < far(b) \/ (far(a) = far(b) /\ a <= b))
           best(S) == CHOOSE k \in S : \A o \in S : above(k, o)
           related == {k \in pool : common(k) > 0}
           T == IF related # {} THEN related ELSE pool
<1>1. BestLine(book, toks, target, pool) = [k |-> best(T), sure |-> related # {}]
  BY DEF BestLine
<1>2. T \subseteq pool /\ T # {}
  OBVIOUS
<1> HIDE DEF related, T
<1>3. best(T) \in T
  <2>1. IsFiniteSet(T) /\ T \subseteq DOMAIN book.lines
    <3>1. Len(book.lines) \in Nat /\ DOMAIN book.lines = 1..Len(book.lines)
      BY Lines
    <3>2. IsFiniteSet(1..Len(book.lines))
      BY <3>1, FS_Interval
    <3>3. T \subseteq 1..Len(book.lines)
      BY <1>2, <3>1
    <3> QED BY <3>1, <3>2, <3>3, FS_Subset
  <2>2. ASSUME NEW k \in T PROVE rank(k) \in Int /\ far(k) \in Int /\ k \in Int
    <3>1. /\ book.lines[k].from \in Int /\ IsFiniteSet(book.lines[k].toks) /\ k \in Int
      BY <2>1, Lines
    <3>2. far(k) \in Int
      BY <3>1, AbsType
    <3> DEFINE m == Max({1, Cardinality(book.lines[k].toks)})
               w == Min({Window, far(k)})
    <3>3. common(k) \in Int
      <4> DEFINE X == toks \cap book.lines[k].toks
      <4>1. IsFiniteSet(X)
        BY <3>1, FS_Subset
      <4> HIDE DEF X
      <4>2. Cardinality(X) \in Nat
        BY <4>1, FS_CardinalityType
      <4> QED BY <4>2 DEF X
    <3>4. m \in Nat \ {0}
      <4> DEFINE c == Cardinality(book.lines[k].toks)
      <4>1. c \in Int
        BY <3>1, FS_CardinalityType
      <4> HIDE DEF c
      <4>2. Max({1, c}) = IF 1 >= c THEN 1 ELSE c
        BY <4>1, Two
      <4> QED BY <4>1, <4>2 DEF c
    <3>5. Window \in Nat \ {0}
      BY PlanBounds
    <3>6. w \in Int
      <4> DEFINE c == far(k)
      <4>1. c \in Int
        BY <3>2
      <4> HIDE DEF c
      <4>2. Min({Window, c}) \in Int
        <5>1. Window \in Int
          BY <3>5
        <5> QED BY <4>1, <5>1, Two
      <4> QED BY <4>2 DEF c
    <3> HIDE DEF m, w, common, far
    <3>7. rank(k) = (4200 * common(k)) \div m + (1800 * (Window - w)) \div Window
      BY DEF m, w
    <3>8. (4200 * common(k)) \div m \in Int
      BY <3>3, <3>4
    <3>9. (1800 * (Window - w)) \div Window \in Int
      BY <3>5, <3>6
    <3> HIDE DEF rank
    <3> QED BY <3>1, <3>2, <3>7, <3>8, <3>9
  <2> HIDE DEF rank, far
  <2> DEFINE f == [k \in T |-> -rank(k)]
             g == [k \in T |-> far(k)]
             h == [k \in T |-> k]
  <2>4. \A k \in T : f[k] \in Int /\ g[k] \in Int /\ h[k] \in Int
    BY <2>2
  <2> HIDE DEF f, g, h
  <2>5. PICK x \in T : Foremost(x, T, f, g, h, h)
    BY <1>2, <2>1, <2>4, LexLeast
  <2>6. \A y \in T : above(x, y)
    <3> SUFFICES ASSUME NEW y \in T PROVE above(x, y)
      OBVIOUS
    <3>1. f[x] = -rank(x) /\ f[y] = -rank(y) /\ g[x] = far(x) /\ g[y] = far(y) /\ h[x] = x /\ h[y] = y
      BY DEF f, g, h
    <3>2. rank(x) \in Int /\ rank(y) \in Int /\ far(x) \in Int /\ far(y) \in Int /\ x \in Int /\ y \in Int
      BY <2>2
    <3> QED BY <2>5, <3>1, <3>2 DEF Foremost
  <2> HIDE DEF above
  <2> QED BY <2>6
<1> HIDE DEF best
<1> QED BY <1>1, <1>2, <1>3

\* The lines a passage may be told at.
LEMMA PoolType ==
    ASSUME NEW book, NEW regular \in Seq(DOMAIN book.lines), NEW final, NEW acc, NEW target
    PROVE  Pool(book, regular, final, acc, target) \subseteq DOMAIN book.lines
<1> DEFINE later == {k \in Range(regular) : book.lines[k].from > acc.last /\ k \notin acc.used /\ k # Last(regular)}
           close == {k \in later : Abs(book.lines[k].from - target) <= Window}
<1>1. Range(regular) \subseteq DOMAIN book.lines
  <2> DEFINE D == DOMAIN book.lines
  <2> HIDE DEF D
  <2>1. regular \in Seq(D)
    BY DEF D
  <2>2. DOMAIN regular = 1..Len(regular) /\ \A k \in 1..Len(regular) : regular[k] \in D
    BY <2>1, LenProperties, ElementOfSeq
  <2>3. Range(regular) \subseteq D
    BY <2>2 DEF Range
  <2> QED BY <2>3 DEF D
<1>2. later \subseteq DOMAIN book.lines /\ close \subseteq DOMAIN book.lines
  BY <1>1
<1>3. regular # << >> => {Last(regular)} \subseteq DOMAIN book.lines
  <2>1. regular # << >> => Last(regular) \in DOMAIN book.lines
    BY LastOne
  <2> QED BY <2>1
<1>4. Pool(book, regular, final, acc, target)
        = CASE final /\ regular # << >> -> {Last(regular)}
            [] ~ final /\ close # {} -> close
            [] ~ final /\ close = {} -> later
            [] OTHER -> {}
  BY DEF Pool
<1> HIDE DEF later, close
<1>5. CASE final /\ regular # << >>
  BY <1>3, <1>4, <1>5
<1>6. CASE ~ final
  BY <1>2, <1>4, <1>6
<1>7. CASE final /\ regular = << >>
  BY <1>4, <1>7
<1> QED BY <1>5, <1>6, <1>7

-----------------------------------------------------------------------------
(* The plan of an episode, and of the whole book. *)

\* The state of writing the cues of an episode.
Telling(book) == [cues : Seq(Cued(book)), used : SUBSET (DOMAIN book.lines), taken : Taken, last : Int]

\* A passage gets a cue.
LEMMA TellType ==
    ASSUME NEW book, IsProject(book), NEW e \in 1..book.eps, NEW gaps \in Seq(Pair),
           NEW told, told \subseteq DOMAIN book.frags, told # {}, NEW target \in Int, NEW acc \in Telling(book),
           NEW line, line.k \in DOMAIN book.lines, line.sure \in BOOLEAN
    PROVE  Tell(book, e, gaps, told, target, acc, line) \in Telling(book)
<1> DEFINE l == book.lines[line.k]
           est == EstOf(book, told)
           id == Min(told)
           cue == [id |-> id, frags |-> told, ep |-> e, anchor |-> line.k, start |-> l.from,
                   at |-> 0, bound |-> l.to, gap |-> << >>, policy |-> "after_aligned_speech_gap",
                   side |-> "none", purpose |-> "none", pause |-> FALSE, est |-> est, sure |-> line.sure]
           p == SelectGap(gaps, acc.taken, l.to, target, 0, "after", book.length[e])
           m == Middle(gaps[p])
           c == IF p = 0 THEN AlignInsert(book, cue) ELSE [cue EXCEPT !.at = m, !.gap = gaps[p]]
           t == Take(acc.taken, gaps, p)
           r == [cues |-> Append(acc.cues, c), used |-> acc.used \cup {line.k}, taken |-> t, last |-> l.from]
<1>1. Tell(book, e, gaps, told, target, acc, line) = r
  BY DEF Tell
<1>2. l.from \in Int /\ l.to \in Int
  BY Lines
<1> HIDE DEF l
<1>3. id \in DOMAIN book.frags
  <2>1. IsFiniteSet(DOMAIN book.frags) /\ DOMAIN book.frags \subseteq Int
    BY Passages
  <2>2. IsFiniteSet(told) /\ told \subseteq Int
    BY <2>1, FS_Subset
  <2> QED BY <2>2, MinOf
<1>4. est \in Int
  BY EstOfType
<1> HIDE DEF id, est
<1>5. cue \in CueSet(book)
  <2>1. "after_aligned_speech_gap" \in Policies
    BY DEF Policies
  <2> QED BY <1>2, <1>3, <1>4, <2>1 DEF CueSet
<1>6. p = 0 \/ p \in DOMAIN gaps
  BY <1>2, SelectGapType
<1>7. acc.taken \in Taken /\ acc.cues \in Seq(Cued(book)) /\ acc.used \subseteq DOMAIN book.lines
  BY DEF Telling
<1> HIDE DEF p
<1>8. t \in Taken
  BY <1>6, <1>7, TakeType
<1>9. c \in Cued(book)
  <2>1. CASE p = 0
    <3> HIDE DEF cue
    <3>1. AlignInsert(book, cue) \in Cued(book)
      BY <1>5, AlignInsertType
    <3> QED BY <2>1, <3>1
  <2>2. CASE p # 0
    <3>1. gaps[p] \in Pair
      BY <1>6, <2>2, PairsOf
    <3>2. m \in Int
      BY <3>1, MiddleType
    <3> HIDE DEF m
    <3> DEFINE d == [cue EXCEPT !.at = m, !.gap = gaps[p]]
    <3>3. d \in CueSet(book) /\ d.gap \in Pair
      <4> HIDE DEF cue
      <4> QED BY <1>5, <3>1, <3>2 DEF CueSet
    <3>4. c = d
      BY <2>2
    <3> HIDE DEF d, c
    <3> QED BY <3>3, <3>4 DEF Cued
  <2> QED BY <2>1, <2>2
<1> HIDE DEF c, t
<1>10. Append(acc.cues, c) \in Seq(Cued(book))
  BY <1>7, <1>9, AppendProperties
<1> QED BY <1>1, <1>2, <1>7, <1>8, <1>10 DEF Telling

\* What the narrations of an episode are written from: its episode, its pauses, its lines, the
\* passages and how they are grouped, and where the narration begins.
Writing(book) ==
    [ep : 1..book.eps, gaps : Seq(Pair), regular : Seq(DOMAIN book.lines), rest : Seq(DOMAIN book.frags),
     groups : Seq(SUBSET Nat), begin : Int]
Grouped(book, w) ==
    /\ w \in Writing(book)
    /\ \A g \in 1..Len(w.groups) : w.groups[g] \subseteq 1..Len(w.rest)

\* The passages of an episode get their cues ...
LEMMA TellGroupType ==
    ASSUME NEW book, IsProject(book), NEW w, Grouped(book, w), NEW b \in Telling(book), NEW e \in 1..Len(w.groups)
    PROVE  TellGroup(book, w, b, e) \in Telling(book)
<1> DEFINE told2 == {w.rest[k] : k \in w.groups[e]}
           n == Len(w.groups)
           x == book.length[w.ep]
           target == w.begin + RoundDiv(e * (x - w.begin), n + 1)
           pool == Pool(book, w.regular, w.ep = book.eps /\ e = n, b, target)
           line == BestLine(book, UNION {book.frags[f].toks : f \in told2}, target, pool)
<1>1. TellGroup(book, w, b, e) = IF (\A f \in told2 : ~ book.frags[f].narrative) \/ pool = {} THEN b
                            ELSE Tell(book, w.ep, w.gaps, told2, target, b, line)
  BY DEF TellGroup
<1>2. /\ w.ep \in 1..book.eps /\ w.gaps \in Seq(Pair) /\ w.regular \in Seq(DOMAIN book.lines)
      /\ w.rest \in Seq(DOMAIN book.frags) /\ w.groups \in Seq(SUBSET Nat) /\ w.begin \in Int
  BY DEF Grouped, Writing
<1>3. told2 \subseteq DOMAIN book.frags
  <2>1. w.groups[e] \subseteq 1..Len(w.rest)
    BY DEF Grouped
  <2>2. \A k \in 1..Len(w.rest) : w.rest[k] \in DOMAIN book.frags
    BY <1>2, LenProperties, ElementOfSeq
  <2> QED BY <2>1, <2>2
<1>4. target \in Int
  <2>1. n \in Nat
    BY <1>2, LenProperties
  <2>2. x \in Int
    <3> DEFINE l == book.length
               m == book.eps
               v == w.ep
    <3>1. l \in [1..m -> Nat] /\ v \in 1..m
      BY <1>2 DEF IsProject
    <3> HIDE DEF l, m, v
    <3>2. l[v] \in Nat
      BY <3>1
    <3> QED BY <3>2 DEF l, v
  <2>3. e \in Int
    OBVIOUS
  <2> HIDE DEF n, x
  <2>4. e * (x - w.begin) \in Int /\ n + 1 \in Nat \ {0}
    BY <1>2, <2>1, <2>2, <2>3
  <2>5. RoundDiv(e * (x - w.begin), n + 1) \in Int
    BY <2>4, RoundDivType
  <2> QED BY <1>2, <2>5
<1> HIDE DEF target
<1>5. pool \subseteq DOMAIN book.lines
  BY <1>2, PoolType
<1> HIDE DEF pool
<1>6. CASE (\A f \in told2 : ~ book.frags[f].narrative) \/ pool = {}
  BY <1>1, <1>6
<1>7. CASE ~((\A f \in told2 : ~ book.frags[f].narrative) \/ pool = {})
  <2>1. told2 # {} /\ pool # {}
    BY <1>7
  <2>2. line.k \in pool /\ line.sure \in BOOLEAN
    BY <1>4, <1>5, <2>1, BestLineType
  <2>3. line.k \in DOMAIN book.lines
    BY <1>5, <2>2
  <2> HIDE DEF line, told2
  <2>4. Tell(book, w.ep, w.gaps, told2, target, b, line) \in Telling(book)
    BY <1>2, <1>3, <1>4, <2>1, <2>2, <2>3, TellType
  <2> QED BY <1>1, <1>7, <2>4
<1> QED BY <1>6, <1>7

\* The groups s told one after the other.
AllTold(book, w, base, s) == FoldLeft(LAMBDA acc, g : TellGroup(book, w, acc, g), base, s)

\* ... in the states the fold over the groups goes through ...
LEMMA TellFold ==
    ASSUME NEW book, IsProject(book), NEW w, Grouped(book, w), NEW base \in Telling(book), NEW s \in Seq(1..Len(w.groups))
    PROVE  \E h : /\ Stepping(h, Len(s), Telling(book), base)
                  /\ \A k \in 1..Len(s) : h[k] = TellGroup(book, w, h[k - 1], s[k])
                  /\ AllTold(book, w, base, s) = h[Len(s)]
<1> DEFINE n == Len(s)
           Op(b, e) == TellGroup(book, w, b, e)
           g == [x \in Telling(book) \X (1..n) |-> Op(x[1], s[x[2]])]
           Rec(it) == [T \in SUBSET (DOMAIN s) |->
                         IF T = {} THEN base ELSE Op(it[T \ {Max(T)}], s[Max(T)])]
           it == CHOOSE it : it = Rec(it)
           h == [k \in 0..n |-> it[1..k]]
<1>1. n \in Nat /\ DOMAIN s = 1..n /\ \A k \in 1..n : s[k] \in (1..Len(w.groups))
  BY LenProperties, ElementOfSeq
<1>2. ASSUME NEW b \in Telling(book), NEW e \in (1..Len(w.groups)) PROVE Op(b, e) \in Telling(book)
  BY TellGroupType
<1>3. AllTold(book, w, base, s) = it[DOMAIN s]
  BY DEF AllTold, FoldLeft, MapThenFoldSet
<1> HIDE DEF Op, n
<1>4. PICK f : Folding(n, Telling(book), base, g, f)
  <2>1. ASSUME NEW b \in Telling(book), NEW k \in 1..n PROVE g[<<b, k>>] \in Telling(book)
    BY <1>1, <1>2
  <2> HIDE DEF g
  <2> QED BY <1>1, <2>1, FoldOfSeq
<1>5. f = Rec(f)
  <2>1. ASSUME NEW T \in SUBSET (1..n)
        PROVE  f[T] = IF T = {} THEN base ELSE Op(f[T \ {Max(T)}], s[Max(T)])
    <3>1. f[T] = (IF T = {} THEN base ELSE g[<<f[T \ {Max(T)}], Max(T)>>]) /\ f \in [SUBSET (1..n) -> Telling(book)]
      BY <1>4 DEF Folding
    <3>2. CASE T # {}
      <4>1. Max(T) \in T
        <5>1. IsFiniteSet(1..n) /\ 1..n \subseteq Int
          BY <1>1, FS_Interval
        <5>2. IsFiniteSet(T) /\ T \subseteq Int
          BY <5>1, FS_Subset
        <5> QED BY <3>2, <5>2, MaxOf
      <4>2. f[T \ {Max(T)}] \in Telling(book) /\ Max(T) \in 1..n
        BY <3>1, <4>1
      <4>3. g[<<f[T \ {Max(T)}], Max(T)>>] = Op(f[T \ {Max(T)}], s[Max(T)])
        BY <4>2
      <4> QED BY <3>1, <3>2, <4>3
    <3> QED BY <3>1, <3>2
  <2>2. f = [T \in SUBSET (1..n) |-> f[T]]
    BY <1>4 DEF Folding
  <2> QED BY <1>1, <2>1, <2>2
<1> HIDE DEF Rec
<1>6. it = Rec(it)
  BY <1>5
<1>7. \A T \in SUBSET (1..n) : it[T] = IF T = {} THEN base ELSE Op(it[T \ {Max(T)}], s[Max(T)])
  <2> DEFINE i == it
  <2>1. i = Rec(i)
    BY <1>6
  <2> HIDE DEF i
  <2>2. \A T \in SUBSET (1..n) : i[T] = IF T = {} THEN base ELSE Op(i[T \ {Max(T)}], s[Max(T)])
    BY <1>1, <2>1 DEF Rec
  <2> QED BY <2>2 DEF i
<1> HIDE DEF it
<1>8. h[0] = base
  <2>1. 1..0 = {} /\ 0 \in 0..n
    BY <1>1
  <2> QED BY <1>7, <2>1
<1>9. ASSUME NEW k \in 1..n PROVE h[k] = Op(h[k - 1], s[k])
  <2>1. 1..k \in SUBSET (1..n) /\ 1..k # {} /\ Max(1..k) = k /\ (1..k) \ {k} = 1..(k - 1)
    BY <1>1, Ranges
  <2>2. it[1..k] = Op(it[1..(k - 1)], s[k])
    BY <1>7, <2>1
  <2>3. k \in 0..n /\ k - 1 \in 0..n
    BY <1>1
  <2> QED BY <2>2, <2>3
<1>10. AllTold(book, w, base, s) = h[n]
  <2>1. n \in 0..n
    BY <1>1
  <2> QED BY <1>1, <1>3, <2>1
<1> HIDE DEF h
<1>11. \A k \in 0..n : h[k] \in Telling(book)
  <2> DEFINE G == {k \in 0..n : h[k] \in Telling(book)}
  <2>1. 0 \in G
    BY <1>1, <1>8
  <2>2. ASSUME NEW k \in 1..n, k - 1 \in G PROVE k \in G
    <3>1. h[k - 1] \in Telling(book) /\ s[k] \in (1..Len(w.groups)) /\ k \in 0..n
      BY <1>1, <2>2
    <3>2. Op(h[k - 1], s[k]) \in Telling(book)
      BY <3>1, <1>2
    <3> QED BY <3>1, <3>2, <1>9
  <2> HIDE DEF G
  <2>3. \A k \in 0..n : k \in G
    BY <1>1, <2>1, <2>2, Counting
  <2> QED BY <2>3 DEF G
<1>12. Stepping(h, n, Telling(book), base) /\ \A k \in 1..n : h[k] = TellGroup(book, w, h[k - 1], s[k])
  BY <1>8, <1>9, <1>11 DEF Stepping, Op
<1> QED BY <1>10, <1>12 DEF n

\* ... and they stay cues of the book.
LEMMA AllToldType ==
    ASSUME NEW book, IsProject(book), NEW w, Grouped(book, w), NEW base \in Telling(book), NEW s \in Seq(1..Len(w.groups))
    PROVE  AllTold(book, w, base, s) \in Telling(book)
<1>1. PICK h : /\ Stepping(h, Len(s), Telling(book), base)
               /\ \A k \in 1..Len(s) : h[k] = TellGroup(book, w, h[k - 1], s[k])
               /\ AllTold(book, w, base, s) = h[Len(s)]
  BY TellFold
<1>2. Len(s) \in 0..Len(s)
  BY LenProperties
<1> QED BY <1>1, <1>2 DEF Stepping

\* What is told of the whole book are cues.
LEMMA TellAllType ==
    ASSUME NEW book, IsProject(book), NEW w, Grouped(book, w), NEW zero \in Telling(book)
    PROVE  TellAll(book, w, zero).cues \in Seq(Cued(book))
<1> DEFINE s == [g \in DOMAIN w.groups |-> g]
<1>1. TellAll(book, w, zero) = AllTold(book, w, zero, s)
  BY DEF TellAll, AllTold
<1>2. s \in Seq(1..Len(w.groups))
  <2>1. w.groups \in Seq(SUBSET Nat)
    BY DEF Grouped, Writing
  <2>2. Len(w.groups) \in Nat /\ DOMAIN w.groups = 1..Len(w.groups)
    BY <2>1, LenProperties
  <2>3. \A g \in 1..Len(w.groups) : g \in 1..Len(w.groups)
    OBVIOUS
  <2> QED BY <2>2, <2>3, IsASeq
<1> HIDE DEF s
<1>3. AllTold(book, w, zero, s) \in Telling(book)
  BY <1>2, AllToldType
<1> QED BY <1>1, <1>3 DEF Telling

(***************************************************************************)
(* The cues an episode is given are cues.                                  *)
(***************************************************************************)
LEMMA RawCuesType ==
    ASSUME NEW book, IsProject(book), NEW e \in 1..book.eps, NEW cuts, CutSet(cuts[e]),
           NEW told \in Seq(DOMAIN book.frags)
    PROVE  RawCues(book, cuts, e, told) \in Seq(Cued(book))
<1> DEFINE n == Len(told)
           number == Min({n, Max({3, (book.length[e] + Interval - 1) \div Interval})})
           gaps == GapsOf(book, cuts, e)
           held == KeptLines(book, cuts, e)
           open == Opening(book, e, told, held, gaps)
           rest == SubSeq(told, open.told + 1, n)
           T == {j \in DOMAIN held : held[j] \notin open.lines /\ book.lines[held[j]].from > open.end}
           regular == Only(held, T)
           groups == SplitEvenly(Len(rest), number - Len(open.cues))
           begin == IF open.end > 0 THEN open.end ELSE Min({book.lines[k].from : k \in Range(held)})
           w == [ep |-> e, gaps |-> gaps, rest |-> rest, regular |-> regular, groups |-> groups, begin |-> begin]
           zero == [cues |-> open.cues, used |-> {}, taken |-> open.taken, last |-> open.end]
<1>1. RawCues(book, cuts, e, told) = IF told = << >> \/ held = << >> THEN << >> ELSE TellAll(book, w, zero).cues
  BY DEF RawCues
<1>2. << >> \in Seq(Cued(book))
  BY EmptySeq
<1>3. CASE told = << >> \/ held = << >>
  BY <1>1, <1>2, <1>3
<1>4. CASE ~(told = << >> \/ held = << >>)
  <2>1. gaps \in Seq(Pair)
    BY GapsType
  <2>2. held \in Seq(DOMAIN book.lines) /\ Len(held) \in Nat /\ DOMAIN held = 1..Len(held)
        /\ IsFiniteSet(Range(held))
    BY KeptType
  <2> HIDE DEF gaps, held
  <2>3. told # << >>
    BY <1>4
  <2>4. open.cues \in Seq(Cued(book)) /\ open.told \in 0..n /\ open.end \in Int /\ open.taken \in Taken
    BY <2>1, <2>2, <2>3, OpeningType
  <2> HIDE DEF open
  <2>5. n \in Nat /\ DOMAIN told = 1..n /\ \A k \in 1..n : told[k] \in DOMAIN book.frags
    BY LenProperties, ElementOfSeq
  <2>6. rest \in Seq(DOMAIN book.frags) /\ Len(rest) \in Nat
    <3> HIDE DEF n
    <3>1. open.told + 1 \in Int /\ n \in Int /\ \A k \in (open.told + 1)..n : told[k] \in DOMAIN book.frags
      BY <2>4, <2>5
    <3>2. rest \in Seq(DOMAIN book.frags)
      BY <3>1, SubSeqProperties
    <3> QED BY <3>2, LenProperties
  <2>7. number \in Int
    <3> DEFINE x == (book.length[e] + Interval - 1) \div Interval
    <3>1. x \in Int
      <4>1. book.length[e] \in Nat
        <5> DEFINE l == book.length
                   m == book.eps
        <5>1. l \in [1..m -> Nat] /\ e \in 1..m
          BY DEF IsProject
        <5> HIDE DEF l, m
        <5>2. l[e] \in Nat
          BY <5>1
        <5> QED BY <5>2 DEF l
      <4>2. Interval \in Nat \ {0}
        BY PlanBounds
      <4> QED BY <4>1, <4>2
    <3> HIDE DEF x, n
    <3>2. 3 \in Int
      OBVIOUS
    <3> DEFINE y == Max({3, x})
    <3>3. y \in Int
      BY <3>1, <3>2, Two
    <3> HIDE DEF y
    <3>5. n \in Int
      BY <2>5
    <3>4. Min({n, y}) \in Int
      BY <3>3, <3>5, Two
    <3> QED BY <3>4 DEF x, y
  <2> HIDE DEF rest, number
  <2>8. regular \in Seq(DOMAIN book.lines)
    <3>1. T \subseteq DOMAIN held
      OBVIOUS
    <3> HIDE DEF T
    <3> QED BY <2>2, <3>1, OnlyFacts
  <2>9. groups \in Seq(SUBSET (1..Len(rest))) /\ Len(groups) \in Nat /\ DOMAIN groups = 1..Len(groups)
    <3> DEFINE c == number - Len(open.cues)
    <3>1. c \in Int
      <4>1. Len(open.cues) \in Nat
        BY <2>4, LenProperties
      <4> QED BY <2>7, <4>1
    <3> HIDE DEF c
    <3>2. SplitEvenly(Len(rest), c) \in Seq(SUBSET (1..Len(rest))) /\ Len(SplitEvenly(Len(rest), c)) \in Nat
          /\ DOMAIN SplitEvenly(Len(rest), c) = 1..Len(SplitEvenly(Len(rest), c))
      BY <2>6, <3>1, SplitEvenlyType
    <3> QED BY <3>2 DEF c
  <2> HIDE DEF regular, groups
  <2>10. begin \in Int
    <3> DEFINE F == {book.lines[k].from : k \in Range(held)}
    <3>1. IsFiniteSet(F)
      <4> DEFINE f == [k \in Range(held) |-> book.lines[k].from]
      <4>1. F = {f[k] : k \in Range(held)}
        OBVIOUS
      <4> HIDE DEF f, F
      <4>2. IsFiniteSet({f[k] : k \in Range(held)})
        BY <2>2, FiniteImage
      <4> QED BY <4>1, <4>2
    <3>2. Range(held) \subseteq DOMAIN book.lines /\ Range(held) # {}
      <4>1. held # << >>
        BY <1>4
      <4>2. Len(held) >= 1
        BY <2>2, <4>1, EmptySeq
      <4>3. 1 \in DOMAIN held /\ \A k \in DOMAIN held : held[k] \in DOMAIN book.lines
        BY <2>2, <4>2, ElementOfSeq
      <4> QED BY <4>3 DEF Range
    <3>3. F \subseteq Int /\ F # {}
      BY <3>2, Lines
    <3> HIDE DEF F
    <3>4. Min(F) \in Int
      BY <3>1, <3>3, MinOf
    <3> QED BY <2>4, <3>4 DEF F
  <2> HIDE DEF begin
  <2>11. Grouped(book, w)
    <3>1. \A g \in 1..Len(groups) : groups[g] \subseteq 1..Len(rest) /\ groups[g] \in SUBSET Nat
      <4>1. \A g \in 1..Len(groups) : groups[g] \in SUBSET (1..Len(rest))
        BY <2>9, ElementOfSeq
      <4> QED BY <4>1, <2>6
    <3>2. groups \in Seq(SUBSET Nat)
      BY <2>9, <3>1, IsASeq
    <3>3. w \in Writing(book)
      BY <2>1, <2>6, <2>8, <2>10, <3>2 DEF Writing
    <3>4. w.groups = groups /\ w.rest = rest
      OBVIOUS
    <3> HIDE DEF w
    <3> QED BY <3>1, <3>3, <3>4 DEF Grouped
  <2>12. zero \in Telling(book)
    BY <2>4 DEF Telling
  <2> HIDE DEF w, zero
  <2>13. TellAll(book, w, zero).cues \in Seq(Cued(book))
    BY <2>11, <2>12, TellAllType
  <2> QED BY <1>1, <1>4, <2>13
<1> QED BY <1>3, <1>4

(***************************************************************************)
(* The raw cues of the plan.                                               *)
(***************************************************************************)
LEMMA GenerateType ==
    ASSUME NEW book, IsProject(book), NEW cuts, \A e \in 1..book.eps : CutSet(cuts[e])
    PROVE  Generate(book, cuts) \in Seq(Cued(book))
<1> DEFINE told == Told(book, cuts)
           parts == [e \in 1..book.eps |-> RawCues(book, cuts, e, told[e])]
<1>1. Generate(book, cuts) = ByPlace(FlattenSeq(parts))
  BY DEF Generate
<1>2. ASSUME NEW e \in 1..book.eps PROVE RawCues(book, cuts, e, told[e]) \in Seq(Cued(book))
  <2>1. told[e] \in Seq(DOMAIN book.frags)
    BY ToldType
  <2> HIDE DEF told
  <2> QED BY <2>1, RawCuesType
<1>3. book.eps \in Nat
  BY DEF IsProject
<1> HIDE DEF told
<1>4. parts \in Seq(Seq(Cued(book)))
  BY <1>2, <1>3, IsASeq
<1> HIDE DEF parts
<1>5. FlattenSeq(parts) \in Seq(Cued(book))
  BY <1>4, FlattenType
<1>6. \A c \in Cued(book) : c.ep \in Int /\ c.at \in Int
  BY <1>3 DEF Cued, CueSet
<1>7. ByPlace(FlattenSeq(parts)) \in Seq(Cued(book))
  BY <1>5, <1>6, ByPlaceType
<1> QED BY <1>1, <1>7

-----------------------------------------------------------------------------
(* The answers of the scene alignment. *)

\* The state of applying the answers of the scene alignment, and when they can be.
Aligning(book) == [cues : Seq(Cued(book)), last : Int \X Int, taken : [1..book.eps -> Taken]]
Answerable(book, cuts, raw, V) ==
    /\ IsProject(book) /\ \A e \in 1..book.eps : CutSet(cuts[e])
    /\ raw \in Seq(Cued(book)) /\ \A m \in V : IsMatch(book, m) /\ m.cue \in DOMAIN raw

\* A result added to what is aligned.
Added(acc, result, last, ep, used) ==
    [cues |-> Append(acc.cues, result), last |-> last, taken |-> [acc.taken EXCEPT ![ep] = used]]

\* A cue goes to the end of those that were applied.
LEMMA AddedType ==
    ASSUME NEW book, NEW acc \in Aligning(book), NEW result \in Cued(book), NEW last \in Int \X Int,
           NEW ep \in 1..book.eps, NEW used \in Taken
    PROVE  Added(acc, result, last, ep, used) \in Aligning(book)
<1>1. acc.cues \in Seq(Cued(book)) /\ acc.taken \in [1..book.eps -> Taken]
  BY DEF Aligning
<1>2. Append(acc.cues, result) \in Seq(Cued(book))
  BY <1>1, AppendProperties
<1>3. [acc.taken EXCEPT ![ep] = used] \in [1..book.eps -> Taken]
  BY <1>1
<1> QED BY <1>2, <1>3 DEF Added, Aligning

\* A cue laid over a pause, and one forced into one.
LaidIn(c, g, bound) == [c EXCEPT !.at = Middle(g), !.gap = g, !.bound = bound]
ForcedIn(c, g, at, bound) ==
    [c EXCEPT !.at = at, !.gap = g, !.bound = bound, !.policy = "insert_for_dense_action"]

\* A cue laid over a pause has that pause, a forced one needs none.
LEMMA LaidInType ==
    ASSUME NEW book, NEW c \in CueSet(book), NEW g \in Pair, NEW bound \in Int, NEW at \in Int
    PROVE  LaidIn(c, g, bound) \in Cued(book) /\ ForcedIn(c, g, at, bound) \in Cued(book)
<1> DEFINE m == Middle(g)
           a == [c EXCEPT !.at = m, !.gap = g, !.bound = bound]
           b == [c EXCEPT !.at = at, !.gap = g, !.bound = bound, !.policy = "insert_for_dense_action"]
<1>1. m \in Int
  BY MiddleType
<1> HIDE DEF m
<1>2. a \in CueSet(book) /\ a.gap = g
  BY <1>1 DEF CueSet
<1>3. b \in CueSet(book) /\ b.gap = g
  <2>1. "insert_for_dense_action" \in Policies
    BY DEF Policies
  <2> QED BY <2>1 DEF CueSet
<1>4. LaidIn(c, g, bound) = a /\ ForcedIn(c, g, at, bound) = b
  BY DEF LaidIn, ForcedIn, m
<1> HIDE DEF a, b
<1> QED BY <1>2, <1>3, <1>4 DEF Cued

\* What an answer says of a cue leaves it a cue.
LEMMA OverlayAnswerType ==
    ASSUME NEW book, NEW old \in Cued(book), NEW m, IsMatch(book, m)
    PROVE  LET c == [old EXCEPT !.est = m.est, !.purpose = m.purpose, !.pause = m.pause, !.sure = m.sure, !.side = m.side]
           IN c \in Cued(book)
<1> DEFINE c == [old EXCEPT !.est = m.est, !.purpose = m.purpose, !.pause = m.pause, !.sure = m.sure, !.side = m.side]
<1>1. m.est \in Int /\ m.purpose \in STRING /\ m.pause \in BOOLEAN /\ m.sure \in BOOLEAN /\ m.side \in {"before", "after"}
  BY DEF IsMatch
<1>2. c \in CueSet(book) /\ c.policy = old.policy /\ c.gap = old.gap
  BY <1>1 DEF Cued, CueSet
<1> HIDE DEF c
<1>3. c \in Cued(book)
  BY <1>2 DEF Cued
<1> QED BY <1>3 DEF c

(***************************************************************************)
(* One answer applied: the cue keeps its pause, is laid over another, is   *)
(* forced into one, or is cut in at the boundary of its scene.             *)
(***************************************************************************)
LEMMA AlignType ==
    ASSUME NEW book, NEW cuts, NEW raw, NEW V, Answerable(book, cuts, raw, V), NEW b \in Aligning(book), NEW e \in V
    PROVE  Align(book, cuts, raw, e, b) \in Aligning(book)
<1> DEFINE old == raw[e.cue]
           cue == [old EXCEPT !.est = e.est, !.purpose = e.purpose, !.pause = e.pause, !.sure = e.sure]
           line == book.lines[e.anchor]
           taken == b.taken[line.ep]
           placed == [cue EXCEPT !.ep = line.ep, !.anchor = e.anchor, !.start = line.from, !.side = e.side,
                                 !.policy = "overlay_speech_free"]
           edge == Boundary(book, placed)
           place == <<line.ep, line.from>>
           apart(x) == \A f \in taken.forced : Abs(x - f) >= ForcedSpacing
           gaps == GapsOf(book, cuts, line.ep)
           quiet == IF e.pause THEN 0
                    ELSE SelectGap(gaps, taken, edge, edge, e.est + SlackPlan, e.side,
                                   IF e.side = "before" THEN MaxLead ELSE MaxAnchor)
           forcing == /\ quiet = 0 /\ ~ e.pause /\ e.dense /\ e.side = "after"
                      /\ e.purpose \notin {"character_introduction", "book_boundary"}
                      /\ apart(line.from)
           room == IF forcing THEN SelectGap(gaps, taken, edge, edge, 0, "after", MaxAnchor) ELSE 0
           margin(g) == Min({g[1] + SpeechMargin, Max({g[1] + 1, g[2] - 1})})
           used == Take(taken, gaps, room)
           forced == [used EXCEPT !.forced = @ \cup {margin(gaps[room])}]
           over == [b EXCEPT !.cues = Append(@, [cue EXCEPT !.side = e.side]),
                             !.taken[old.ep].at = @ \cup {old.at}]
           chosen == CASE quiet > 0 ->
                            Added(b, LaidIn(placed, gaps[quiet], edge), place, line.ep, Take(taken, gaps, quiet))
                       [] quiet = 0 /\ room > 0 /\ apart(Middle(gaps[room])) ->
                            Added(b, ForcedIn(placed, gaps[room], margin(gaps[room]), edge), place, line.ep, forced)
                       [] OTHER -> Added(b, AlignInsert(book, placed), place, line.ep, used)
<1>1. Align(book, cuts, raw, e, b) =
        IF old.policy \in Overlays THEN over
        ELSE IF ~ e.believed \/ ~ Outside(line, cuts[line.ep]) \/ Earlier(place, b.last) THEN b
        ELSE chosen
  BY DEF Align, Added, LaidIn, ForcedIn
<1>2. IsProject(book) /\ old \in Cued(book) /\ IsMatch(book, e) /\ \A i \in 1..book.eps : CutSet(cuts[i])
  <2>1. raw \in Seq(Cued(book)) /\ e.cue \in DOMAIN raw
    BY DEF Answerable
  <2>2. old \in Cued(book)
    BY <2>1, ElementOfSeq
  <2> QED BY <2>2 DEF Answerable
<1>3. /\ b.cues \in Seq(Cued(book)) /\ b.taken \in [1..book.eps -> Taken]
      /\ old.ep \in 1..book.eps /\ old.at \in Int
  BY <1>2 DEF Aligning, Cued, CueSet
<1>4. e.anchor \in DOMAIN book.lines /\ e.est \in Int /\ e.purpose \in STRING /\ e.pause \in BOOLEAN
      /\ e.sure \in BOOLEAN /\ e.side \in {"before", "after"}
  BY <1>2 DEF IsMatch
<1>5. CASE old.policy \in Overlays
  <2> DEFINE c == [old EXCEPT !.est = e.est, !.purpose = e.purpose, !.pause = e.pause, !.sure = e.sure, !.side = e.side]
             t == [b.taken EXCEPT ![old.ep].at = @ \cup {old.at}]
  <2>1. c \in Cued(book)
    BY <1>2, OverlayAnswerType
  <2>2. over = [b EXCEPT !.cues = Append(@, c), !.taken = t]
    <3>1. [cue EXCEPT !.side = e.side] = c
      BY <1>2 DEF Cued, CueSet
    <3> HIDE DEF cue, c
    <3> QED BY <3>1 DEF Aligning
  <2> HIDE DEF c
  <2>3. Append(b.cues, c) \in Seq(Cued(book))
    BY <1>3, <2>1, AppendProperties
  <2>4. t \in [1..book.eps -> Taken]
    <3>1. b.taken[old.ep] \in Taken
      BY <1>3
    <3> HIDE DEF old
    <3>2. [b.taken[old.ep] EXCEPT !.at = @ \cup {old.at}] \in Taken
      BY <1>3, <3>1 DEF Taken
    <3> QED BY <1>3, <3>2
  <2> HIDE DEF t, over
  <2>5. over \in Aligning(book)
    BY <2>2, <2>3, <2>4 DEF Aligning
  <2> QED BY <1>1, <1>5, <2>5
<1>6. CASE old.policy \notin Overlays
  <2>1. line.ep \in 1..book.eps /\ line.from \in Int /\ line.to \in Int
    BY <1>2, <1>4, Lines
  <2>2. placed \in CueSet(book)
    <3>1. "overlay_speech_free" \in Policies
      BY DEF Policies, Overlays
    <3>2. old \in CueSet(book)
      BY <1>2 DEF Cued
    <3> HIDE DEF line, old
    <3> QED BY <1>4, <2>1, <3>1, <3>2 DEF CueSet
  <2> HIDE DEF old, cue, line, over
  <2>3. taken \in Taken
    BY <1>3, <2>1
  <2>4. place \in Int \X Int
    <3>1. book.eps \in Nat
      BY <1>2 DEF IsProject
    <3> QED BY <2>1, <3>1
  <2> HIDE DEF placed
  <2>5. edge \in Int
    BY <1>2, <2>2, BoundaryType
  <2>6. gaps \in Seq(Pair)
    BY <1>2, <2>1, GapsType
  <2> HIDE DEF taken, place, edge, gaps, apart
  <2>7. quiet = 0 \/ quiet \in DOMAIN gaps
    BY <2>5, <2>6, SelectGapType
  <2>8. room = 0 \/ room \in DOMAIN gaps
    <3> HIDE DEF forcing
    <3> QED BY <2>5, <2>6, SelectGapType
  <2> HIDE DEF quiet, room
  <2>9. used \in Taken
    BY <2>3, <2>6, <2>8, TakeType
  <2> HIDE DEF used, margin
  <2>10. CASE quiet > 0
    <3>1. quiet \in DOMAIN gaps
      BY <2>7, <2>10
    <3>2. gaps[quiet] \in Pair
      BY <2>6, <3>1, PairsOf
    <3>3. LaidIn(placed, gaps[quiet], edge) \in Cued(book)
      BY <2>2, <2>5, <3>2, LaidInType
    <3>4. Take(taken, gaps, quiet) \in Taken
      BY <2>3, <2>6, <3>1, TakeType
    <3>5. Added(b, LaidIn(placed, gaps[quiet], edge), place, line.ep, Take(taken, gaps, quiet)) \in Aligning(book)
      BY <2>1, <2>4, <3>3, <3>4, AddedType
    <3> QED BY <1>1, <1>6, <2>10, <3>5
  <2>11. CASE ~(quiet > 0) /\ quiet = 0 /\ room > 0 /\ apart(Middle(gaps[room]))
    <3>1. room \in DOMAIN gaps
      BY <2>8, <2>11
    <3>2. gaps[room] \in Pair
      BY <2>6, <3>1, PairsOf
    <3>3. margin(gaps[room]) \in Int
      <4> DEFINE x == gaps[room][1]
                 y == gaps[room][2]
                 p == x + SpeechMargin
                 q == x + 1
                 r == y - 1
      <4>1. SpeechMargin \in Int
        BY PlanBounds
      <4>2. p \in Int /\ q \in Int /\ r \in Int
        BY <3>2, <4>1 DEF Pair
      <4> HIDE DEF p, q, r
      <4>3. Max({q, r}) \in Int
        BY <4>2, Two
      <4> DEFINE z == Max({q, r})
      <4> HIDE DEF z
      <4>4. z \in Int
        BY <4>3 DEF z
      <4>5. Min({p, z}) \in Int
        BY <4>2, <4>4, Two
      <4> QED BY <4>5 DEF margin, p, q, r, z
    <3>4. ForcedIn(placed, gaps[room], margin(gaps[room]), edge) \in Cued(book)
      BY <2>2, <2>5, <3>2, <3>3, LaidInType
    <3>5. forced \in Taken
      BY <2>9, <3>3 DEF Taken
    <3> HIDE DEF forced
    <3>6. Added(b, ForcedIn(placed, gaps[room], margin(gaps[room]), edge), place, line.ep, forced) \in Aligning(book)
      BY <2>1, <2>4, <3>4, <3>5, AddedType
    <3> QED BY <1>1, <1>6, <2>11, <3>6
  <2>12. CASE ~(quiet > 0) /\ ~(quiet = 0 /\ room > 0 /\ apart(Middle(gaps[room])))
    <3>1. AlignInsert(book, placed) \in Cued(book)
      BY <1>2, <2>2, AlignInsertType
    <3>2. Added(b, AlignInsert(book, placed), place, line.ep, used) \in Aligning(book)
      BY <2>1, <2>4, <2>9, <3>1, AddedType
    <3> HIDE DEF forced
    <3> QED BY <1>1, <1>6, <2>12, <3>2
  <2> QED BY <2>10, <2>11, <2>12
<1> QED BY <1>5, <1>6

\* The answers applied one after the other.
AllAligned(book, cuts, raw, base, s) == FoldLeft(LAMBDA acc, m : Align(book, cuts, raw, m, acc), base, s)

\* The states Apply goes through ...
LEMMA AlignFold ==
    ASSUME NEW book, NEW cuts, NEW raw, NEW V, Answerable(book, cuts, raw, V), NEW base \in Aligning(book), NEW s \in Seq(V)
    PROVE  \E h : /\ Stepping(h, Len(s), Aligning(book), base)
                  /\ \A k \in 1..Len(s) : h[k] = Align(book, cuts, raw, s[k], h[k - 1])
                  /\ AllAligned(book, cuts, raw, base, s) = h[Len(s)]
<1> DEFINE n == Len(s)
           Op(b, e) == Align(book, cuts, raw, e, b)
           g == [x \in Aligning(book) \X (1..n) |-> Op(x[1], s[x[2]])]
           Rec(it) == [T \in SUBSET (DOMAIN s) |->
                         IF T = {} THEN base ELSE Op(it[T \ {Max(T)}], s[Max(T)])]
           it == CHOOSE it : it = Rec(it)
           h == [k \in 0..n |-> it[1..k]]
<1>1. n \in Nat /\ DOMAIN s = 1..n /\ \A k \in 1..n : s[k] \in V
  BY LenProperties, ElementOfSeq
<1>2. ASSUME NEW b \in Aligning(book), NEW e \in V PROVE Op(b, e) \in Aligning(book)
  BY AlignType
<1>3. AllAligned(book, cuts, raw, base, s) = it[DOMAIN s]
  BY DEF AllAligned, FoldLeft, MapThenFoldSet
<1> HIDE DEF Op, n
<1>4. PICK f : Folding(n, Aligning(book), base, g, f)
  <2>1. ASSUME NEW b \in Aligning(book), NEW k \in 1..n PROVE g[<<b, k>>] \in Aligning(book)
    BY <1>1, <1>2
  <2> HIDE DEF g
  <2> QED BY <1>1, <2>1, FoldOfSeq
<1>5. f = Rec(f)
  <2>1. ASSUME NEW T \in SUBSET (1..n)
        PROVE  f[T] = IF T = {} THEN base ELSE Op(f[T \ {Max(T)}], s[Max(T)])
    <3>1. f[T] = (IF T = {} THEN base ELSE g[<<f[T \ {Max(T)}], Max(T)>>]) /\ f \in [SUBSET (1..n) -> Aligning(book)]
      BY <1>4 DEF Folding
    <3>2. CASE T # {}
      <4>1. Max(T) \in T
        <5>1. IsFiniteSet(1..n) /\ 1..n \subseteq Int
          BY <1>1, FS_Interval
        <5>2. IsFiniteSet(T) /\ T \subseteq Int
          BY <5>1, FS_Subset
        <5> QED BY <3>2, <5>2, MaxOf
      <4>2. f[T \ {Max(T)}] \in Aligning(book) /\ Max(T) \in 1..n
        BY <3>1, <4>1
      <4>3. g[<<f[T \ {Max(T)}], Max(T)>>] = Op(f[T \ {Max(T)}], s[Max(T)])
        BY <4>2
      <4> QED BY <3>1, <3>2, <4>3
    <3> QED BY <3>1, <3>2
  <2>2. f = [T \in SUBSET (1..n) |-> f[T]]
    BY <1>4 DEF Folding
  <2> QED BY <1>1, <2>1, <2>2
<1> HIDE DEF Rec
<1>6. it = Rec(it)
  BY <1>5
<1>7. \A T \in SUBSET (1..n) : it[T] = IF T = {} THEN base ELSE Op(it[T \ {Max(T)}], s[Max(T)])
  <2> DEFINE i == it
  <2>1. i = Rec(i)
    BY <1>6
  <2> HIDE DEF i
  <2>2. \A T \in SUBSET (1..n) : i[T] = IF T = {} THEN base ELSE Op(i[T \ {Max(T)}], s[Max(T)])
    BY <1>1, <2>1 DEF Rec
  <2> QED BY <2>2 DEF i
<1> HIDE DEF it
<1>8. h[0] = base
  <2>1. 1..0 = {} /\ 0 \in 0..n
    BY <1>1
  <2> QED BY <1>7, <2>1
<1>9. ASSUME NEW k \in 1..n PROVE h[k] = Op(h[k - 1], s[k])
  <2>1. 1..k \in SUBSET (1..n) /\ 1..k # {} /\ Max(1..k) = k /\ (1..k) \ {k} = 1..(k - 1)
    BY <1>1, Ranges
  <2>2. it[1..k] = Op(it[1..(k - 1)], s[k])
    BY <1>7, <2>1
  <2>3. k \in 0..n /\ k - 1 \in 0..n
    BY <1>1
  <2> QED BY <2>2, <2>3
<1>10. AllAligned(book, cuts, raw, base, s) = h[n]
  <2>1. n \in 0..n
    BY <1>1
  <2> QED BY <1>1, <1>3, <2>1
<1> HIDE DEF h
<1>11. \A k \in 0..n : h[k] \in Aligning(book)
  <2> DEFINE G == {k \in 0..n : h[k] \in Aligning(book)}
  <2>1. 0 \in G
    BY <1>1, <1>8
  <2>2. ASSUME NEW k \in 1..n, k - 1 \in G PROVE k \in G
    <3>1. h[k - 1] \in Aligning(book) /\ s[k] \in V /\ k \in 0..n
      BY <1>1, <2>2
    <3>2. Op(h[k - 1], s[k]) \in Aligning(book)
      BY <3>1, <1>2
    <3> QED BY <3>1, <3>2, <1>9
  <2> HIDE DEF G
  <2>3. \A k \in 0..n : k \in G
    BY <1>1, <2>1, <2>2, Counting
  <2> QED BY <2>3 DEF G
<1>12. Stepping(h, n, Aligning(book), base) /\ \A k \in 1..n : h[k] = Align(book, cuts, raw, s[k], h[k - 1])
  BY <1>8, <1>9, <1>11 DEF Stepping, Op
<1> QED BY <1>10, <1>12 DEF n

\* ... of which each has the type the next step needs.
LEMMA AllAlignedType ==
    ASSUME NEW book, NEW cuts, NEW raw, NEW V, Answerable(book, cuts, raw, V), NEW base \in Aligning(book), NEW s \in Seq(V)
    PROVE  AllAligned(book, cuts, raw, base, s) \in Aligning(book)
<1>1. PICK h : /\ Stepping(h, Len(s), Aligning(book), base)
               /\ \A k \in 1..Len(s) : h[k] = Align(book, cuts, raw, s[k], h[k - 1])
               /\ AllAligned(book, cuts, raw, base, s) = h[Len(s)]
  BY AlignFold
<1>2. Len(s) \in 0..Len(s)
  BY LenProperties
<1> QED BY <1>1, <1>2 DEF Stepping

(***************************************************************************)
(* The answers applied make a plan of cues.                                *)
(***************************************************************************)
LEMMA ApplyType ==
    ASSUME NEW book, IsProject(book), NEW cuts, \A e \in 1..book.eps : CutSet(cuts[e]),
           NEW raw \in Seq(Cued(book)), NEW answer, answer \in Seq(Range(answer)),
           \A m \in Range(answer) : IsMatch(book, m), Apply(book, cuts, raw, answer).ok
    PROVE  Apply(book, cuts, raw, answer).cues \in Seq(Cued(book))
<1> DEFINE zero == [cues |-> << >>, last |-> <<0, 0>>, taken |-> [e \in 1..book.eps |-> Free]]
           V == Range(answer)
           all == AllAligned(book, cuts, raw, zero, answer).cues
<1>1. Apply(book, cuts, raw, answer).cues = ByPlace(all)
  BY DEF Apply, AllAligned
<1>2. \A m \in V : m.cue \in DOMAIN raw
  BY DEF Apply
<1> HIDE DEF V
<1>3. Answerable(book, cuts, raw, V)
  BY <1>2 DEF Answerable, V
<1>4. zero \in Aligning(book)
  <2>1. << >> \in Seq(Cued(book))
    BY EmptySeq
  <2>2. Free \in Taken
    BY DEF Free, Taken
  <2> QED BY <2>1, <2>2 DEF Aligning
<1> HIDE DEF zero
<1>5. AllAligned(book, cuts, raw, zero, answer) \in Aligning(book)
  <2>1. answer \in Seq(V)
    BY DEF V
  <2> QED BY <1>3, <1>4, <2>1, AllAlignedType
<1>6. all \in Seq(Cued(book))
  BY <1>5 DEF Aligning
<1> HIDE DEF all
<1>7. \A c \in Cued(book) : c.ep \in Int /\ c.at \in Int
  <2>1. book.eps \in Nat
    BY DEF IsProject
  <2> QED BY <2>1 DEF Cued, CueSet
<1>8. ByPlace(all) \in Seq(Cued(book))
  BY <1>6, <1>7, ByPlaceType
<1> QED BY <1>1, <1>8

-----------------------------------------------------------------------------
(* Fingerprints that repeat. *)

(***************************************************************************)
(* The median of numbers is a number (twice it is).                        *)
(***************************************************************************)
LEMMA Median2Type ==
    ASSUME NEW S, IsFiniteSet(S), S # {}, NEW f, DOMAIN f = S, \A x \in S : f[x] \in Int
    PROVE  Median2(f) \in Int
<1> DEFINE n == Cardinality(S)
           Upto2(v) == {x \in S : f[x] <= v}
           T(k) == {v \in Range(f) : Cardinality(Upto2(v)) >= k}
           Kth(k) == Min(T(k))
<1>1. Median2(f) = Kth((n + 1) \div 2) + Kth(n \div 2 + 1)
  BY DEF Median2
<1>2. n \in Nat /\ n # 0
  BY FS_CardinalityType, FS_EmptySet
<1>3. Range(f) = {f[x] : x \in S}
  BY DEF Range
<1>4. IsFiniteSet(Range(f)) /\ Range(f) \subseteq Int
  <2>1. IsFiniteSet({f[x] : x \in S})
    BY FiniteImage
  <2> QED BY <1>3, <2>1
<1>5. ASSUME NEW k \in Int, k <= n PROVE Kth(k) \in Int
  <2> DEFINE g == [x \in S |-> -f[x]]
  <2>1. \A x \in S : g[x] \in Int
    OBVIOUS
  <2>2. PICK t \in S : \A y \in S : g[t] <= g[y]
    <3> HIDE DEF g
    <3> QED BY <2>1, LeastOf
  <2>3. \A y \in S : f[y] <= f[t]
    BY <2>2
  <2>4. Upto2(f[t]) = S
    BY <2>3
  <2>5. f[t] \in T(k)
    <3>1. f[t] \in Range(f)
      BY <1>3
    <3> HIDE DEF Upto2
    <3> QED BY <1>2, <1>5, <2>4, <3>1
  <2>6. T(k) \subseteq Range(f)
    OBVIOUS
  <2> HIDE DEF T
  <2>7. IsFiniteSet(T(k)) /\ T(k) \subseteq Int /\ T(k) # {}
    BY <1>4, <2>5, <2>6, FS_Subset
  <2>8. Min(T(k)) \in T(k)
    BY <2>7, MinOf
  <2> QED BY <2>7, <2>8
<1> HIDE DEF Kth, n
<1>6. (n + 1) \div 2 \in Int /\ (n + 1) \div 2 <= n /\ n \div 2 + 1 \in Int /\ n \div 2 + 1 <= n
  BY <1>2
<1>7. Kth((n + 1) \div 2) \in Int /\ Kth(n \div 2 + 1) \in Int
  BY <1>5, <1>6
<1> QED BY <1>1, <1>7

(***************************************************************************)
(* The longest stretch begins and ends with good frames.                   *)
(***************************************************************************)
LEMMA LongestRunFacts ==
    ASSUME NEW good, IsFiniteSet(good), good \subseteq Int, NEW gap \in Int
    PROVE  LET r == LongestRun(good, gap) IN
           /\ r.from \in Int /\ r.to \in Int /\ r.matched \in Int
           /\ good = {} => r.from = 0 /\ r.to = 0
           /\ good # {} => r.from \in good /\ r.to - 1 \in good
<1> DEFINE Opens(a) == a \in good /\ \A x \in good : x < a => a - x > gap
           Closes(b) == b \in good /\ \A x \in good : x > b => x - b > gap
           Whole(r) == /\ r[1] <= r[2] /\ Opens(r[1]) /\ Closes(r[2])
                       /\ ~ \E c \in good : r[1] <= c /\ c < r[2] /\ Closes(c)
           runs == {r \in good \X good : Whole(r)}
           Best(S) == CHOOSE r \in S : \A o \in S :
                        \/ r[2] - r[1] > o[2] - o[1]
                        \/ r[2] - r[1] = o[2] - o[1] /\ r[1] <= o[1]
           Run(r) == [from |-> r[1], to |-> r[2] + 1,
                      matched |-> Cardinality({x \in good : r[1] <= x /\ x <= r[2]})]
<1>1. LongestRun(good, gap) = IF good = {} THEN [from |-> 0, to |-> 0, matched |-> 0] ELSE Run(Best(runs))
  BY DEF LongestRun
<1>2. CASE good = {}
  BY <1>1, <1>2
<1>3. CASE good # {}
  <2>1. runs # {}
    <3>1. Min(good) \in good /\ \A y \in good : Min(good) <= y
      BY <1>3, MinOf
    <3>2. Max(good) \in good /\ \A y \in good : Max(good) >= y
      BY <1>3, MaxOf
    <3> DEFINE a == Min(good)
               z == Max(good)
               C == {c \in good : Closes(c)}
    <3> HIDE DEF a, z
    <3>3. a \in good /\ z \in good /\ \A y \in good : a <= y /\ y <= z /\ y \in Int
      BY <3>1, <3>2 DEF a, z
    <3>4. Opens(a) /\ Closes(z)
      BY <3>3
    <3>5. IsFiniteSet(C) /\ C \subseteq Int /\ C # {}
      <4>1. C \subseteq good /\ z \in C
        BY <3>3, <3>4
      <4> HIDE DEF C
      <4> QED BY <4>1, FS_Subset
    <3> DEFINE b == Min(C)
    <3>6. b \in C /\ \A y \in C : b <= y
      <4> HIDE DEF C
      <4> QED BY <3>5, MinOf
    <3> HIDE DEF b
    <3>7. b \in good /\ Closes(b) /\ \A c \in good : Closes(c) => b <= c
      BY <3>6
    <3> HIDE DEF Opens, Closes
    <3>8. Whole(<<a, b>>)
      BY <3>3, <3>4, <3>7
    <3> HIDE DEF Whole
    <3>9. <<a, b>> \in runs
      BY <3>3, <3>7, <3>8
    <3> QED BY <3>9
  <2>2. IsFiniteSet(runs) /\ runs \subseteq good \X good
    <3>1. IsFiniteSet(good \X good)
      BY FS_Product
    <3> HIDE DEF Whole
    <3> QED BY <3>1, FS_Subset
  <2> HIDE DEF runs, Run
  <2>3. Best(runs) \in runs
    <3> DEFINE f == [r \in runs |-> r[1] - r[2]]
               g == [r \in runs |-> r[1]]
    <3>1. \A r \in runs : r[1] \in Int /\ r[2] \in Int
      BY <2>2
    <3>2. \A r \in runs : f[r] \in Int /\ g[r] \in Int
      BY <3>1
    <3>3. \A r \in runs : f[r] = r[1] - r[2] /\ g[r] = r[1]
      OBVIOUS
    <3> HIDE DEF f, g
    <3>4. PICK x \in runs : Foremost(x, runs, f, g, g, g)
      BY <2>1, <2>2, <3>2, LexLeast
    <3>5. \A o \in runs : \/ x[2] - x[1] > o[2] - o[1]
                          \/ x[2] - x[1] = o[2] - o[1] /\ x[1] <= o[1]
      BY <3>1, <3>3, <3>4 DEF Foremost
    <3> QED BY <3>5
  <2> HIDE DEF Best
  <2> DEFINE r == Best(runs)
             M == {x \in good : r[1] <= x /\ x <= r[2]}
  <2>4. r[1] \in good /\ r[2] \in good
    BY <2>2, <2>3
  <2>5. Cardinality(M) \in Int
    <3>1. IsFiniteSet(M)
      BY FS_Subset
    <3> HIDE DEF M
    <3>2. Cardinality(M) \in Nat
      BY <3>1, FS_CardinalityType
    <3> QED BY <3>2
  <2> HIDE DEF r
  <2>6. LongestRun(good, gap) = Run(r)
    BY <1>1, <1>3 DEF r
  <2> DEFINE l == LongestRun(good, gap)
  <2>7. l.from = r[1] /\ l.to = r[2] + 1 /\ l.matched = Cardinality(M)
    BY <2>6 DEF Run
  <2> HIDE DEF l, M, Run, runs, Opens, Closes, Whole
  <2>8. r[1] \in Int /\ r[2] \in Int /\ l.to - 1 = r[2]
    <3>1. r[1] \in Int /\ r[2] \in Int
      BY <2>4
    <3>2. l.to = r[2] + 1
      BY <2>7
    <3> QED BY <3>1, <3>2
  <2>9. /\ l.from \in Int /\ l.to \in Int /\ l.matched \in Int
        /\ l.from \in good /\ l.to - 1 \in good
    BY <2>4, <2>5, <2>7, <2>8
  <2> QED BY <1>3, <2>9 DEF l
<1> QED BY <1>2, <1>3

\* A set of numbers computed from a finite set.
LEMMA FiniteNumbers ==
    ASSUME NEW S, IsFiniteSet(S), NEW f, \A x \in S : f[x] \in Int
    PROVE  IsFiniteSet({f[x] : x \in S}) /\ {f[x] : x \in S} \subseteq Int
<1>1. IsFiniteSet({f[x] : x \in S})
  BY FiniteImage
<1> QED BY <1>1

Vote == [offset : Int, seen : Int, hits : Int]

(***************************************************************************)
(* The votes for the shifts of two fingerprints, at most one for a shift.  *)
(***************************************************************************)
LEMMA VotesType ==
    ASSUME NEW V, NEW left \in Seq(V), NEW W, NEW right \in Seq(W),
           \A j \in DOMAIN left, k \in DOMAIN right : SameBands(left[j], right[k]) \in Int
    PROVE  /\ IsFiniteSet(Votes(left, right)) /\ Votes(left, right) \subseteq Vote
           /\ \A x, y \in Votes(left, right) : x.offset = y.offset => x = y
<1> DEFINE Q(p) == SameBands(left[p[1]], right[p[2]]) > 0
           pairs == {p \in (DOMAIN left) \X (DOMAIN right) : Q(p)}
           bands == [p \in pairs |-> SameBands(left[p[1]], right[p[2]])]
           At(o) == {p \in pairs : p[2] - p[1] = o}
           diff == [p \in pairs |-> p[2] - p[1]]
           offsets == {p[2] - p[1] : p \in pairs}
           vote(o) == [offset |-> o, seen |-> Min({p[1] : p \in At(o)}), hits |-> Total(bands, At(o))]
<1>1. Votes(left, right) = {vote(o) : o \in offsets}
  BY DEF Votes
<1>2. DOMAIN left = 1..Len(left) /\ DOMAIN right = 1..Len(right) /\ Len(left) \in Nat /\ Len(right) \in Nat
  BY LenProperties
<1>3. IsFiniteSet(DOMAIN left) /\ IsFiniteSet(DOMAIN right)
  <2>1. IsFiniteSet(1..Len(left)) /\ IsFiniteSet(1..Len(right))
    BY <1>2, FS_Interval
  <2> QED BY <1>2, <2>1
<1>4. IsFiniteSet(pairs) /\ pairs \subseteq (DOMAIN left) \X (DOMAIN right)
  <2>1. IsFiniteSet((DOMAIN left) \X (DOMAIN right))
    BY <1>3, FS_Product
  <2> HIDE DEF Q
  <2>2. pairs \subseteq (DOMAIN left) \X (DOMAIN right)
    OBVIOUS
  <2> HIDE DEF pairs
  <2> QED BY <2>1, <2>2, FS_Subset
<1>5. \A p \in pairs : bands[p] \in Int
  OBVIOUS
<1> HIDE DEF pairs, bands
<1>6. \A p \in pairs : p[1] \in Int /\ p[2] \in Int
  BY <1>2, <1>4
<1>7. IsFiniteSet(offsets) /\ offsets \subseteq Int
  <2>1. \A p \in pairs : diff[p] \in Int
    BY <1>6
  <2>2. offsets = {diff[p] : p \in pairs}
    OBVIOUS
  <2> HIDE DEF diff, offsets
  <2> QED BY <1>4, <2>1, <2>2, FiniteNumbers
<1>8. ASSUME NEW o \in offsets PROVE vote(o) \in Vote
  <2> DEFINE S == At(o)
             f == [p \in S |-> p[1]]
             M == {p[1] : p \in S}
  <2>1. S # {} /\ S \subseteq pairs
    OBVIOUS
  <2> HIDE DEF S
  <2>2. IsFiniteSet(S)
    BY <1>4, <2>1, FS_Subset
  <2>3. \A p \in S : f[p] \in Int
    BY <1>6, <2>1
  <2>4. M = {f[p] : p \in S} /\ M # {}
    BY <2>1
  <2> HIDE DEF M, f
  <2>5. IsFiniteSet(M) /\ M \subseteq Int
    BY <2>2, <2>3, <2>4, FiniteNumbers
  <2>6. Min(M) \in Int
    BY <2>4, <2>5, MinOf
  <2>7. Total(bands, S) \in Int
    BY <1>5, <2>1, <2>2, TotalType
  <2>8. o \in Int
    BY <1>7
  <2>9. vote(o) = [offset |-> o, seen |-> Min(M), hits |-> Total(bands, S)]
    BY DEF M, S
  <2> QED BY <2>6, <2>7, <2>8, <2>9 DEF Vote
<1>9. \A o \in offsets : vote(o).offset = o
  OBVIOUS
<1> HIDE DEF offsets, vote
<1>10. IsFiniteSet({vote(o) : o \in offsets})
  <2> DEFINE f == [o \in offsets |-> vote(o)]
  <2>1. {vote(o) : o \in offsets} = {f[o] : o \in offsets}
    OBVIOUS
  <2> HIDE DEF f
  <2>2. IsFiniteSet({f[o] : o \in offsets})
    BY <1>7, FiniteImage
  <2> QED BY <2>1, <2>2
<1>11. \A x, y \in {vote(o) : o \in offsets} : x.offset = y.offset => x = y
  BY <1>9
<1> QED BY <1>1, <1>8, <1>10, <1>11

LikelierOn(S) == {p \in S \X S : Likelier(p[1], p[2])}

\* The votes are sorted by Likelier.
LEMMA SortedIsLikelier == ASSUME NEW S PROVE Sorted(S, Likelier) = SortedBy(S, LikelierOn(S))
<1> DEFINE a(k) == CHOOSE x \in S : Cardinality({y \in S : Likelier(y, x)}) = k - 1
           b(k) == CHOOSE x \in S : Cardinality(Lower(x, LikelierOn(S), S)) = k - 1
<1>1. \A x \in S : {y \in S : Likelier(y, x)} = Lower(x, LikelierOn(S), S)
  BY DEF Lower, LikelierOn
<1>2. \A k : a(k) = b(k)
  BY <1>1
<1>3. Sorted(S, Likelier) = [k \in 1..Cardinality(S) |-> a(k)]
  BY DEF Sorted
<1>4. SortedBy(S, LikelierOn(S)) = [k \in 1..Cardinality(S) |-> b(k)]
  BY DEF SortedBy
<1> HIDE DEF a, b
<1> QED BY <1>2, <1>3, <1>4

\* The votes, the likeliest shift first.
LEMMA LikelierType ==
    ASSUME NEW S, IsFiniteSet(S), S \subseteq Vote, \A x, y \in S : x.offset = y.offset => x = y
    PROVE  Sorted(S, Likelier) \in Seq(S)
<1>1. \A x \in S : x.offset \in Int /\ x.seen \in Int /\ x.hits \in Int
  BY DEF Vote
<1>2. \A x, y \in S : <<x, y>> \in LikelierOn(S) <=> Likelier(x, y)
  BY DEF LikelierOn
<1>3. ASSUME NEW x \in S PROVE ~Likelier(x, x)
  BY <1>1 DEF Likelier
<1>4. ASSUME NEW x \in S, NEW y \in S, NEW z \in S, Likelier(x, y), Likelier(y, z) PROVE Likelier(x, z)
  BY <1>1, <1>4 DEF Likelier
<1>5. ASSUME NEW x \in S, NEW y \in S, x # y PROVE Likelier(x, y) \/ Likelier(y, x)
  BY <1>1, <1>5 DEF Likelier
<1>6. Orders(LikelierOn(S), S)
  BY <1>2, <1>3, <1>4, <1>5 DEF Orders
<1>7. SortedBy(S, LikelierOn(S)) \in Seq(S)
  BY <1>6, SortedFacts
<1> QED BY <1>7, SortedIsLikelier

Match == [from : Int, to : Int, matched : Int, offset : Int, hits : Int]

\* The stretch around a vote is a match.
LEMMA SpanType ==
    ASSUME NEW V, NEW left \in Seq(V), NEW W, NEW right \in Seq(W), NEW v \in Vote
    PROVE  Span(left, right, v) \in Match
<1> DEFINE start == Max({0, -v.offset})
           l == Len(left) - start
           r == Len(right) - start - v.offset
           overlap == Min({Len(left) - start, Len(right) - start - v.offset})
           good == {f \in 0..(overlap - 1) : Near(left[start + f + 1], right[start + v.offset + f + 1])}
           stretch == LongestRun(good, MatchGap)
<1>1. v.offset \in Int /\ v.hits \in Int /\ Len(left) \in Nat /\ Len(right) \in Nat
  BY LenProperties DEF Vote
<1>2. start \in Int
  <2> DEFINE m == -v.offset
             z == 0
  <2>1. m \in Int /\ z \in Int
    BY <1>1
  <2> HIDE DEF m, z
  <2>2. Max({z, m}) \in Int
    BY <2>1, Two
  <2> QED BY <2>2 DEF m, z
<1> HIDE DEF start
<1>3. overlap \in Int
  <2>1. l \in Int /\ r \in Int
    BY <1>1, <1>2
  <2>2. overlap = Min({l, r})
    OBVIOUS
  <2> HIDE DEF l, r, overlap
  <2> QED BY <2>1, <2>2, Two
<1> HIDE DEF overlap
<1>4. IsFiniteSet(good) /\ good \subseteq Int
  <2>1. IsFiniteSet(0..(overlap - 1)) /\ good \subseteq 0..(overlap - 1)
    BY <1>3, FS_Interval
  <2> HIDE DEF good
  <2>2. IsFiniteSet(good)
    BY <2>1, FS_Subset
  <2>3. 0..(overlap - 1) \subseteq Int
    BY <1>3
  <2> QED BY <2>1, <2>2, <2>3
<1> HIDE DEF good
<1>5. stretch.from \in Int /\ stretch.to \in Int /\ stretch.matched \in Int
  <2>1. MatchGap \in Int
    BY DetectionBounds
  <2> QED BY <1>4, <2>1, LongestRunFacts
<1>6. Span(left, right, v) = [from |-> start + stretch.from, to |-> start + stretch.to, matched |-> stretch.matched,
                              offset |-> v.offset, hits |-> v.hits]
  BY DEF Span, stretch, good, overlap, start
<1> HIDE DEF stretch
<1> QED BY <1>1, <1>2, <1>5, <1>6 DEF Match

\* The better of two matches is one.
LEMMA BetterType ==
    ASSUME NEW V, NEW left \in Seq(V), NEW W, NEW right \in Seq(W), NEW b \in Match, NEW e \in Vote
    PROVE  Better(b, Span(left, right, e)) \in Match
<1>1. Span(left, right, e) \in Match
  BY SpanType
<1> QED BY <1>1 DEF Better

BestOf(left, right, base, s) == FoldLeft(LAMBDA best, v : Better(best, Span(left, right, v)), base, s)

\* The states BestMatch goes through.
LEMMA BetterFold ==
    ASSUME NEW V, NEW left \in Seq(V), NEW W, NEW right \in Seq(W), NEW base \in Match, NEW s \in Seq(Vote)
    PROVE  \E h : /\ Stepping(h, Len(s), Match, base)
                  /\ \A k \in 1..Len(s) : h[k] = Better(h[k - 1], Span(left, right, s[k]))
                  /\ BestOf(left, right, base, s) = h[Len(s)]
<1> DEFINE n == Len(s)
           Op(b, e) == Better(b, Span(left, right, e))
           g == [x \in Match \X (1..n) |-> Op(x[1], s[x[2]])]
           Rec(it) == [T \in SUBSET (DOMAIN s) |->
                         IF T = {} THEN base ELSE Op(it[T \ {Max(T)}], s[Max(T)])]
           it == CHOOSE it : it = Rec(it)
           h == [k \in 0..n |-> it[1..k]]
<1>1. n \in Nat /\ DOMAIN s = 1..n /\ \A k \in 1..n : s[k] \in Vote
  BY LenProperties, ElementOfSeq
<1>2. ASSUME NEW b \in Match, NEW e \in Vote PROVE Op(b, e) \in Match
  BY BetterType
<1>3. BestOf(left, right, base, s) = it[DOMAIN s]
  BY DEF BestOf, FoldLeft, MapThenFoldSet
<1> HIDE DEF Op, n
<1>4. PICK f : Folding(n, Match, base, g, f)
  <2>1. ASSUME NEW b \in Match, NEW k \in 1..n PROVE g[<<b, k>>] \in Match
    BY <1>1, <1>2
  <2> HIDE DEF g
  <2> QED BY <1>1, <2>1, FoldOfSeq
<1>5. f = Rec(f)
  <2>1. ASSUME NEW T \in SUBSET (1..n)
        PROVE  f[T] = IF T = {} THEN base ELSE Op(f[T \ {Max(T)}], s[Max(T)])
    <3>1. f[T] = (IF T = {} THEN base ELSE g[<<f[T \ {Max(T)}], Max(T)>>]) /\ f \in [SUBSET (1..n) -> Match]
      BY <1>4 DEF Folding
    <3>2. CASE T # {}
      <4>1. Max(T) \in T
        <5>1. IsFiniteSet(1..n) /\ 1..n \subseteq Int
          BY <1>1, FS_Interval
        <5>2. IsFiniteSet(T) /\ T \subseteq Int
          BY <5>1, FS_Subset
        <5> QED BY <3>2, <5>2, MaxOf
      <4>2. f[T \ {Max(T)}] \in Match /\ Max(T) \in 1..n
        BY <3>1, <4>1
      <4>3. g[<<f[T \ {Max(T)}], Max(T)>>] = Op(f[T \ {Max(T)}], s[Max(T)])
        BY <4>2
      <4> QED BY <3>1, <3>2, <4>3
    <3> QED BY <3>1, <3>2
  <2>2. f = [T \in SUBSET (1..n) |-> f[T]]
    BY <1>4 DEF Folding
  <2> QED BY <1>1, <2>1, <2>2
<1> HIDE DEF Rec
<1>6. it = Rec(it)
  BY <1>5
<1>7. \A T \in SUBSET (1..n) : it[T] = IF T = {} THEN base ELSE Op(it[T \ {Max(T)}], s[Max(T)])
  <2> DEFINE i == it
  <2>1. i = Rec(i)
    BY <1>6
  <2> HIDE DEF i
  <2>2. \A T \in SUBSET (1..n) : i[T] = IF T = {} THEN base ELSE Op(i[T \ {Max(T)}], s[Max(T)])
    BY <1>1, <2>1 DEF Rec
  <2> QED BY <2>2 DEF i
<1> HIDE DEF it
<1>8. h[0] = base
  <2>1. 1..0 = {} /\ 0 \in 0..n
    BY <1>1
  <2> QED BY <1>7, <2>1
<1>9. ASSUME NEW k \in 1..n PROVE h[k] = Op(h[k - 1], s[k])
  <2>1. 1..k \in SUBSET (1..n) /\ 1..k # {} /\ Max(1..k) = k /\ (1..k) \ {k} = 1..(k - 1)
    BY <1>1, Ranges
  <2>2. it[1..k] = Op(it[1..(k - 1)], s[k])
    BY <1>7, <2>1
  <2>3. k \in 0..n /\ k - 1 \in 0..n
    BY <1>1
  <2> QED BY <2>2, <2>3
<1>10. BestOf(left, right, base, s) = h[n]
  <2>1. n \in 0..n
    BY <1>1
  <2> QED BY <1>1, <1>3, <2>1
<1> HIDE DEF h
<1>11. \A k \in 0..n : h[k] \in Match
  <2> DEFINE G == {k \in 0..n : h[k] \in Match}
  <2>1. 0 \in G
    BY <1>1, <1>8
  <2>2. ASSUME NEW k \in 1..n, k - 1 \in G PROVE k \in G
    <3>1. h[k - 1] \in Match /\ s[k] \in Vote /\ k \in 0..n
      BY <1>1, <2>2
    <3>2. Op(h[k - 1], s[k]) \in Match
      BY <3>1, <1>2
    <3> QED BY <3>1, <3>2, <1>9
  <2> HIDE DEF G
  <2>3. \A k \in 0..n : k \in G
    BY <1>1, <2>1, <2>2, Counting
  <2> QED BY <2>3 DEF G
<1>12. Stepping(h, n, Match, base) /\ \A k \in 1..n : h[k] = Better(h[k - 1], Span(left, right, s[k]))
  BY <1>8, <1>9, <1>11 DEF Stepping, Op
<1> QED BY <1>10, <1>12 DEF n

(***************************************************************************)
(* The stretch two fingerprints share best.                                *)
(***************************************************************************)
LEMMA BestMatchType ==
    ASSUME NEW V, NEW left \in Seq(V), NEW W, NEW right \in Seq(W),
           \A j \in DOMAIN left, k \in DOMAIN right : SameBands(left[j], right[k]) \in Int
    PROVE  BestMatch(left, right) \in Match
<1> DEFINE S == Votes(left, right)
           s == Sorted(S, Likelier)
           n == Min({MaxOffsets, Len(s)})
           first == SubSeq(s, 1, n)
<1>1. IsFiniteSet(S) /\ S \subseteq Vote /\ \A x, y \in S : x.offset = y.offset => x = y
  BY VotesType
<1> HIDE DEF S
<1>2. s \in Seq(S)
  BY <1>1, LikelierType
<1> HIDE DEF s
<1>3. n \in Int /\ n <= Len(s)
  <2>1. MaxOffsets \in Int /\ Len(s) \in Int
    BY <1>2, DetectionBounds, LenProperties
  <2>2. Min({MaxOffsets, Len(s)}) = IF MaxOffsets <= Len(s) THEN MaxOffsets ELSE Len(s)
    BY <2>1, Two
  <2> QED BY <2>1, <2>2
<1> HIDE DEF n
<1>4. first \in Seq(Vote)
  <2>1. s \in Seq(Vote)
    BY <1>1, <1>2
  <2> QED BY <1>3, <2>1, FirstOnes
<1>5. NoMatch \in Match
  BY DEF NoMatch, Match
<1>6. BestMatch(left, right) = BestOf(left, right, NoMatch, first)
  BY DEF BestMatch, BestOf, S, s, n
<1> HIDE DEF first
<1>7. PICK h : /\ Stepping(h, Len(first), Match, NoMatch)
               /\ BestOf(left, right, NoMatch, first) = h[Len(first)]
  <2>1. \E h : /\ Stepping(h, Len(first), Match, NoMatch)
               /\ \A k \in 1..Len(first) : h[k] = Better(h[k - 1], Span(left, right, first[k]))
               /\ BestOf(left, right, NoMatch, first) = h[Len(first)]
    BY <1>4, <1>5, BetterFold
  <2> QED BY <2>1
<1>8. Len(first) \in 0..Len(first)
  BY <1>4, LenProperties
<1> QED BY <1>6, <1>7, <1>8 DEF Stepping

\* What is known of a pair of episodes, seen from one of them.
Common(fps) == [ep : DOMAIN fps, other : DOMAIN fps, from : Int, to : Int, offset : Int, matched : Int]

(***************************************************************************)
(* The matches of all pairs are finitely many.                             *)
(***************************************************************************)
LEMMA MatchesType ==
    ASSUME NEW fps, IsPrints(fps)
    PROVE  /\ IsFiniteSet(Matches(fps)) /\ Matches(fps) \subseteq Common(fps)
           /\ \A x, y \in Matches(fps) : x.ep = y.ep /\ x.other = y.other => x = y
<1> DEFINE Seen(a, b, m) ==
             {[ep |-> a, other |-> b, from |-> m.from, to |-> m.to, offset |-> m.offset, matched |-> m.matched],
              [ep |-> b, other |-> a, from |-> m.from + m.offset, to |-> m.to + m.offset,
               offset |-> -m.offset, matched |-> m.matched]}
           D == DOMAIN fps
           best(p) == BestMatch(fps[p[1]].frames, fps[p[2]].frames)
           pairs == {p \in D \X D : p[1] < p[2]}
           seen(p) == Seen(p[1], p[2], best(p))
           sets == {seen(p) : p \in pairs}
<1>1. Matches(fps) = UNION sets
  BY DEF Matches
<1>2. IsFiniteSet(D) /\ D \subseteq Nat
  BY DEF IsPrints
<1>3. IsFiniteSet(pairs)
  <2>1. IsFiniteSet(D \X D) /\ pairs \subseteq D \X D
    BY <1>2, FS_Product
  <2> HIDE DEF pairs
  <2> QED BY <2>1, FS_Subset
<1>4. ASSUME NEW p \in pairs PROVE best(p) \in Match
  <2> DEFINE l == fps[p[1]].frames
             r == fps[p[2]].frames
             A == Range(fps[p[1]].frames)
             B == Range(fps[p[2]].frames)
  <2>0. p[1] \in D /\ p[2] \in D
    OBVIOUS
  <2> HIDE DEF D
  <2>1. /\ l \in Seq(A) /\ r \in Seq(B)
        /\ \A x \in A, y \in B : SameBands(x, y) \in Nat
    BY <2>0 DEF IsPrints, D
  <2>2. (\A j \in DOMAIN l : l[j] \in A) /\ (\A k \in DOMAIN r : r[k] \in B)
    BY DEF Range
  <2> HIDE DEF l, r, A, B
  <2>3. \A j \in DOMAIN l, k \in DOMAIN r : SameBands(l[j], r[k]) \in Int
    BY <2>1, <2>2
  <2>4. BestMatch(l, r) \in Match
    BY <2>1, <2>3, BestMatchType
  <2> QED BY <2>4 DEF l, r
<1>5. ASSUME NEW p \in pairs PROVE IsFiniteSet(seen(p)) /\ seen(p) \subseteq Common(fps)
  <2> DEFINE m == best(p)
             x == [ep |-> p[1], other |-> p[2], from |-> m.from, to |-> m.to, offset |-> m.offset, matched |-> m.matched]
             y == [ep |-> p[2], other |-> p[1], from |-> m.from + m.offset, to |-> m.to + m.offset,
                   offset |-> -m.offset, matched |-> m.matched]
  <2>1. m \in Match
    BY <1>4
  <2>2. seen(p) = {x, y}
    OBVIOUS
  <2>3. p[1] \in DOMAIN fps /\ p[2] \in DOMAIN fps
    OBVIOUS
  <2> HIDE DEF m
  <2>4. m.from \in Int /\ m.to \in Int /\ m.offset \in Int /\ m.matched \in Int
    BY <2>1 DEF Match
  <2>5. x \in Common(fps) /\ y \in Common(fps)
    <3>1. m.from + m.offset \in Int /\ m.to + m.offset \in Int /\ -m.offset \in Int
      BY <2>4
    <3> QED BY <2>3, <2>4, <3>1 DEF Common
  <2> HIDE DEF x, y, seen
  <2>6. IsFiniteSet({x, y})
    <3>1. IsFiniteSet({x}) /\ IsFiniteSet({y})
      BY FS_Singleton
    <3>2. {x, y} = {x} \cup {y}
      OBVIOUS
    <3>3. IsFiniteSet({x} \cup {y})
      BY <3>1, FS_Union
    <3> QED BY <3>2, <3>3
  <2> QED BY <2>2, <2>5, <2>6
<1> DEFINE left(p) == [ep |-> p[1], other |-> p[2], from |-> best(p).from, to |-> best(p).to,
                       offset |-> best(p).offset, matched |-> best(p).matched]
           right(p) == [ep |-> p[2], other |-> p[1], from |-> best(p).from + best(p).offset,
                        to |-> best(p).to + best(p).offset, offset |-> -best(p).offset,
                        matched |-> best(p).matched]
<1>9. \A x, y \in UNION sets : x.ep = y.ep /\ x.other = y.other => x = y
  <2> SUFFICES ASSUME NEW x \in UNION sets, NEW y \in UNION sets, x.ep = y.ep, x.other = y.other
               PROVE  x = y
    OBVIOUS
  <2>0. PICK p \in pairs, q \in pairs : x \in seen(p) /\ y \in seen(q)
    <3> HIDE DEF seen, pairs
    <3> QED OBVIOUS
  <2>1. seen(p) = {left(p), right(p)} /\ seen(q) = {left(q), right(q)}
    OBVIOUS
  <2>2. /\ p[1] \in Nat /\ p[2] \in Nat /\ p[1] < p[2] /\ p = <<p[1], p[2]>>
        /\ q[1] \in Nat /\ q[2] \in Nat /\ q[1] < q[2] /\ q = <<q[1], q[2]>>
    BY <1>2
  <2>3. /\ left(p).ep = p[1] /\ left(p).other = p[2] /\ right(p).ep = p[2] /\ right(p).other = p[1]
        /\ left(q).ep = q[1] /\ left(q).other = q[2] /\ right(q).ep = q[2] /\ right(q).other = q[1]
    OBVIOUS
  <2> HIDE DEF left, right, seen, pairs
  <2>4. p[1] = q[1] /\ p[2] = q[2]
    BY <2>0, <2>1, <2>2, <2>3
  <2>5. p = q
    BY <2>2, <2>4
  <2>6. (x = left(p) /\ y = left(p)) \/ (x = right(p) /\ y = right(p))
    BY <2>0, <2>1, <2>2, <2>3, <2>5
  <2> QED BY <2>6
<1> HIDE DEF seen, pairs, left, right
<1>6. IsFiniteSet(sets)
  <2> DEFINE f == [p \in pairs |-> seen(p)]
  <2>1. sets = {f[p] : p \in pairs}
    OBVIOUS
  <2> HIDE DEF f, sets
  <2>2. IsFiniteSet({f[p] : p \in pairs})
    BY <1>3, FiniteImage
  <2> QED BY <2>1, <2>2
<1>7. \A T \in sets : IsFiniteSet(T) /\ T \subseteq Common(fps)
  BY <1>5
<1> HIDE DEF sets
<1>8. IsFiniteSet(UNION sets)
  BY <1>6, <1>7, FS_UNION
<1> QED BY <1>1, <1>7, <1>8, <1>9

\* Where a finding lies in an episode, and what one reference episode finds.
Occurrences(E) == [ep : E, from : Int, to : Int]
Candidate(E) == [occ : Seq(Occurrences(E)), weight : Int, pairs : Int]

\* How many episodes agree at a frame is a number.
LEMMA AgreementType ==
    ASSUME NEW fps, NEW offsets, IsFiniteSet(DOMAIN offsets), NEW frame
    PROVE  Agreement(fps, offsets, frame) \in Int
<1> DEFINE inside == {e \in DOMAIN offsets : frame + offsets[e] \in 0..(Len(fps[e].frames) - 1)}
           Value(e) == fps[e].frames[frame + offsets[e] + 1]
           pairs == {p \in inside \X inside : p[1] < p[2]}
           near == {p \in pairs : Near(Value(p[1]), Value(p[2]))}
<1>1. Agreement(fps, offsets, frame) = IF pairs = {} THEN 0 ELSE (60 * Cardinality(near)) \div Cardinality(pairs)
  BY DEF Agreement
<1>2. IsFiniteSet(inside)
  <2>1. inside \subseteq DOMAIN offsets
    OBVIOUS
  <2> HIDE DEF inside
  <2> QED BY <2>1, FS_Subset
<1> HIDE DEF inside
<1>3. IsFiniteSet(pairs)
  <2>1. IsFiniteSet(inside \X inside) /\ pairs \subseteq inside \X inside
    BY <1>2, FS_Product
  <2> HIDE DEF pairs
  <2> QED BY <2>1, FS_Subset
<1> HIDE DEF pairs
<1>4. IsFiniteSet(near)
  <2>1. near \subseteq pairs
    OBVIOUS
  <2> HIDE DEF near
  <2> QED BY <1>3, <2>1, FS_Subset
<1> HIDE DEF near
<1>5. Cardinality(near) \in Nat /\ Cardinality(pairs) \in Nat /\ (Cardinality(pairs) = 0 <=> pairs = {})
  BY <1>3, <1>4, FS_CardinalityType, FS_EmptySet
<1> QED BY <1>1, <1>5

\* Triples are compared entry by entry.
LEMMA LargestAbove ==
    ASSUME NEW a \in Int, NEW b \in Int, NEW c \in Int, NEW x \in Int, NEW y \in Int, NEW z \in Int
    PROVE  /\ a > x => Above(<<a, b, c>>, <<x, y, z>>)
           /\ a = x /\ b > y => Above(<<a, b, c>>, <<x, y, z>>)
           /\ a = x /\ b = y /\ c > z => Above(<<a, b, c>>, <<x, y, z>>)
<1> DEFINE u == <<a, b, c>>
           v == <<x, y, z>>
<1>1. u[1] = a /\ u[2] = b /\ u[3] = c /\ v[1] = x /\ v[2] = y /\ v[3] = z
  OBVIOUS
<1> HIDE DEF u, v
<1>2. ASSUME NEW i \in 1..3, u[i] > v[i], \A j \in 1..(i - 1) : u[j] = v[j] PROVE Above(u, v)
  BY <1>2 DEF Above
<1>3. a > x => Above(u, v)
  BY <1>1, <1>2
<1>4. a = x /\ b > y => Above(u, v)
  <2>1. \A j \in 1..(2 - 1) : j = 1
    OBVIOUS
  <2> QED BY <1>1, <1>2, <2>1
<1>5. a = x /\ b = y /\ c > z => Above(u, v)
  <2>1. \A j \in 1..(3 - 1) : j = 1 \/ j = 2
    OBVIOUS
  <2> QED BY <1>1, <1>2, <2>1
<1> QED BY <1>3, <1>4, <1>5 DEF u, v

(***************************************************************************)
(* What the matches of a reference episode agree on.                       *)
(***************************************************************************)
LEMMA StretchType ==
    ASSUME NEW fps, IsPrints(fps), NEW S, S \subseteq DOMAIN fps, NEW offsets \in [S -> Int],
           NEW start \in Int, NEW end \in Int, NEW min \in Nat \ {0}
    PROVE  Stretch(fps, offsets, start, end, min) \in Candidate(DOMAIN fps)
<1> DEFINE Occurrence(e, from, to) ==
             [ep |-> e, from |-> from, to |-> Max({from, Min({Len(fps[e].frames), to + offsets[e]})})]
           At(e, from, to) == Occurrence(e, Clamp(from + offsets[e], 0, Len(fps[e].frames)), to)
           agree == [f \in start..(end - 1) |-> Agreement(fps, offsets, f)]
           steady == Steady(agree, start, end)
           good == {f - start : f \in steady}
           stretch == LongestRun(good, SpanGap)
           from == start + stretch.from
           to == start + stretch.to
           eps == Sorted(DOMAIN offsets, <)
           occ == [k \in DOMAIN eps |-> At(eps[k], from, to)]
<1>1. Stretch(fps, offsets, start, end, min)
        = IF to - from < min THEN Nothing
          ELSE [occ |-> occ, weight |-> Total(agree, from..(to - 1)), pairs |-> Len(eps) - 1]
  BY DEF Stretch
<1>2. IsFiniteSet(S) /\ S \subseteq Nat /\ S \subseteq Int /\ DOMAIN offsets = S
  <2>1. IsFiniteSet(DOMAIN fps) /\ DOMAIN fps \subseteq Nat
    BY DEF IsPrints
  <2> QED BY <2>1, FS_Subset
<1>3. \A f \in start..(end - 1) : agree[f] \in Int
  BY <1>2, AgreementType
<1>4. steady \subseteq start..(end - 1)
  BY DEF Steady
<1> HIDE DEF agree
<1>5. IsFiniteSet(good) /\ good \subseteq Int /\ \A g \in good : start + g \in start..(end - 1)
  <2>1. IsFiniteSet(start..(end - 1))
    BY FS_Interval
  <2> HIDE DEF steady
  <2>2. IsFiniteSet(steady)
    BY <1>4, <2>1, FS_Subset
  <2> DEFINE h == [f \in steady |-> f - start]
  <2>3. \A f \in steady : h[f] \in Int /\ start + h[f] = f
    BY <1>4
  <2>4. good = {h[f] : f \in steady}
    OBVIOUS
  <2> HIDE DEF h
  <2>5. IsFiniteSet({h[f] : f \in steady}) /\ {h[f] : f \in steady} \subseteq Int
    BY <2>2, <2>3, FiniteNumbers
  <2>6. \A f \in steady : start + h[f] \in start..(end - 1)
    BY <1>4, <2>3
  <2> HIDE DEF good
  <2> QED BY <2>4, <2>5, <2>6
<1> HIDE DEF good, steady
<1>6. /\ stretch.from \in Int /\ stretch.to \in Int
      /\ good = {} => stretch.from = 0 /\ stretch.to = 0
      /\ good # {} => stretch.from \in good /\ stretch.to - 1 \in good
  <2>1. SpanGap \in Int
    BY DetectionBounds
  <2> QED BY <1>5, <2>1, LongestRunFacts
<1> HIDE DEF stretch
<1>7. from \in Int /\ to \in Int
  BY <1>6
<1>8. CASE to - from < min
  <2>1. << >> \in Seq(Occurrences(DOMAIN fps))
    BY EmptySeq
  <2> HIDE DEF from, to, occ, eps
  <2> QED BY <1>1, <1>8, <2>1 DEF Nothing, Candidate
<1>9. CASE ~(to - from < min)
  <2>1. good # {}
    BY <1>6, <1>9
  <2>2. from \in start..(end - 1) /\ to - 1 \in start..(end - 1)
    <3>1. start + stretch.from \in start..(end - 1) /\ start + (stretch.to - 1) \in start..(end - 1)
      BY <1>5, <1>6, <2>1
    <3> QED BY <3>1, <1>6
  <2> HIDE DEF from, to
  <2>3. Total(agree, from..(to - 1)) \in Int
    <3> DEFINE I == from..(to - 1)
    <3>1. IsFiniteSet(I)
      BY <1>7, FS_Interval
    <3>2. \A f \in I : agree[f] \in Int
      BY <1>3, <1>7, <2>2
    <3> HIDE DEF I
    <3>3. Total(agree, I) \in Int
      BY <3>1, <3>2, TotalType
    <3> QED BY <3>3 DEF I
  <2>4. eps \in Seq(S)
    <3>1. Lists(Sorted(S, <), S)
      BY <1>2, Listing
    <3> QED BY <1>2, <3>1 DEF Lists
  <2> HIDE DEF eps
  <2>5. Len(eps) \in Nat /\ DOMAIN eps = 1..Len(eps) /\ \A k \in 1..Len(eps) : eps[k] \in S
    BY <2>4, LenProperties, ElementOfSeq
  <2>6. ASSUME NEW e \in S PROVE At(e, from, to) \in Occurrences(DOMAIN fps)
    <3> DEFINE l == Len(fps[e].frames)
               z == 0
               a == from + offsets[e]
               b == to + offsets[e]
               c == Clamp(a, z, l)
               m == Min({l, b})
    <3>1. l \in Int
      <4>1. fps[e].frames \in Seq(Range(fps[e].frames))
        BY DEF IsPrints
      <4>2. l \in Nat
        BY <4>1, LenProperties
      <4> QED BY <4>2
    <3>2. a \in Int /\ b \in Int /\ z \in Int
      BY <1>7
    <3>3. At(e, from, to) = [ep |-> e, from |-> c, to |-> Max({c, m})]
      OBVIOUS
    <3> HIDE DEF l, a, b, z, At
    <3>4. c \in Int /\ m \in Int
      BY <3>1, <3>2, Clamped, Two
    <3> HIDE DEF c, m
    <3>5. Max({c, m}) \in Int
      BY <3>4, Two
    <3> QED BY <1>2, <3>3, <3>4, <3>5 DEF Occurrences
  <2> HIDE DEF At
  <2>7. occ \in Seq(Occurrences(DOMAIN fps))
    <3>1. \A k \in 1..Len(eps) : At(eps[k], from, to) \in Occurrences(DOMAIN fps)
      BY <2>5, <2>6
    <3> QED BY <2>5, <3>1, IsASeq
  <2> HIDE DEF occ
  <2> QED BY <1>1, <1>9, <2>3, <2>5, <2>7 DEF Candidate
<1> HIDE DEF from, to
<1> QED BY <1>8, <1>9

\* Twice the median, halved.
LEMMA MedianType ==
    ASSUME NEW S, IsFiniteSet(S), S # {}, NEW f, DOMAIN f = S, \A x \in S : f[x] \in Int
    PROVE  HalfEven(Median2(f)) \in Int
<1> DEFINE m == Median2(f)
<1>1. m \in Int
  BY Median2Type
<1> HIDE DEF m
<1>2. RoundDiv(m, 2) \in Int
  BY <1>1, RoundDivType
<1> QED BY <1>2 DEF HalfEven, m

\* What one reference episode finds.
LEMMA ConsensusType ==
    ASSUME NEW fps, IsPrints(fps), NEW matches, IsFiniteSet(matches), matches \subseteq Common(fps),
           NEW ref \in DOMAIN fps, NEW min \in Nat \ {0}
    PROVE  Consensus(fps, matches, ref, min) \in Candidate(DOMAIN fps)
<1> DEFINE own == {m \in matches : m.ep = ref /\ m.to - m.from >= min /\ Good82(m)}
           others == {m.other : m \in own}
           offsets == [e \in others \cup {ref} |->
                         IF e = ref THEN 0 ELSE (CHOOSE m \in own : m.other = e).offset]
           from == [m \in own |-> m.from]
           to == [m \in own |-> m.to]
           start == Max({0, HalfEven(Median2(from)) - Pad})
           end == Min({Len(fps[ref].frames), HalfEven(Median2(to)) + Pad})
           n == Cardinality(DOMAIN fps)
<1>1. Consensus(fps, matches, ref, min)
        = IF Cardinality(others) + 1 < Required(n) THEN Nothing ELSE Stretch(fps, offsets, start, end, min)
  BY DEF Consensus
<1>2. CASE Cardinality(others) + 1 < Required(n)
  <2>1. << >> \in Seq(Occurrences(DOMAIN fps))
    BY EmptySeq
  <2> HIDE DEF others, offsets, start, end, n
  <2> QED BY <1>1, <1>2, <2>1 DEF Nothing, Candidate
<1>3. CASE ~(Cardinality(others) + 1 < Required(n))
  <2>1. Required(n) \in Int /\ Required(n) >= 3
    <3>1. n \in Nat
      BY FS_CardinalityType DEF IsPrints
    <3> HIDE DEF n
    <3> DEFINE z == 3
               d == (n * 6 + 9) \div 10
    <3>2. z \in Int /\ d \in Int
      BY <3>1
    <3>3. Required(n) = Max({z, d})
      BY DEF Required
    <3> HIDE DEF d
    <3>4. z = 3
      OBVIOUS
    <3> HIDE DEF z
    <3>5. Max({z, d}) \in Int /\ Max({z, d}) = IF z >= d THEN z ELSE d
      BY <3>2, Two
    <3> QED BY <3>2, <3>3, <3>4, <3>5
  <2>2. own # {}
    <3>1. CASE own = {}
      <4>1. others = {}
        BY <3>1
      <4>2. Cardinality(others) = 0
        BY <4>1, FS_EmptySet
      <4> HIDE DEF others, n
      <4> QED BY <1>3, <2>1, <4>2
    <3> QED BY <3>1
  <2>3. IsFiniteSet(own) /\ own \subseteq Common(fps)
    <3>1. own \subseteq matches
      OBVIOUS
    <3> HIDE DEF own
    <3> QED BY <3>1, FS_Subset
  <2> HIDE DEF own
  <2>4. \A m \in own : m.from \in Int /\ m.to \in Int /\ m.offset \in Int /\ m.other \in DOMAIN fps
    BY <2>3 DEF Common
  <2>5. others \cup {ref} \subseteq DOMAIN fps
    BY <2>4
  <2>6. offsets \in [others \cup {ref} -> Int]
    <3>1. ASSUME NEW e \in others PROVE (CHOOSE m \in own : m.other = e).offset \in Int
      <4>1. (CHOOSE m \in own : m.other = e) \in own
        OBVIOUS
      <4> QED BY <2>4, <4>1
    <3> HIDE DEF others
    <3> QED BY <3>1
  <2>7. start \in Int /\ end \in Int
    <3> DEFINE a == HalfEven(Median2(from))
               b == HalfEven(Median2(to))
               c == a - Pad
               d == b + Pad
               l == Len(fps[ref].frames)
               z == 0
    <3>1. DOMAIN from = own /\ DOMAIN to = own /\ \A m \in own : from[m] \in Int /\ to[m] \in Int
      BY <2>4
    <3> HIDE DEF from, to
    <3>2. a \in Int /\ b \in Int
      BY <2>2, <2>3, <3>1, MedianType
    <3> HIDE DEF a, b
    <3>3. Pad \in Int
      BY DetectionBounds
    <3>4. c \in Int /\ d \in Int /\ z \in Int
      BY <3>2, <3>3
    <3>5. l \in Int
      <4>1. fps[ref].frames \in Seq(Range(fps[ref].frames))
        BY DEF IsPrints
      <4>2. l \in Nat
        BY <4>1, LenProperties
      <4> QED BY <4>2
    <3>6. start = Max({z, c}) /\ end = Min({l, d})
      BY DEF a, b
    <3> HIDE DEF c, d, l, z, start, end
    <3> QED BY <3>4, <3>5, <3>6, Two
  <2> HIDE DEF offsets, start, end, others, n
  <2>8. Stretch(fps, offsets, start, end, min) \in Candidate(DOMAIN fps)
    BY <2>5, <2>6, <2>7, StretchType
  <2> QED BY <1>1, <1>3, <2>8
<1> HIDE DEF others, n
<1> QED BY <1>2, <1>3

(***************************************************************************)
(* Whatever is detected lies at numbered places of the episodes.           *)
(***************************************************************************)
LEMMA DetectRepeatedType ==
    ASSUME NEW fps, IsPrints(fps), NEW min \in Nat \ {0}
    PROVE  DetectRepeated(fps, min).occ \in Seq(Occurrences(DOMAIN fps))
<1> DEFINE eps == DOMAIN fps
           O == Occurrences(DOMAIN fps)
           Key(c) == <<Len(c.occ), c.weight, c.pairs>>
           found_(e) == Consensus(fps, Matches(fps), e, min)
           hit == [e \in eps |-> found_(e)]
           candidates == {e \in eps : hit[e].occ # << >>}
           best == CHOOSE e \in candidates : \A o \in candidates :
                     Above(Key(hit[e]), Key(hit[o])) \/ (Key(hit[e]) = Key(hit[o]) /\ e <= o)
<1>1. DetectRepeated(fps, min)
        = IF Cardinality(eps) < 3 THEN Undetected("not_applicable")
          ELSE IF candidates = {} THEN Undetected("not_detected")
          ELSE [status |-> "detected", occ |-> hit[best].occ]
  BY DEF DetectRepeated
<1>2. << >> \in Seq(O)
  BY EmptySeq
<1>3. \A e \in eps : hit[e] \in Candidate(DOMAIN fps)
  <2>1. IsFiniteSet(Matches(fps)) /\ Matches(fps) \subseteq Common(fps)
    BY MatchesType
  <2> QED BY <2>1, ConsensusType
<1> HIDE DEF hit, found_
<1>4. \A e \in eps : hit[e].occ \in Seq(O) /\ hit[e].weight \in Int /\ hit[e].pairs \in Int
  BY <1>3 DEF Candidate
<1> SUFFICES DetectRepeated(fps, min).occ \in Seq(O)
  OBVIOUS
<1> HIDE DEF O
<1>5. CASE candidates # {}
  <2>1. IsFiniteSet(candidates) /\ candidates \subseteq eps /\ eps \subseteq Nat
    <3>1. IsFiniteSet(eps) /\ eps \subseteq Nat
      BY DEF IsPrints
    <3>2. candidates \subseteq eps
      OBVIOUS
    <3> HIDE DEF eps, candidates
    <3> QED BY <3>1, <3>2, FS_Subset
  <2> HIDE DEF candidates
  <2> DEFINE f == [e \in candidates |-> -Len(hit[e].occ)]
             g == [e \in candidates |-> -hit[e].weight]
             h == [e \in candidates |-> -hit[e].pairs]
             i == [e \in candidates |-> e]
  <2>2. \A e \in candidates : Len(hit[e].occ) \in Int /\ hit[e].weight \in Int /\ hit[e].pairs \in Int /\ e \in Int
    <3>1. \A e \in candidates : Len(hit[e].occ) \in Nat
      BY <1>4, <2>1, LenProperties
    <3>2. \A e \in candidates : Len(hit[e].occ) \in Int
      BY <3>1
    <3>3. \A e \in candidates : hit[e].weight \in Int /\ hit[e].pairs \in Int
      BY <1>4, <2>1
    <3>4. \A e \in candidates : e \in Int
      BY <2>1
    <3> QED BY <3>2, <3>3, <3>4
  <2>3. \A e \in candidates : f[e] = -Len(hit[e].occ) /\ g[e] = -hit[e].weight /\ h[e] = -hit[e].pairs /\ i[e] = e
    OBVIOUS
  <2>4. \A e \in candidates : f[e] \in Int /\ g[e] \in Int /\ h[e] \in Int /\ i[e] \in Int
    BY <2>2
  <2> HIDE DEF f, g, h, i
  <2>5. PICK x \in candidates : Foremost(x, candidates, f, g, h, i)
    BY <1>5, <2>1, <2>4, LexLeast
  <2>6. ASSUME NEW o \in candidates
        PROVE  Above(Key(hit[x]), Key(hit[o])) \/ (Key(hit[x]) = Key(hit[o]) /\ x <= o)
    <3> DEFINE a == Len(hit[x].occ)
               b == hit[x].weight
               c == hit[x].pairs
               u == Len(hit[o].occ)
               v == hit[o].weight
               w == hit[o].pairs
    <3>1. a \in Int /\ b \in Int /\ c \in Int /\ u \in Int /\ v \in Int /\ w \in Int /\ x \in Int /\ o \in Int
      BY <2>2
    <3>2. \/ -a < -u
          \/ -a = -u /\ -b < -v
          \/ -a = -u /\ -b = -v /\ -c < -w
          \/ -a = -u /\ -b = -v /\ -c = -w /\ x <= o
      BY <2>3, <2>5 DEF Foremost
    <3>3. Key(hit[x]) = <<a, b, c>> /\ Key(hit[o]) = <<u, v, w>>
      OBVIOUS
    <3> HIDE DEF a, b, c, u, v, w, Key
    <3>4. \/ a > u
          \/ a = u /\ b > v
          \/ a = u /\ b = v /\ c > w
          \/ a = u /\ b = v /\ c = w /\ x <= o
      BY <3>1, <3>2
    <3>5. /\ a > u => Above(<<a, b, c>>, <<u, v, w>>)
          /\ a = u /\ b > v => Above(<<a, b, c>>, <<u, v, w>>)
          /\ a = u /\ b = v /\ c > w => Above(<<a, b, c>>, <<u, v, w>>)
      BY <3>1, LargestAbove
    <3> QED BY <3>3, <3>4, <3>5
  <2> HIDE DEF Key
  <2>7. best \in candidates
    BY <2>6
  <2> HIDE DEF best
  <2>8. hit[best].occ \in Seq(O)
    BY <1>4, <2>1, <2>7
  <2> QED BY <1>1, <1>2, <1>5, <2>8 DEF Undetected
<1>6. CASE candidates = {}
  <2> HIDE DEF candidates, best
  <2> QED BY <1>1, <1>2, <1>6 DEF Undetected
<1> QED BY <1>5, <1>6

\* A detection has a status and its findings.
LEMMA DetectedFields ==
    ASSUME NEW fps, NEW min
    PROVE  DetectRepeated(fps, min) = [status |-> DetectRepeated(fps, min).status,
                                       occ |-> DetectRepeated(fps, min).occ]
<1> DEFINE eps == DOMAIN fps
           Key(c) == <<Len(c.occ), c.weight, c.pairs>>
           found_(e) == Consensus(fps, Matches(fps), e, min)
           hit == [e \in eps |-> found_(e)]
           candidates == {e \in eps : hit[e].occ # << >>}
           best == CHOOSE e \in candidates : \A o \in candidates :
                     Above(Key(hit[e]), Key(hit[o])) \/ (Key(hit[e]) = Key(hit[o]) /\ e <= o)
<1>1. DetectRepeated(fps, min)
        = IF Cardinality(eps) < 3 THEN Undetected("not_applicable")
          ELSE IF candidates = {} THEN Undetected("not_detected")
          ELSE [status |-> "detected", occ |-> hit[best].occ]
  BY DEF DetectRepeated
<1> HIDE DEF eps, candidates, hit, best
<1> QED BY <1>1 DEF Undetected

-----------------------------------------------------------------------------
(* The ending, the bumper, and the book's edges. *)

\* A finding taken up to the end of its episode.
Closing(o, from, to) == [o EXCEPT !.from = from, !.to = to]

\* The ending is found in episodes of the drama.
LEMMA DetectEndingType ==
    ASSUME NEW fps, IsPrints(fps)
    PROVE  DetectEnding(fps).occ \in Seq(Occurrences(DOMAIN fps))
<1> DEFINE O == Occurrences(DOMAIN fps)
           Block(o) == LET f == fps[o.ep] IN
                       [o EXCEPT !.from = Min({f.length, f.at + o.from}), !.to = f.length]
           d == DetectRepeated(fps, MinEnding)
           occ == d.occ
           blocks == [k \in DOMAIN occ |-> Block(occ[k])]
<1>1. DetectEnding(fps) = [d EXCEPT !.occ = blocks]
  BY DEF DetectEnding
<1>2. MinEnding \in Nat \ {0}
  BY DetectionBounds
<1>3. occ \in Seq(O)
  BY <1>2, DetectRepeatedType
<1>4. ASSUME NEW o \in O PROVE Block(o) \in O
  <2> DEFINE l == fps[o.ep].length
             a == fps[o.ep].at + o.from
  <2>1. l \in Int /\ a \in Int
    <3>1. o.ep \in DOMAIN fps /\ o.from \in Int
      BY DEF Occurrences
    <3>2. fps[o.ep].length \in Int /\ fps[o.ep].at \in Int
      BY <3>1 DEF IsPrints
    <3> QED BY <3>1, <3>2
  <2>2. Block(o) = Closing(o, Min({l, a}), l)
    BY DEF Closing
  <2> HIDE DEF l, a, Block
  <2>3. Min({l, a}) \in Int
    BY <2>1, Two
  <2>4. Closing(o, Min({l, a}), l) \in O
    BY <2>1, <2>3 DEF Closing, Occurrences
  <2> QED BY <2>2, <2>4
<1> HIDE DEF O, Block
<1>5. blocks \in Seq(O)
  <2> HIDE DEF occ
  <2>1. Len(occ) \in Nat /\ DOMAIN occ = 1..Len(occ) /\ \A k \in 1..Len(occ) : occ[k] \in O
    BY <1>3, LenProperties, ElementOfSeq
  <2>2. \A k \in 1..Len(occ) : Block(occ[k]) \in O
    BY <1>4, <2>1
  <2> QED BY <2>1, <2>2, IsASeq
<1>6. "occ" \in DOMAIN d
  <2>1. DetectRepeated(fps, MinEnding) = [status |-> DetectRepeated(fps, MinEnding).status,
                                         occ |-> DetectRepeated(fps, MinEnding).occ]
    BY DetectedFields
  <2> QED BY <2>1
<1> HIDE DEF blocks, d
<1>7. [d EXCEPT !.occ = blocks].occ = blocks
  BY <1>6
<1> QED BY <1>1, <1>5, <1>7 DEF O

\* The places of matches: of different partners, so one of two is to the left.
Spread(S, fps) == /\ IsFiniteSet(S) /\ S \subseteq Common(fps)
                  /\ IsFiniteSet(DOMAIN fps) /\ DOMAIN fps \subseteq Nat
                  /\ \A x, y \in S : x.other = y.other => x = y
                  /\ \A x \in S : x.to - x.from > 0

LeftmostOn(S) == {p \in S \X S : Leftmost(p[1], p[2])}

\* The findings are sorted by Leftmost ...
LEMMA SortedIsLeftmost == ASSUME NEW S PROVE Sorted(S, Leftmost) = SortedBy(S, LeftmostOn(S))
<1> DEFINE a(k) == CHOOSE x \in S : Cardinality({y \in S : Leftmost(y, x)}) = k - 1
           b(k) == CHOOSE x \in S : Cardinality(Lower(x, LeftmostOn(S), S)) = k - 1
<1>1. \A x \in S : {y \in S : Leftmost(y, x)} = Lower(x, LeftmostOn(S), S)
  BY DEF Lower, LeftmostOn
<1>2. \A k : a(k) = b(k)
  BY <1>1
<1>3. Sorted(S, Leftmost) = [k \in 1..Cardinality(S) |-> a(k)]
  BY DEF Sorted
<1>4. SortedBy(S, LeftmostOn(S)) = [k \in 1..Cardinality(S) |-> b(k)]
  BY DEF SortedBy
<1> HIDE DEF a, b
<1> QED BY <1>2, <1>3, <1>4

\* ... in a sequence of all of them.
LEMMA LeftmostType ==
    ASSUME NEW fps, NEW S, Spread(S, fps)
    PROVE  /\ Sorted(S, Leftmost) \in Seq(S) /\ Len(Sorted(S, Leftmost)) = Cardinality(S)
           /\ Cardinality(S) \in Nat
<1>1. \A x \in S : x.from + x.to \in Int /\ x.other \in Int
  <2>1. \A x \in S : x.from \in Int /\ x.to \in Int /\ x.other \in DOMAIN fps
    BY DEF Spread, Common
  <2> QED BY <2>1 DEF Spread
<1>2. \A x, y \in S : <<x, y>> \in LeftmostOn(S) <=> Leftmost(x, y)
  BY DEF LeftmostOn
<1>3. ASSUME NEW x \in S PROVE ~Leftmost(x, x)
  BY <1>1 DEF Leftmost, Centre
<1>4. ASSUME NEW x \in S, NEW y \in S, NEW z \in S, Leftmost(x, y), Leftmost(y, z) PROVE Leftmost(x, z)
  BY <1>1, <1>4 DEF Leftmost, Centre
<1>5. ASSUME NEW x \in S, NEW y \in S, x # y PROVE Leftmost(x, y) \/ Leftmost(y, x)
  <2>1. x.other # y.other
    BY <1>5 DEF Spread
  <2> QED BY <1>1, <2>1 DEF Leftmost, Centre
<1>6. Orders(LeftmostOn(S), S)
  BY <1>2, <1>3, <1>4, <1>5 DEF Orders
<1>7. IsFiniteSet(S)
  BY DEF Spread
<1>8. SortedBy(S, LeftmostOn(S)) \in Seq(S) /\ Len(SortedBy(S, LeftmostOn(S))) = Cardinality(S) /\ Cardinality(S) \in Nat
  BY <1>6, <1>7, SortedFacts
<1> QED BY <1>8, SortedIsLeftmost

Clusters(S) == {c \in SUBSET S : c # {}}

\* One more match of a cluster.
Joining(cs, k, i) == [cs EXCEPT ![k] = @ \cup {i}]

\* A finding joins the cluster before it or begins one.
LEMMA GatherType ==
    ASSUME NEW S, NEW b \in Seq(Clusters(S)), NEW e \in S
    PROVE  Gather(b, e) \in Seq(Clusters(S)) /\ Gather(b, e) # << >>
<1> DEFINE B == Clusters(S)
           Near2(c) == LET d == 2 * Centre(e) - Median2([j \in c |-> Centre(j)])
                       IN d <= 4 * ClusterRadius /\ -d <= 4 * ClusterRadius
           near == {k \in DOMAIN b : Near2(b[k])}
<1>1. Gather(b, e) = IF near = {} THEN Append(b, {e}) ELSE Joining(b, Min(near), e)
  BY DEF Gather, Joining
<1>2. near \subseteq DOMAIN b
  OBVIOUS
<1> HIDE DEF near
<1>3. {e} \in B /\ \A c \in B : c \cup {e} \in B
  BY DEF Clusters
<1> HIDE DEF B
<1>4. Len(b) \in Nat /\ DOMAIN b = 1..Len(b) /\ b \in Seq(B) /\ \A k \in 1..Len(b) : b[k] \in B
  <2>1. b \in Seq(B)
    BY DEF B
  <2> QED BY <2>1, LenProperties, ElementOfSeq
<1>5. CASE near = {}
  <2>1. Append(b, {e}) \in Seq(B) /\ Len(Append(b, {e})) = Len(b) + 1
    BY <1>3, <1>4, AppendProperties
  <2>2. Append(b, {e}) # << >>
    <3> DEFINE a == Append(b, {e})
    <3>1. a \in Seq(B) /\ Len(a) # 0
      BY <1>4, <2>1
    <3> HIDE DEF a
    <3>2. a # << >>
      BY <3>1, EmptySeq
    <3> QED BY <3>2 DEF a
  <2> QED BY <1>1, <1>5, <2>1, <2>2 DEF B
<1>6. CASE near # {}
  <2> DEFINE m == Min(near)
             r == Joining(b, m, e)
  <2>1. m \in 1..Len(b)
    <3>1. IsFiniteSet(1..Len(b)) /\ 1..Len(b) \subseteq Int
      BY <1>4, FS_Interval
    <3>2. IsFiniteSet(near) /\ near \subseteq Int
      BY <1>2, <1>4, <3>1, FS_Subset
    <3>3. Min(near) \in near
      BY <1>6, <3>2, MinOf
    <3> QED BY <1>2, <1>4, <3>3
  <2> HIDE DEF m
  <2>2. r = [k \in 1..Len(b) |-> IF k = m THEN b[k] \cup {e} ELSE b[k]]
    BY <1>4, <2>1 DEF Joining
  <2>3. \A k \in 1..Len(b) : (IF k = m THEN b[k] \cup {e} ELSE b[k]) \in B
    BY <1>3, <1>4
  <2>4. r \in Seq(B)
    <3>1. [k \in 1..Len(b) |-> IF k = m THEN b[k] \cup {e} ELSE b[k]] \in Seq(B)
      BY <1>4, <2>3, IsASeq
    <3> QED BY <2>2, <3>1
  <2>5. r # << >>
    <3>1. DOMAIN r = 1..Len(b)
      BY <2>2
    <3> HIDE DEF r
    <3>2. 1..Len(b) # {}
      BY <2>1
    <3> QED BY <3>1, <3>2
  <2> QED BY <1>1, <1>6, <2>4, <2>5 DEF B, m
<1> QED BY <1>5, <1>6

\* So the clusters stay clusters ...
LEMMA GatherIn ==
    ASSUME NEW S, NEW b \in Seq(Clusters(S)), NEW e \in S
    PROVE  Gather(b, e) \in Seq(Clusters(S))
BY GatherType

\* ... in all the states Cluster goes through.
LEMMA GatherFold ==
    ASSUME NEW S, NEW base \in Seq(Clusters(S)), NEW s \in Seq(S)
    PROVE  \E h : /\ Stepping(h, Len(s), Seq(Clusters(S)), base)
                  /\ \A k \in 1..Len(s) : h[k] = Gather(h[k - 1], s[k])
                  /\ FoldLeft(Gather, base, s) = h[Len(s)]
<1> DEFINE n == Len(s)
           Op(b, e) == Gather(b, e)
           g == [x \in Seq(Clusters(S)) \X (1..n) |-> Op(x[1], s[x[2]])]
           Rec(it) == [T \in SUBSET (DOMAIN s) |->
                         IF T = {} THEN base ELSE Op(it[T \ {Max(T)}], s[Max(T)])]
           it == CHOOSE it : it = Rec(it)
           h == [k \in 0..n |-> it[1..k]]
<1>1. n \in Nat /\ DOMAIN s = 1..n /\ \A k \in 1..n : s[k] \in S
  BY LenProperties, ElementOfSeq
<1>2. ASSUME NEW b \in Seq(Clusters(S)), NEW e \in S PROVE Op(b, e) \in Seq(Clusters(S))
  BY GatherIn
<1>3. FoldLeft(Gather, base, s) = it[DOMAIN s]
  BY DEF FoldLeft, MapThenFoldSet
<1> HIDE DEF Op, n
<1>4. PICK f : Folding(n, Seq(Clusters(S)), base, g, f)
  <2>1. ASSUME NEW b \in Seq(Clusters(S)), NEW k \in 1..n PROVE g[<<b, k>>] \in Seq(Clusters(S))
    BY <1>1, <1>2
  <2> HIDE DEF g
  <2> QED BY <1>1, <2>1, FoldOfSeq
<1>5. f = Rec(f)
  <2>1. ASSUME NEW T \in SUBSET (1..n)
        PROVE  f[T] = IF T = {} THEN base ELSE Op(f[T \ {Max(T)}], s[Max(T)])
    <3>1. f[T] = (IF T = {} THEN base ELSE g[<<f[T \ {Max(T)}], Max(T)>>]) /\ f \in [SUBSET (1..n) -> Seq(Clusters(S))]
      BY <1>4 DEF Folding
    <3>2. CASE T # {}
      <4>1. Max(T) \in T
        <5>1. IsFiniteSet(1..n) /\ 1..n \subseteq Int
          BY <1>1, FS_Interval
        <5>2. IsFiniteSet(T) /\ T \subseteq Int
          BY <5>1, FS_Subset
        <5> QED BY <3>2, <5>2, MaxOf
      <4>2. f[T \ {Max(T)}] \in Seq(Clusters(S)) /\ Max(T) \in 1..n
        BY <3>1, <4>1
      <4>3. g[<<f[T \ {Max(T)}], Max(T)>>] = Op(f[T \ {Max(T)}], s[Max(T)])
        BY <4>2
      <4> QED BY <3>1, <3>2, <4>3
    <3> QED BY <3>1, <3>2
  <2>2. f = [T \in SUBSET (1..n) |-> f[T]]
    BY <1>4 DEF Folding
  <2> QED BY <1>1, <2>1, <2>2
<1> HIDE DEF Rec
<1>6. it = Rec(it)
  BY <1>5
<1>7. \A T \in SUBSET (1..n) : it[T] = IF T = {} THEN base ELSE Op(it[T \ {Max(T)}], s[Max(T)])
  <2> DEFINE i == it
  <2>1. i = Rec(i)
    BY <1>6
  <2> HIDE DEF i
  <2>2. \A T \in SUBSET (1..n) : i[T] = IF T = {} THEN base ELSE Op(i[T \ {Max(T)}], s[Max(T)])
    BY <1>1, <2>1 DEF Rec
  <2> QED BY <2>2 DEF i
<1> HIDE DEF it
<1>8. h[0] = base
  <2>1. 1..0 = {} /\ 0 \in 0..n
    BY <1>1
  <2> QED BY <1>7, <2>1
<1>9. ASSUME NEW k \in 1..n PROVE h[k] = Op(h[k - 1], s[k])
  <2>1. 1..k \in SUBSET (1..n) /\ 1..k # {} /\ Max(1..k) = k /\ (1..k) \ {k} = 1..(k - 1)
    BY <1>1, Ranges
  <2>2. it[1..k] = Op(it[1..(k - 1)], s[k])
    BY <1>7, <2>1
  <2>3. k \in 0..n /\ k - 1 \in 0..n
    BY <1>1
  <2> QED BY <2>2, <2>3
<1>10. FoldLeft(Gather, base, s) = h[n]
  <2>1. n \in 0..n
    BY <1>1
  <2> QED BY <1>1, <1>3, <2>1
<1> HIDE DEF h
<1>11. \A k \in 0..n : h[k] \in Seq(Clusters(S))
  <2> DEFINE G == {k \in 0..n : h[k] \in Seq(Clusters(S))}
  <2>1. 0 \in G
    BY <1>1, <1>8
  <2>2. ASSUME NEW k \in 1..n, k - 1 \in G PROVE k \in G
    <3>1. h[k - 1] \in Seq(Clusters(S)) /\ s[k] \in S /\ k \in 0..n
      BY <1>1, <2>2
    <3>2. Op(h[k - 1], s[k]) \in Seq(Clusters(S))
      BY <3>1, <1>2
    <3> QED BY <3>1, <3>2, <1>9
  <2> HIDE DEF G
  <2>3. \A k \in 0..n : k \in G
    BY <1>1, <2>1, <2>2, Counting
  <2> QED BY <2>3 DEF G
<1>12. Stepping(h, n, Seq(Clusters(S)), base) /\ \A k \in 1..n : h[k] = Gather(h[k - 1], s[k])
  BY <1>8, <1>9, <1>11 DEF Stepping, Op
<1> QED BY <1>10, <1>12 DEF n

\* What clusters are ranked by is three numbers.
LEMMA WeightType ==
    ASSUME NEW fps, NEW S, Spread(S, fps), NEW c \in Clusters(S)
    PROVE  /\ Weight(c) = <<Weight(c)[1], Weight(c)[2], Weight(c)[3]>>
           /\ Weight(c)[1] \in Int /\ Weight(c)[2] \in Int /\ Weight(c)[3] \in Int
<1> DEFINE f == [i \in c |-> i.to - i.from]
           g == [i \in c |-> (840 * i.matched) \div (i.to - i.from)]
<1>1. IsFiniteSet(c) /\ c # {} /\ c \subseteq S
  <2>1. c # {} /\ c \subseteq S /\ IsFiniteSet(S)
    BY DEF Clusters, Spread
  <2> QED BY <2>1, FS_Subset
<1>2. \A i \in c : i.to \in Int /\ i.from \in Int /\ i.matched \in Int /\ i.to - i.from > 0
  BY <1>1 DEF Spread, Common
<1>3. \A i \in c : f[i] \in Int /\ g[i] \in Int
  BY <1>2
<1>4. DOMAIN f = c
  OBVIOUS
<1>5. Weight(c) = <<Cardinality(c), Median2(f), Total(g, c)>>
  BY DEF Weight
<1> HIDE DEF f, g
<1>6. Median2(f) \in Int /\ Total(g, c) \in Int
  BY <1>1, <1>3, <1>4, Median2Type, TotalType
<1>7. Cardinality(c) \in Int
  <2>1. Cardinality(c) \in Nat
    BY <1>1, FS_CardinalityType
  <2> QED BY <2>1
<1> QED BY <1>5, <1>6, <1>7

(***************************************************************************)
(* The matches that lie about the same place are some of the matches.      *)
(***************************************************************************)
LEMMA ClusterType ==
    ASSUME NEW fps, NEW S, Spread(S, fps)
    PROVE  Cluster(S) \subseteq S
<1> DEFINE Best(cs) == cs[CHOOSE k \in DOMAIN cs : \A o \in DOMAIN cs :
                         Above(Weight(cs[k]), Weight(cs[o])) \/ (Weight(cs[k]) = Weight(cs[o]) /\ k <= o)]
           s == Sorted(S, Leftmost)
           all == FoldLeft(Gather, << >>, s)
           B == Clusters(S)
<1>1. Cluster(S) = IF S = {} THEN {} ELSE Best(all)
  BY DEF Cluster
<1>2. CASE S = {}
  BY <1>1, <1>2
<1>3. CASE S # {}
  <2>1. s \in Seq(S) /\ Len(s) \in Nat /\ Len(s) # 0
    <3>1. IsFiniteSet(S)
      BY DEF Spread
    <3>2. s \in Seq(S) /\ Len(s) = Cardinality(S) /\ Cardinality(S) \in Nat
      BY LeftmostType
    <3>3. Cardinality(S) # 0
      BY <1>3, <3>1, FS_EmptySet
    <3> QED BY <3>2, <3>3
  <2> HIDE DEF s
  <2>2. << >> \in Seq(B)
    BY EmptySeq
  <2>3. PICK h : /\ Stepping(h, Len(s), Seq(Clusters(S)), << >>)
                 /\ \A k \in 1..Len(s) : h[k] = Gather(h[k - 1], s[k])
                 /\ all = h[Len(s)]
    BY <2>1, <2>2, GatherFold
  <2>4. all \in Seq(B) /\ all # << >>
    <3> DEFINE n == Len(s)
    <3>1. n \in 1..n /\ n - 1 \in 0..n /\ s[n] \in S
      BY <2>1, ElementOfSeq
    <3>2. h[n - 1] \in Seq(B) /\ h[n] = Gather(h[n - 1], s[n])
      BY <2>3, <3>1 DEF Stepping
    <3> HIDE DEF n
    <3>3. Gather(h[n - 1], s[n]) \in Seq(B) /\ Gather(h[n - 1], s[n]) # << >>
      BY <3>1, <3>2, GatherType
    <3> QED BY <2>3, <3>2, <3>3 DEF n
  <2> HIDE DEF all, B
  <2>5. Len(all) \in Nat /\ DOMAIN all = 1..Len(all) /\ \A k \in 1..Len(all) : all[k] \in B
    BY <2>4, LenProperties, ElementOfSeq
  <2>6. DOMAIN all # {} /\ IsFiniteSet(DOMAIN all) /\ DOMAIN all \subseteq Int
    <3>1. 1..Len(all) # {}
      <4>1. Len(all) # 0
        BY <2>4, EmptySeq
      <4>2. 1 \in 1..Len(all)
        BY <2>5, <4>1
      <4> QED BY <4>2
    <3>2. IsFiniteSet(1..Len(all))
      BY <2>5, FS_Interval
    <3> QED BY <2>5, <3>1, <3>2
  <2> DEFINE D == DOMAIN all
             w(k) == Weight(all[k])
             f == [k \in D |-> -w(k)[1]]
             g == [k \in D |-> -w(k)[2]]
             m == [k \in D |-> -w(k)[3]]
             i == [k \in D |-> k]
  <2>7. \A k \in D : /\ w(k) = <<w(k)[1], w(k)[2], w(k)[3]>>
                     /\ w(k)[1] \in Int /\ w(k)[2] \in Int /\ w(k)[3] \in Int /\ k \in Int
    <3>1. \A k \in D : all[k] \in Clusters(S) /\ k \in Int
      BY <2>5 DEF B
    <3> HIDE DEF D
    <3> QED BY <3>1, WeightType
  <2> HIDE DEF D, w
  <2>8. \A k \in D : f[k] = -w(k)[1] /\ g[k] = -w(k)[2] /\ m[k] = -w(k)[3] /\ i[k] = k
    OBVIOUS
  <2>9. \A k \in D : f[k] \in Int /\ g[k] \in Int /\ m[k] \in Int /\ i[k] \in Int
    BY <2>7
  <2> HIDE DEF f, g, m, i
  <2>10. PICK x \in D : Foremost(x, D, f, g, m, i)
    <3>1. IsFiniteSet(D) /\ D # {}
      BY <2>6 DEF D
    <3> QED BY <2>9, <3>1, LexLeast
  <2>11. ASSUME NEW o \in D PROVE Above(w(x), w(o)) \/ (w(x) = w(o) /\ x <= o)
    <3> DEFINE a == w(x)[1]
               b == w(x)[2]
               c == w(x)[3]
               u == w(o)[1]
               v == w(o)[2]
               z == w(o)[3]
    <3>1. /\ a \in Int /\ b \in Int /\ c \in Int /\ u \in Int /\ v \in Int /\ z \in Int /\ x \in Int /\ o \in Int
          /\ w(x) = <<a, b, c>> /\ w(o) = <<u, v, z>>
      BY <2>7
    <3>2. \/ -a < -u
          \/ -a = -u /\ -b < -v
          \/ -a = -u /\ -b = -v /\ -c < -z
          \/ -a = -u /\ -b = -v /\ -c = -z /\ x <= o
      BY <2>8, <2>10 DEF Foremost
    <3> HIDE DEF a, b, c, u, v, z
    <3>4. \/ a > u
          \/ a = u /\ b > v
          \/ a = u /\ b = v /\ c > z
          \/ a = u /\ b = v /\ c = z /\ x <= o
      BY <3>1, <3>2
    <3>5. /\ a > u => Above(<<a, b, c>>, <<u, v, z>>)
          /\ a = u /\ b > v => Above(<<a, b, c>>, <<u, v, z>>)
          /\ a = u /\ b = v /\ c > z => Above(<<a, b, c>>, <<u, v, z>>)
      BY <3>1, LargestAbove
    <3> QED BY <3>1, <3>4, <3>5
  <2> DEFINE best == CHOOSE k \in D : \A o \in D : Above(w(k), w(o)) \/ (w(k) = w(o) /\ k <= o)
  <2>12. best \in D
    BY <2>11
  <2>13. Best(all) = all[best]
    BY DEF D, w
  <2> HIDE DEF best, Best
  <2>14. all[best] \in B
    BY <2>5, <2>12 DEF D
  <2>15. all[best] \subseteq S
    BY <2>14 DEF B, Clusters
  <2> QED BY <1>1, <1>3, <2>13, <2>15
<1> QED BY <1>2, <1>3

(***************************************************************************)
(* The commercial bumper lies at numbered places of the episodes.          *)
(***************************************************************************)
LEMMA DetectBumperType ==
    ASSUME NEW fps, IsPrints(fps)
    PROVE  DetectBumper(fps).occ \in Seq(Occurrences(DOMAIN fps))
<1> DEFINE eps == DOMAIN fps
           O == Occurrences(DOMAIN fps)
           Found(matches, e) == {m \in matches : m.ep = e /\ m.to - m.from >= MinBumper /\ Good82(m)}
           all == Matches(fps)
           clusters == [e \in eps |-> Cluster(Found(all, e))]
           spots == [e \in {e \in eps : clusters[e] # {}} |-> Spot(clusters[e])]
           sure == {e \in DOMAIN spots : spots[e].partners >= 2 /\ spots[e].to - spots[e].from >= MinBumper}
           order == Sorted(sure, <)
           at(e) == [ep |-> e, from |-> fps[e].at + spots[e].from, to |-> fps[e].at + spots[e].to]
           occ == [k \in DOMAIN order |-> at(order[k])]
<1>a. DetectBumper(fps) = IF Cardinality(eps) < 3 THEN Undetected("not_applicable") ELSE Bumpers(fps, spots)
  BY DEF DetectBumper
<1>b. Bumpers(fps, spots) = [status |-> IF sure = eps THEN "detected" ELSE "not_detected", occ |-> occ]
  <2> HIDE DEF spots
  <2> QED BY DEF Bumpers
<1>1. DetectBumper(fps) = IF Cardinality(eps) < 3 THEN Undetected("not_applicable")
                          ELSE [status |-> IF sure = eps THEN "detected" ELSE "not_detected", occ |-> occ]
  <2> HIDE DEF sure, occ, spots
  <2> QED BY <1>a, <1>b
<1>2. IsFiniteSet(eps) /\ eps \subseteq Nat
  BY DEF IsPrints
<1>3. ASSUME NEW e \in eps PROVE Cluster(Found(all, e)) \subseteq Found(all, e) /\ Spread(Found(all, e), fps)
  <2> DEFINE S == Found(all, e)
  <2>1. /\ IsFiniteSet(all) /\ all \subseteq Common(fps)
        /\ \A x, y \in all : x.ep = y.ep /\ x.other = y.other => x = y
    BY MatchesType
  <2> HIDE DEF all
  <2>2. S \subseteq all /\ \A x \in S : x.ep = e /\ x.to - x.from >= MinBumper
    OBVIOUS
  <2> HIDE DEF S
  <2>3. IsFiniteSet(S) /\ S \subseteq Common(fps)
    BY <2>1, <2>2, FS_Subset
  <2>4. \A x, y \in S : x.other = y.other => x = y
    BY <2>1, <2>2
  <2>5. \A x \in S : x.to - x.from > 0
    <3>1. MinBumper \in Nat \ {0}
      BY DetectionBounds
    <3>2. \A x \in S : x.to \in Int /\ x.from \in Int
      BY <2>3 DEF Common
    <3> QED BY <2>2, <3>1, <3>2
  <2>6. Spread(S, fps)
    BY <1>2, <2>3, <2>4, <2>5 DEF Spread
  <2>7. Cluster(S) \subseteq S
    BY <2>6, ClusterType
  <2> QED BY <2>6, <2>7 DEF S
<1> HIDE DEF Found, all
<1>4. ASSUME NEW e \in eps, clusters[e] # {} PROVE Spot(clusters[e]).from \in Int /\ Spot(clusters[e]).to \in Int
  <2> DEFINE c == clusters[e]
             S == Found(all, e)
             f == [i \in c |-> i.from]
             g == [i \in c |-> i.to]
  <2>1. c \subseteq S /\ Spread(S, fps)
    BY <1>3
  <2> HIDE DEF S
  <2>2. c # {}
    BY <1>4
  <2> HIDE DEF clusters
  <2> HIDE DEF c
  <2>3. IsFiniteSet(c) /\ \A i \in c : i.from \in Int /\ i.to \in Int
    <3>1. IsFiniteSet(S) /\ S \subseteq Common(fps)
      BY <2>1 DEF Spread
    <3>2. \A i \in S : i.from \in Int /\ i.to \in Int
      BY <3>1 DEF Common
    <3> QED BY <2>1, <3>1, <3>2, FS_Subset
  <2>4. DOMAIN f = c /\ DOMAIN g = c /\ \A i \in c : f[i] \in Int /\ g[i] \in Int
    BY <2>3
  <2>5. Spot(c).from = HalfEven(Median2(f)) /\ Spot(c).to = HalfEven(Median2(g))
    BY DEF Spot
  <2> HIDE DEF f, g
  <2>6. HalfEven(Median2(f)) \in Int /\ HalfEven(Median2(g)) \in Int
    BY <2>2, <2>3, <2>4, MedianType
  <2> QED BY <2>5, <2>6 DEF c
<1> HIDE DEF clusters
<1>5. ASSUME NEW e \in sure PROVE at(e) \in O
  <2>1. e \in eps /\ spots[e].from \in Int /\ spots[e].to \in Int
    <3>1. e \in eps /\ clusters[e] # {} /\ spots[e] = Spot(clusters[e])
      OBVIOUS
    <3> HIDE DEF spots, sure, eps
    <3> QED BY <1>4, <3>1
  <2> HIDE DEF spots, sure
  <2>2. fps[e].at \in Int
    BY <2>1 DEF IsPrints
  <2>3. fps[e].at + spots[e].from \in Int /\ fps[e].at + spots[e].to \in Int
    BY <2>1, <2>2
  <2> QED BY <2>1, <2>3 DEF Occurrences
<1>6. sure \subseteq eps
  OBVIOUS
<1> HIDE DEF sure, at
<1>7. order \in Seq(sure)
  <2> HIDE DEF eps
  <2>1. IsFiniteSet(sure) /\ sure \subseteq Int
    <3>1. IsFiniteSet(sure)
      BY <1>2, <1>6, FS_Subset
    <3>2. sure \subseteq Int
      BY <1>2, <1>6
    <3> QED BY <3>1, <3>2
  <2>2. Lists(Sorted(sure, <), sure)
    BY <2>1, Listing
  <2> QED BY <2>2 DEF Lists
<1> HIDE DEF order, O
<1>8. occ \in Seq(O)
  <2>1. Len(order) \in Nat /\ DOMAIN order = 1..Len(order) /\ \A k \in 1..Len(order) : order[k] \in sure
    BY <1>7, LenProperties, ElementOfSeq
  <2>2. \A k \in 1..Len(order) : at(order[k]) \in O
    BY <1>5, <2>1
  <2> QED BY <2>1, <2>2, IsASeq
<1>9. << >> \in Seq(O)
  BY EmptySeq
<1> SUFFICES DetectBumper(fps).occ \in Seq(O)
  BY DEF O
<1> HIDE DEF occ, eps
<1> QED BY <1>1, <1>8, <1>9 DEF Undetected

\* Lines of a transcript, as far as the bumper has to give way to them.
Talking(lines) == /\ IsFiniteSet(Range(lines))
                  /\ \A l \in Range(lines) : l.from \in Int /\ l.to \in Int

(***************************************************************************)
(* A bumper that gave way to the lines still lies at numbered places.      *)
(***************************************************************************)
LEMMA DetectSafeBumperType ==
    ASSUME NEW fps, IsPrints(fps), NEW lines, Talking(lines)
    PROVE  DetectSafeBumper(fps, lines).occ \in Seq(Occurrences(DOMAIN fps))
<1> DEFINE O == Occurrences(DOMAIN fps)
           Talk(e) == {<<l.from, l.to>> : l \in {l \in Range(lines) : l.ep = e /\ l.to > l.from}}
           Longest(f) == f[CHOOSE k \in DOMAIN f : \A j \in DOMAIN f :
                             \/ f[k][2] - f[k][1] > f[j][2] - f[j][1]
                             \/ f[k][2] - f[k][1] = f[j][2] - f[j][1] /\ k <= j]
           Rest(o, free) == IF free = << >> THEN << >> ELSE <<[ep |-> o.ep, from |-> Longest(free)[1],
                                                               to |-> Longest(free)[2]]>>
           Clear(o) == SourceRanges(o.from, o.to, Talk(o.ep))
           d == DetectBumper(fps)
           occ == d.occ
           rests == [k \in DOMAIN occ |-> Rest(occ[k], Clear(occ[k]))]
           safe == FlattenSeq(rests)
           T == {k \in DOMAIN safe : safe[k].to - safe[k].from >= MinBumper}
           long == Only(safe, T)
<1>1. DetectSafeBumper(fps, lines)
        = IF d.status # "detected" \/ \A l \in Range(lines) : l.to <= l.from THEN d
          ELSE [status |-> IF Len(long) = Cardinality(DOMAIN fps) THEN "detected" ELSE "not_detected",
                occ |-> long]
  BY DEF DetectSafeBumper
<1>2. occ \in Seq(O)
  BY DetectBumperType
<1> HIDE DEF d
<1>3. ASSUME NEW e PROVE CutSet(Talk(e))
  <2> DEFINE L == {l \in Range(lines) : l.ep = e /\ l.to > l.from}
             f == [l \in L |-> <<l.from, l.to>>]
  <2>1. L \subseteq Range(lines) /\ \A l \in L : l.to > l.from
    OBVIOUS
  <2>2. Talk(e) = {f[l] : l \in L}
    OBVIOUS
  <2>3. \A l \in L : f[l] = <<l.from, l.to>>
    OBVIOUS
  <2> HIDE DEF L, f, Talk
  <2>4. IsFiniteSet({f[l] : l \in L})
    <3>1. IsFiniteSet(L)
      BY <2>1, FS_Subset DEF Talking
    <3> QED BY <3>1, FiniteImage
  <2>5. \A l \in L : f[l] \in Pair /\ f[l][1] < f[l][2]
    <3>1. \A l \in L : l.from \in Int /\ l.to \in Int /\ l.from < l.to
      BY <2>1 DEF Talking
    <3> QED BY <2>3, <3>1 DEF Pair
  <2> QED BY <2>2, <2>4, <2>5 DEF CutSet
<1> HIDE DEF Talk
<1>4. ASSUME NEW o \in O PROVE Clear(o) \in Seq(Pair)
  <2>1. o.from \in Int /\ o.to \in Int
    BY DEF Occurrences
  <2>2. CutSet(Talk(o.ep))
    BY <1>3
  <2>3. Canonical(Clear(o))
    BY <2>1, <2>2, SourceRangesFacts
  <2> HIDE DEF Clear
  <2> QED BY <2>3 DEF Canonical
<1> HIDE DEF Clear
<1>5. ASSUME NEW f \in Seq(Pair), f # << >> PROVE Longest(f) \in Pair
  <2> DEFINE D == DOMAIN f
             g == [k \in D |-> f[k][1] - f[k][2]]
             h == [k \in D |-> k]
  <2>1. Len(f) \in Nat /\ D = 1..Len(f) /\ \A k \in 1..Len(f) : f[k] \in Pair
    BY LenProperties, ElementOfSeq
  <2>2. D # {} /\ IsFiniteSet(D)
    <3>1. Len(f) # 0
      BY <1>5, EmptySeq
    <3>2. IsFiniteSet(1..Len(f)) /\ 1 \in 1..Len(f)
      BY <2>1, <3>1, FS_Interval
    <3> HIDE DEF D
    <3> QED BY <2>1, <3>2
  <2>3. \A k \in D : f[k] \in Pair /\ k \in Int
    BY <2>1
  <2> HIDE DEF D
  <2>4. \A k \in D : f[k][1] \in Int /\ f[k][2] \in Int /\ k \in Int
    BY <2>3 DEF Pair
  <2>5. \A k \in D : g[k] = f[k][1] - f[k][2] /\ h[k] = k
    OBVIOUS
  <2>6. \A k \in D : g[k] \in Int /\ h[k] \in Int
    BY <2>4
  <2> HIDE DEF g, h
  <2>7. PICK x \in D : Foremost(x, D, g, h, h, h)
    BY <2>2, <2>6, LexLeast
  <2>8. \A j \in D : \/ f[x][2] - f[x][1] > f[j][2] - f[j][1]
                     \/ f[x][2] - f[x][1] = f[j][2] - f[j][1] /\ x <= j
    <3> SUFFICES ASSUME NEW j \in D
                 PROVE  \/ f[x][2] - f[x][1] > f[j][2] - f[j][1]
                        \/ f[x][2] - f[x][1] = f[j][2] - f[j][1] /\ x <= j
      OBVIOUS
    <3> DEFINE a == f[x][1]
               b == f[x][2]
               c == f[j][1]
               e == f[j][2]
    <3>1. a \in Int /\ b \in Int /\ c \in Int /\ e \in Int /\ x \in Int /\ j \in Int
      BY <2>4
    <3>2. \/ a - b < c - e
          \/ a - b = c - e /\ x <= j
      <4>1. g[x] = a - b /\ g[j] = c - e /\ h[x] = x /\ h[j] = j
        BY <2>5
      <4>2. g[x] < g[j] \/ (g[x] = g[j] /\ (h[x] < h[j] \/ h[x] <= h[j]))
        BY <2>7 DEF Foremost
      <4> HIDE DEF a, b, c, e
      <4> QED BY <3>1, <4>1, <4>2
    <3>3. b - a > e - c \/ (b - a = e - c /\ x <= j)
      <4> HIDE DEF a, b, c, e
      <4> QED BY <3>1, <3>2
    <3> QED BY <3>3
  <2> DEFINE best == CHOOSE k \in D : \A j \in D :
                             \/ f[k][2] - f[k][1] > f[j][2] - f[j][1]
                             \/ f[k][2] - f[k][1] = f[j][2] - f[j][1] /\ k <= j
  <2>9. best \in D
    BY <2>8
  <2>10. Longest(f) = f[best]
    BY DEF D
  <2> HIDE DEF best, Longest
  <2> QED BY <2>3, <2>9, <2>10
<1> HIDE DEF Longest
<1>6. ASSUME NEW o \in O, NEW f \in Seq(Pair) PROVE Rest(o, f) \in Seq(O)
  <2>1. CASE f = << >>
    <3>1. << >> \in Seq(O)
      BY EmptySeq
    <3> HIDE DEF O
    <3> QED BY <2>1, <3>1
  <2>2. CASE f # << >>
    <3> DEFINE x == [ep |-> o.ep, from |-> Longest(f)[1], to |-> Longest(f)[2]]
    <3>1. x \in O
      <4>1. Longest(f)[1] \in Int /\ Longest(f)[2] \in Int
        <5>1. Longest(f) \in Pair
          BY <1>5, <2>2
        <5> QED BY <5>1 DEF Pair
      <4>2. o.ep \in DOMAIN fps
        BY DEF Occurrences
      <4> QED BY <4>1, <4>2 DEF Occurrences
    <3>2. Rest(o, f) = <<x>>
      BY <2>2
    <3> HIDE DEF x, O, Rest
    <3>3. <<x>> \in Seq(O)
      BY <3>1
    <3> QED BY <3>2, <3>3
  <2> QED BY <2>1, <2>2
<1> HIDE DEF Rest, O
<1>7. rests \in Seq(Seq(O))
  <2> HIDE DEF occ
  <2>1. Len(occ) \in Nat /\ DOMAIN occ = 1..Len(occ) /\ \A k \in 1..Len(occ) : occ[k] \in O
    BY <1>2, LenProperties, ElementOfSeq
  <2>2. \A k \in 1..Len(occ) : Rest(occ[k], Clear(occ[k])) \in Seq(O)
    BY <1>4, <1>6, <2>1
  <2> QED BY <2>1, <2>2, IsASeq
<1> HIDE DEF rests
<1>8. safe \in Seq(O)
  BY <1>7, FlattenType
<1> HIDE DEF safe
<1>9. long \in Seq(O)
  <2>1. T \subseteq DOMAIN safe
    OBVIOUS
  <2> HIDE DEF T
  <2> QED BY <1>8, <2>1, OnlyFacts
<1> SUFFICES DetectSafeBumper(fps, lines).occ \in Seq(O)
  BY DEF O
<1>10. CASE d.status # "detected" \/ \A l \in Range(lines) : l.to <= l.from
  <2>1. DetectSafeBumper(fps, lines) = d
    BY <1>1, <1>10
  <2> QED BY <1>2, <2>1
<1>11. CASE ~(d.status # "detected" \/ \A l \in Range(lines) : l.to <= l.from)
  <2> HIDE DEF long
  <2>1. DetectSafeBumper(fps, lines).occ = long
    BY <1>1, <1>11
  <2> QED BY <1>9, <2>1
<1> QED BY <1>10, <1>11

(***************************************************************************)
(* The cuts a finding makes are finitely many stretches of an episode.     *)
(***************************************************************************)
LEMMA CutsType ==
    ASSUME NEW E, NEW d, d.occ \in Seq(Occurrences(E)), NEW e
    PROVE  CutSet(Cuts(d, e))
<1> DEFINE R == {o \in Range(d.occ) : o.ep = e /\ o.to > o.from}
           f == [o \in R |-> <<o.from, o.to>>]
           O == Occurrences(E)
           s == d.occ
<1>1. Cuts(d, e) = IF d.status # "detected" THEN {} ELSE {f[o] : o \in R}
  BY DEF Cuts
<1>2. s \in Seq(O)
  OBVIOUS
<1>3. R \subseteq Range(s) /\ \A o \in R : o.to > o.from
  OBVIOUS
<1>4. \A o \in R : f[o] = <<o.from, o.to>>
  OBVIOUS
<1>5. \A o \in O : o.from \in Int /\ o.to \in Int
  BY DEF Occurrences
<1> HIDE DEF R, f, s, O
<1>6. IsFiniteSet(Range(s)) /\ Range(s) \subseteq O
  <2>1. Len(s) \in Nat /\ DOMAIN s = 1..Len(s) /\ \A k \in 1..Len(s) : s[k] \in O
    BY <1>2, LenProperties, ElementOfSeq
  <2>2. IsFiniteSet(1..Len(s))
    BY <2>1, FS_Interval
  <2>3. IsFiniteSet({s[k] : k \in 1..Len(s)})
    BY <2>2, FiniteImage
  <2>4. Range(s) = {s[k] : k \in 1..Len(s)}
    BY <2>1 DEF Range
  <2> QED BY <2>1, <2>3, <2>4
<1>7. IsFiniteSet({f[o] : o \in R})
  <2>1. IsFiniteSet(R)
    BY <1>3, <1>6, FS_Subset
  <2> QED BY <2>1, FiniteImage
<1>8. \A o \in R : f[o] \in Pair /\ f[o][1] < f[o][2]
  <2>1. \A o \in R : o.from \in Int /\ o.to \in Int /\ o.from < o.to
    BY <1>3, <1>5, <1>6
  <2> SUFFICES ASSUME NEW o \in R PROVE f[o] \in Pair /\ f[o][1] < f[o][2]
    OBVIOUS
  <2> DEFINE a == o.from
             b == o.to
  <2>2. a \in Int /\ b \in Int /\ a < b /\ f[o] = <<a, b>>
    BY <1>4, <2>1
  <2> HIDE DEF a, b
  <2> QED BY <2>2 DEF Pair
<1>9. CutSet({f[o] : o \in R})
  BY <1>7, <1>8 DEF CutSet
<1>10. CutSet({})
  BY FS_EmptySet DEF CutSet
<1> QED BY <1>1, <1>9, <1>10

\* Cuts of two kinds are cuts.
LEMMA CutsTogether ==
    ASSUME NEW S, NEW T, CutSet(S), CutSet(T)
    PROVE  CutSet(S \cup T)
<1>1. IsFiniteSet(S \cup T)
  BY FS_Union DEF CutSet
<1> QED BY <1>1 DEF CutSet

\* One stretch can be cut.
LEMMA OneCut ==
    ASSUME NEW a \in Int, NEW b \in Int, b > a
    PROVE  CutSet({<<a, b>>})
<1>1. IsFiniteSet({<<a, b>>})
  BY FS_Singleton
<1> QED BY <1>1 DEF CutSet, Pair

(***************************************************************************)
(* What is cut before the book begins and after it ends is a stretch.      *)
(***************************************************************************)
LEMMA BookBoundaryType ==
    ASSUME NEW book, IsProject(book), NEW intro, CutSet(intro), NEW told \in Seq(Cued(book))
    PROVE  CutSet(BookBoundary(book, intro, told).head) /\ CutSet(BookBoundary(book, intro, told).tail)
<1> DEFINE Tells(f, e) == {k \in DOMAIN told : f \in told[k].frags /\ told[k].ep = e}
           head == Tells(Min(Edges(book)), 1)
           tail == Tells(Max(Edges(book)), book.eps)
           starts == {told[k].start : k \in head}
           first == Min({told[k].start : k \in head})
           ends == {iv[2] : iv \in intro}
           introEnd == Max({iv[2] : iv \in intro} \cup {0})
           last == CHOOSE k \in tail : \A o \in tail :
                     \/ told[k].start > told[o].start \/ (told[k].start = told[o].start /\ k <= o)
           end == book.lines[told[last].anchor].to
           m == first - Context
           prefix == <<introEnd, Max({introEnd, first - Context})>>
           L == book.length[book.eps]
           z == end + Context
           suffix == <<Min({book.length[book.eps], end + Context}), book.length[book.eps]>>
           b == BookBoundary(book, intro, told)
<1>1. /\ b.head = IF head # {} /\ first - introEnd >= MinPrefix /\ prefix[2] > prefix[1] THEN {prefix} ELSE {}
      /\ b.tail = IF tail # {} /\ book.length[book.eps] - end >= MinSuffix /\ suffix[2] > suffix[1] THEN {suffix} ELSE {}
  BY DEF BookBoundary
<1> HIDE DEF b
<1>2. Len(told) \in Nat /\ DOMAIN told = 1..Len(told) /\ \A k \in 1..Len(told) : told[k] \in Cued(book)
  BY LenProperties, ElementOfSeq
<1>3. \A k \in DOMAIN told : told[k].start \in Int /\ told[k].anchor \in DOMAIN book.lines
  BY <1>2 DEF Cued, CueSet
<1>4. /\ IsFiniteSet(head) /\ IsFiniteSet(tail) /\ head \subseteq DOMAIN told /\ tail \subseteq DOMAIN told
      /\ DOMAIN told \subseteq Int
  <2>1. IsFiniteSet(DOMAIN told)
    BY <1>2, FS_Interval
  <2>2. head \subseteq DOMAIN told /\ tail \subseteq DOMAIN told
    OBVIOUS
  <2> HIDE DEF head, tail
  <2>3. IsFiniteSet(head) /\ IsFiniteSet(tail)
    BY <2>1, <2>2, FS_Subset
  <2> QED BY <1>2, <2>2, <2>3
<1> HIDE DEF head, tail
<1>5. Context \in Int
  BY PlanBounds
<1>6. introEnd \in Int
  <2> DEFINE f == [iv \in intro |-> iv[2]]
             E == ends \cup {0}
  <2>1. IsFiniteSet(intro) /\ \A iv \in intro : f[iv] \in Int
    BY DEF CutSet, Pair
  <2>2. ends = {f[iv] : iv \in intro}
    OBVIOUS
  <2> HIDE DEF f, ends
  <2>3. IsFiniteSet(ends) /\ ends \subseteq Int
    BY <2>1, <2>2, FiniteNumbers
  <2>4. IsFiniteSet(E) /\ E \subseteq Int /\ E # {}
    <3>1. IsFiniteSet({0})
      BY FS_Singleton
    <3>2. IsFiniteSet(ends \cup {0})
      BY <2>3, <3>1, FS_Union
    <3> QED BY <2>3, <3>2
  <2> HIDE DEF E
  <2>5. Max(E) \in Int
    BY <2>4, MaxOf
  <2> QED BY <2>5 DEF E, ends
<1>7. CutSet({})
  BY FS_EmptySet DEF CutSet
<1>8. CutSet(b.head)
  <2>1. CASE head # {} /\ prefix[2] > prefix[1]
    <3>1. first \in Int
      <4> DEFINE f == [k \in head |-> told[k].start]
      <4>1. \A k \in head : f[k] \in Int
        BY <1>3, <1>4
      <4>2. starts = {f[k] : k \in head} /\ starts # {}
        BY <2>1
      <4> HIDE DEF f, starts
      <4>3. IsFiniteSet(starts) /\ starts \subseteq Int
        BY <1>4, <4>1, <4>2, FiniteNumbers
      <4>4. Min(starts) \in Int
        BY <4>2, <4>3, MinOf
      <4> QED BY <4>4 DEF starts
    <3> HIDE DEF first, introEnd
    <3>2. m \in Int
      BY <1>5, <3>1
    <3>3. prefix = <<introEnd, Max({introEnd, m})>>
      OBVIOUS
    <3> HIDE DEF m, prefix
    <3>4. Max({introEnd, m}) \in Int
      BY <1>6, <3>2, Two
    <3>5. CutSet({prefix})
      BY <1>6, <2>1, <3>3, <3>4, OneCut
    <3> QED BY <1>1, <1>7, <3>5
  <2>2. CASE ~(head # {} /\ prefix[2] > prefix[1])
    <3> HIDE DEF prefix, first, introEnd
    <3> QED BY <1>1, <1>7, <2>2
  <2> HIDE DEF prefix
  <2> QED BY <2>1, <2>2
<1>9. CutSet(b.tail)
  <2>1. CASE tail # {} /\ suffix[2] > suffix[1]
    <3>1. last \in tail
      <4> DEFINE f == [k \in tail |-> -told[k].start]
                 g == [k \in tail |-> k]
      <4>1. \A k \in tail : told[k].start \in Int /\ k \in Int
        BY <1>3, <1>4
      <4>2. \A k \in tail : f[k] = -told[k].start /\ g[k] = k
        OBVIOUS
      <4>3. \A k \in tail : f[k] \in Int /\ g[k] \in Int
        BY <4>1
      <4> HIDE DEF f, g
      <4>4. PICK x \in tail : Foremost(x, tail, f, g, g, g)
        BY <1>4, <2>1, <4>3, LexLeast
      <4>5. \A o \in tail : \/ told[x].start > told[o].start
                            \/ (told[x].start = told[o].start /\ x <= o)
        <5> SUFFICES ASSUME NEW o \in tail
                     PROVE  \/ told[x].start > told[o].start
                            \/ (told[x].start = told[o].start /\ x <= o)
          OBVIOUS
        <5> DEFINE a == told[x].start
                   c == told[o].start
        <5>1. a \in Int /\ c \in Int /\ x \in Int /\ o \in Int
          BY <4>1
        <5>2. f[x] = -a /\ f[o] = -c /\ g[x] = x /\ g[o] = o
          BY <4>2
        <5>3. f[x] < f[o] \/ (f[x] = f[o] /\ (g[x] < g[o] \/ g[x] <= g[o]))
          BY <4>4 DEF Foremost
        <5> HIDE DEF a, c
        <5>4. a > c \/ (a = c /\ x <= o)
          BY <5>1, <5>2, <5>3
        <5> QED BY <5>4 DEF a, c
      <4> QED BY <4>5
    <3> HIDE DEF last
    <3>2. end \in Int
      <4>1. told[last].anchor \in DOMAIN book.lines
        BY <1>3, <1>4, <3>1
      <4> QED BY <4>1, Lines
    <3>3. L \in Int
      BY DEF IsProject
    <3> HIDE DEF end
    <3>4. z \in Int
      BY <1>5, <3>2
    <3>5. suffix = <<Min({L, z}), L>>
      OBVIOUS
    <3> HIDE DEF L, z, suffix
    <3>6. Min({L, z}) \in Int
      BY <3>3, <3>4, Two
    <3>7. CutSet({suffix})
      BY <2>1, <3>3, <3>5, <3>6, OneCut
    <3> QED BY <1>1, <1>7, <3>7
  <2>2. CASE ~(tail # {} /\ suffix[2] > suffix[1])
    <3> HIDE DEF suffix, end
    <3> QED BY <1>1, <1>7, <2>2
  <2> HIDE DEF suffix
  <2> QED BY <2>1, <2>2
<1> QED BY <1>8, <1>9 DEF b

=============================================================================
