--------------------------- MODULE HsAlignmentProofs ---------------------------
(***************************************************************************)
(* Proofs about HsAlignment and the packages of HsPackages, for any book,  *)
(* recordings and cuts, any figures, any limits on packages, any requests  *)
(* and whatever the agent answers.                                         *)
(*                                                                         *)
(* Nothing is dropped and what is locked stays because the packages of a   *)
(* run follow each other, in candidates and in windows (PackagesRanged):   *)
(* an answer inside its window cannot be out of order.  IInv says so of    *)
(* what is done so far, that every candidate has a number of its own, that *)
(* every finished package has given back what was locked in it, and that   *)
(* its answer is on disk.                                                  *)
(*                                                                         *)
(* Recursive functions are chosen in the model; that there is one to       *)
(* choose is proved each time (Recursion), and what they compute by a      *)
(* least counterexample in place of an induction.                          *)
(***************************************************************************)
EXTENDS HsAlignment, FiniteSetTheorems, SequenceTheorems, WellFoundedInduction, TLAPS

-----------------------------------------------------------------------------
(* Orders and sorting. *)

(***************************************************************************)
(* Numbers have a least one: what every induction below is made with.      *)
(***************************************************************************)
LEMMA HasLeast ==
    ASSUME NEW T, T \subseteq Nat, T # {}
    PROVE  \E m \in T : \A o \in T : m <= o
<1>1. PICK m \in T : \A o \in T : ~(<<o, m>> \in OpToRel(<, Nat))
  BY NatLessThanWellFounded, WFMin, Zenon
<1>2. \A o \in T : ~(o < m)
  BY <1>1 DEF OpToRel
<1>3. \A o \in T : m <= o
  BY <1>2
<1> QED BY <1>3

\* R orders S strictly and totally.
Orders(R, S) ==
    /\ \A x \in S : <<x, x>> \notin R
    /\ \A x, y, z \in S : <<x, y>> \in R /\ <<y, z>> \in R => <<x, z>> \in R
    /\ \A x, y \in S : x # y => <<x, y>> \in R \/ <<y, x>> \in R

\* What lies below x.
Lower(x, R, S) == {y \in S : <<y, x>> \in R}

(***************************************************************************)
(* Where a set is ordered, the number of elements below one is its rank: a *)
(* number of its own for each, and every rank up to the size of the set is *)
(* somebody's.                                                             *)
(***************************************************************************)
LEMMA Ranks ==
    ASSUME NEW S, IsFiniteSet(S), NEW R, Orders(R, S)
    PROVE  /\ Cardinality(S) \in Nat
           /\ \A x \in S : Cardinality(Lower(x, R, S)) \in 0..Cardinality(S) - 1
           /\ \A x, y \in S : <<x, y>> \in R => Cardinality(Lower(x, R, S)) < Cardinality(Lower(y, R, S))
           /\ \A k \in 1..Cardinality(S) : \E x \in S : Cardinality(Lower(x, R, S)) = k - 1
<1> DEFINE n == Cardinality(S)
           rank == [x \in S |-> Cardinality(Lower(x, R, S))]
<1>1. n \in Nat
  BY FS_CardinalityType
<1>2. ASSUME NEW x \in S
      PROVE  /\ IsFiniteSet(Lower(x, R, S)) /\ Cardinality(Lower(x, R, S)) \in Nat
             /\ Cardinality(Lower(x, R, S)) < n
  <2>1. Lower(x, R, S) \in SUBSET S /\ x \notin Lower(x, R, S)
    BY DEF Lower, Orders
  <2>2. IsFiniteSet(Lower(x, R, S)) /\ Cardinality(Lower(x, R, S)) <= n
        /\ (n = Cardinality(Lower(x, R, S)) => S = Lower(x, R, S))
    BY <2>1, FS_Subset
  <2>3. Cardinality(Lower(x, R, S)) \in Nat
    BY <2>2, FS_CardinalityType
  <2>4. n # Cardinality(Lower(x, R, S))
    BY <2>1, <2>2
  <2> HIDE DEF n
  <2> QED BY <2>2, <2>3, <2>4, <1>1
<1>3. ASSUME NEW x \in S, NEW y \in S, <<x, y>> \in R
      PROVE  Cardinality(Lower(x, R, S)) < Cardinality(Lower(y, R, S))
  <2>1. Lower(x, R, S) \in SUBSET Lower(y, R, S)
    BY <1>3 DEF Lower, Orders
  <2>2. x \in Lower(y, R, S) /\ x \notin Lower(x, R, S)
    BY <1>3 DEF Lower, Orders
  <2>3. Cardinality(Lower(x, R, S)) <= Cardinality(Lower(y, R, S))
        /\ (Cardinality(Lower(y, R, S)) = Cardinality(Lower(x, R, S)) => Lower(y, R, S) = Lower(x, R, S))
    BY <2>1, <1>2, FS_Subset
  <2>4. Cardinality(Lower(x, R, S)) # Cardinality(Lower(y, R, S))
    BY <2>2, <2>3
  <2> QED BY <2>3, <2>4, <1>2
<1>4. rank \in Injection(S, 0..n-1)
  <2>1. rank \in [S -> 0..n-1]
    BY <1>1, <1>2
  <2>2. ASSUME NEW x \in S, NEW y \in S, rank[x] = rank[y] PROVE x = y
    <3>1. Cardinality(Lower(x, R, S)) = Cardinality(Lower(y, R, S))
      BY <2>2
    <3>2. <<x, y>> \notin R /\ <<y, x>> \notin R
      BY <3>1, <1>2, <1>3
    <3> QED BY <3>2 DEF Orders
  <2> QED BY <2>1, <2>2 DEF Injection, IsInjective
<1>5. IsFiniteSet(0..n-1) /\ Cardinality(0..n-1) = n
  <2> HIDE DEF n
  <2> QED BY <1>1, FS_Interval
<1>6. rank \in Surjection(S, 0..n-1)
  <2> HIDE DEF rank
  <2> QED BY <1>4, <1>5, FS_Injection
<1>7. ASSUME NEW k \in 1..n PROVE \E x \in S : rank[x] = k - 1
  <2>1. k - 1 \in 0..n-1
    BY <1>1
  <2> QED BY <1>6, <2>1 DEF Surjection
<1> QED BY <1>1, <1>2, <1>3, <1>7

\* S listed along R.
SortedBy(S, R) ==
    [k \in 1..Cardinality(S) |-> CHOOSE x \in S : Cardinality(Lower(x, R, S)) = k - 1]

(***************************************************************************)
(* Sorting a finite set along an order lists each of its elements, and     *)
(* lists them along the order.                                             *)
(***************************************************************************)
LEMMA SortedFacts ==
    ASSUME NEW S, IsFiniteSet(S), NEW R, Orders(R, S)
    PROVE  /\ Cardinality(S) \in Nat /\ DOMAIN SortedBy(S, R) = 1..Cardinality(S)
           /\ SortedBy(S, R) \in Seq(S) /\ Len(SortedBy(S, R)) = Cardinality(S)
           /\ \A k \in DOMAIN SortedBy(S, R) : SortedBy(S, R)[k] \in S
           /\ \A x \in S : \E k \in DOMAIN SortedBy(S, R) : SortedBy(S, R)[k] = x
           /\ \A j, k \in DOMAIN SortedBy(S, R) : j < k => <<SortedBy(S, R)[j], SortedBy(S, R)[k]>> \in R
<1> DEFINE n == Cardinality(S)
           rank(x) == Cardinality(Lower(x, R, S))
           s == SortedBy(S, R)
<1>1. /\ n \in Nat
      /\ \A x \in S : rank(x) \in 0..n - 1
      /\ \A x, y \in S : <<x, y>> \in R => rank(x) < rank(y)
      /\ \A k \in 1..n : \E x \in S : rank(x) = k - 1
  BY Ranks
<1>2. DOMAIN s = 1..n /\ \A k \in 1..n : s[k] = CHOOSE x \in S : rank(x) = k - 1
  BY DEF SortedBy
<1> HIDE DEF s
<1>3. ASSUME NEW k \in 1..n PROVE s[k] \in S /\ rank(s[k]) = k - 1
  <2>1. \E x \in S : rank(x) = k - 1
    BY <1>1
  <2>2. s[k] = CHOOSE x \in S : rank(x) = k - 1
    BY <1>2
  <2> HIDE DEF rank
  <2> QED BY <2>1, <2>2, Zenon
<1>4. ASSUME NEW x \in S PROVE \E k \in 1..n : s[k] = x
  <2> DEFINE k == rank(x) + 1
  <2>1. k \in 1..n /\ k - 1 = rank(x)
    <3> HIDE DEF n
    <3>1. rank(x) \in 0..n - 1 /\ n \in Nat
      BY <1>1
    <3> HIDE DEF rank
    <3> QED BY <3>1
  <2>2. s[k] \in S /\ rank(s[k]) = rank(x)
    BY <2>1, <1>3
  <2>3. <<s[k], x>> \notin R /\ <<x, s[k]>> \notin R
    <3> HIDE DEF k
    <3>1. rank(x) \in Int
      BY <1>1
    <3> HIDE DEF rank
    <3> QED BY <2>2, <1>1, <3>1
  <2>4. s[k] = x
    BY <2>2, <2>3 DEF Orders
  <2> QED BY <2>1, <2>4
<1>5. ASSUME NEW j \in 1..n, NEW k \in 1..n, j < k PROVE <<s[j], s[k]>> \in R
  <2>1. s[j] \in S /\ s[k] \in S /\ rank(s[j]) = j - 1 /\ rank(s[k]) = k - 1
    BY <1>3
  <2>2. <<s[k], s[j]>> \in R => rank(s[k]) < rank(s[j])
    BY <2>1, <1>1
  <2>3. <<s[k], s[j]>> \notin R /\ s[j] # s[k]
    <3> HIDE DEF rank, n
    <3> QED BY <2>1, <2>2, <1>5, <1>1
  <2> QED BY <2>1, <2>3 DEF Orders
<1>6. s \in Seq(S) /\ Len(s) = n
  <2> HIDE DEF n
  <2>1. s \in [1..n -> S]
    <3>1. s = [k \in 1..n |-> s[k]]
      BY DEF s, n, SortedBy
    <3> QED BY <3>1, <1>3
  <2> QED BY <1>1, <2>1, LenProperties, IsASeq
<1> QED BY <1>1, <1>2, <1>3, <1>4, <1>5, <1>6 DEF s

-----------------------------------------------------------------------------
(* Recursive functions. *)

\* A recursion that comes down, and its solutions.
Recursive(D, B, N, m, leaf, base, nx, g) ==
    /\ N \in Nat /\ m \in [D -> 0..N] /\ leaf \in SUBSET D
    /\ base \in [D -> B] /\ nx \in [D -> D] /\ g \in [D \X B -> B]
    /\ \A x \in D \ leaf : m[nx[x]] < m[x]

Solves(f, D, B, leaf, base, nx, g) ==
    /\ f \in [D -> B]
    /\ \A x \in D : f[x] = IF x \in leaf THEN base[x] ELSE g[x, f[nx[x]]]

(***************************************************************************)
(* A recursive function exists where the recursion comes down: nx names    *)
(* the argument a value is computed from, and its measure is smaller. The  *)
(* definitions of HsPackages choose their recursive functions; this is     *)
(* what says that there is one to choose.                                  *)
(***************************************************************************)
LEMMA Recursion ==
    ASSUME NEW D, NEW B, NEW N, NEW m, NEW leaf, NEW base, NEW nx, NEW g,
           Recursive(D, B, N, m, leaf, base, nx, g)
    PROVE  \E f : Solves(f, D, B, leaf, base, nx, g)
<1> USE DEF Recursive
<1> DEFINE Val(f, x) == IF x \in leaf THEN base[x] ELSE g[x, f[nx[x]]]
           Upto(f, n) == \A x \in D : m[x] < n => f[x] = Val(f, x)
           bad == {n \in Nat : \A f \in [D -> B] : ~Upto(f, n)}
<1>1. ASSUME NEW f \in [D -> B], NEW x \in D PROVE Val(f, x) \in B
  OBVIOUS
<1>2. 0 \notin bad
  <2>1. Upto(base, 0)
    <3>1. \A x \in D : m[x] \in 0..N
      OBVIOUS
    <3>2. \A x \in D : ~(m[x] < 0)
      BY <3>1
    <3> QED BY <3>2
  <2> QED BY <2>1
<1>3. ASSUME NEW n \in Nat, n \notin bad PROVE n + 1 \notin bad
  <2>1. PICK f \in [D -> B] : Upto(f, n)
    BY <1>3
  <2> DEFINE h == [x \in D |-> IF m[x] = n THEN Val(f, x) ELSE f[x]]
  <2>2. h \in [D -> B]
    BY <1>1
  <2>3. ASSUME NEW x \in D, m[x] < n + 1 PROVE h[x] = Val(h, x)
    <3>1. h[x] = Val(f, x)
      <4>1. m[x] \in 0..N
        OBVIOUS
      <4>2. CASE m[x] = n
        BY <4>2
      <4>3. CASE m[x] < n
        <5>1. h[x] = f[x]
          <6>1. m[x] # n
            BY <4>3, <4>1
          <6> HIDE DEF Val
          <6> QED BY <6>1
        <5>2. f[x] = Val(f, x)
          BY <4>3, <2>1
        <5> QED BY <5>1, <5>2
      <4>4. m[x] = n \/ m[x] < n
        BY <4>1, <2>3
      <4> QED BY <4>2, <4>3, <4>4
    <3>2. CASE x \in leaf
      BY <3>1, <3>2
    <3>3. CASE x \notin leaf
      <4>1. nx[x] \in D /\ m[nx[x]] < m[x] /\ m[nx[x]] \in 0..N /\ m[x] \in 0..N
        BY <3>3
      <4> DEFINE y == nx[x]
      <4>2. y \in D /\ m[y] # n
        BY <4>1, <2>3
      <4>3. h[y] = f[y]
        <5> HIDE DEF y
        <5> QED BY <4>2
      <4> QED BY <3>1, <3>3, <4>3
    <3> QED BY <3>2, <3>3
  <2>4. Upto(h, n + 1)
    BY <2>3
  <2> HIDE DEF h, Upto
  <2> QED BY <2>2, <2>4
<1>4. bad = {}
  <2> SUFFICES ASSUME bad # {} PROVE FALSE
    OBVIOUS
  <2>1. bad \subseteq Nat
    OBVIOUS
  <2>2. \E n \in bad : \A o \in bad : n <= o
    <3> HIDE DEF bad
    <3> QED BY <2>1, HasLeast
  <2>3. PICK n \in bad : \A o \in bad : n <= o
    BY <2>2
  <2> HIDE DEF bad
  <2>4. n \in Nat /\ n # 0
    BY <2>1, <1>2
  <2>5. n - 1 \in Nat /\ n - 1 \notin bad
    BY <2>3, <2>4
  <2>6. (n - 1) + 1 \notin bad
    BY <2>5, <1>3
  <2> QED BY <2>6, <2>4
<1>5. PICK f \in [D -> B] : Upto(f, N + 1)
  <2>1. N + 1 \in Nat
    OBVIOUS
  <2> QED BY <1>4, <2>1
<1>6. \A x \in D : m[x] < N + 1
  OBVIOUS
<1> QED BY <1>5, <1>6 DEF Solves

-----------------------------------------------------------------------------
(* Where packages start. *)

(***************************************************************************)
(* The moments of the recordings, the episodes they lie in and the homes   *)
(* of the passages, as the assumptions on the constants give them.         *)
(***************************************************************************)
LEMMA Time ==
    /\ Len(EpisodeOf) \in Nat /\ Moments = 1..Len(EpisodeOf) /\ IsFiniteSet(Moments)
    /\ \A s \in Moments : EpisodeOf[s] \in Nat /\ EpisodeOf[s] \in Episodes
    /\ \A s, t \in Moments : EpisodeOf[s] < EpisodeOf[t] => s < t
    /\ Len(Homes) \in Nat /\ \A p \in Passages : Homes[p] \in Moments
<1>1. EpisodeOf \in Seq(Nat) /\ Homes \in Seq(Moments)
  BY PackageAssumption
<1>2. Len(EpisodeOf) \in Nat /\ DOMAIN EpisodeOf = 1..Len(EpisodeOf)
      /\ \A s \in 1..Len(EpisodeOf) : EpisodeOf[s] \in Nat
  BY <1>1, LenProperties, ElementOfSeq
<1>3. Len(Homes) \in Nat /\ DOMAIN Homes = 1..Len(Homes)
      /\ \A p \in 1..Len(Homes) : Homes[p] \in Moments
  BY <1>1, LenProperties, ElementOfSeq
<1>4. \A s \in Moments : EpisodeOf[s] \in Episodes
  BY <1>2 DEF Moments, Episodes, Range
<1>5. ASSUME NEW s \in Moments, NEW t \in Moments, EpisodeOf[s] < EpisodeOf[t] PROVE s < t
  <2>1. t <= s => EpisodeOf[t] <= EpisodeOf[s]
    BY PackageAssumption
  <2>2. EpisodeOf[s] \in Nat /\ EpisodeOf[t] \in Nat /\ s \in Int /\ t \in Int
    BY <1>2 DEF Moments
  <2> QED BY <2>1, <2>2, <1>5
<1>6. IsFiniteSet(Moments)
  BY <1>2, FS_Interval DEF Moments
<1> QED BY <1>2, <1>3, <1>4, <1>5, <1>6 DEF Moments, Passages

\* The start of a candidate's package, from the one before.
StartsBy(load, h) ==
    [i \in DOMAIN load |->
        IF i = 1 THEN 1
        ELSE LET s == h[i - 1] IN
             IF i - s >= MaxCues \/ Cardinality(UNION {load[j] : j \in s..i}) > MaxIntros
             THEN i ELSE s]

(***************************************************************************)
(* The recursive function that Starts stands for.                          *)
(***************************************************************************)
LEMMA StartsIs == ASSUME NEW load PROVE Starts(load) = CHOOSE h : h = StartsBy(load, h)
BY DEF Starts, StartsBy

(***************************************************************************)
(* It exists, whatever the load of each candidate.                         *)
(***************************************************************************)
LEMMA StartsExist ==
    ASSUME NEW n \in Nat, NEW load, DOMAIN load = 1..n
    PROVE  \E h : h = StartsBy(load, h)
<1> DEFINE D == 1..n
           new(i, s) == i - s >= MaxCues \/ Cardinality(UNION {load[j] : j \in s..i}) > MaxIntros
           m == [x \in D |-> x]
           leaf == {x \in D : x = 1}
           base == [x \in D |-> 1]
           nx == [x \in D |-> IF x = 1 THEN x ELSE x - 1]
           g == [p \in D \X Nat |-> IF new(p[1], p[2]) THEN p[1] ELSE p[2]]
<1>1. m \in [D -> 0..n] /\ leaf \in SUBSET D /\ base \in [D -> Nat] /\ nx \in [D -> D]
  OBVIOUS
<1>2. g \in [D \X Nat -> Nat]
  <2> HIDE DEF new
  <2> QED OBVIOUS
<1>3. \A x \in D \ leaf : m[nx[x]] < m[x]
  OBVIOUS
<1>4. \E f : Solves(f, D, Nat, leaf, base, nx, g)
  <2>1. Recursive(D, Nat, n, m, leaf, base, nx, g)
    <3> HIDE DEF D, m, leaf, base, nx, g
    <3> QED BY <1>1, <1>2, <1>3 DEF Recursive
  <2> HIDE DEF D, m, leaf, base, nx, g
  <2> QED BY <2>1, Recursion, Zenon
<1>5. PICK f : f \in [D -> Nat] /\ \A x \in D : f[x] = IF x \in leaf THEN base[x] ELSE g[x, f[nx[x]]]
  BY <1>4 DEF Solves
<1>6. ASSUME NEW i \in D
      PROVE  f[i] = IF i = 1 THEN 1 ELSE IF new(i, f[i - 1]) THEN i ELSE f[i - 1]
  <2>1. CASE i = 1
    BY <2>1, <1>5
  <2>2. CASE i # 1
    <3>1. i - 1 \in D /\ nx[i] = i - 1 /\ i \notin leaf
      BY <2>2
    <3>2. f[i - 1] \in Nat
      BY <3>1, <1>5
    <3>3. f[i] = g[i, f[i - 1]]
      BY <3>1, <1>5
    <3>4. <<i, f[i - 1]>> \in D \X Nat
      BY <3>2
    <3>5. g[i, f[i - 1]] = IF new(i, f[i - 1]) THEN i ELSE f[i - 1]
      <4> HIDE DEF new, D
      <4> QED BY <3>4
    <3> QED BY <3>3, <3>5, <2>2
  <2> QED BY <2>1, <2>2
<1>7. f = [i \in D |-> f[i]]
  BY <1>5
<1>8. f = [i \in D |-> IF i = 1 THEN 1 ELSE IF new(i, f[i - 1]) THEN i ELSE f[i - 1]]
  <2> HIDE DEF new
  <2> QED BY <1>6, <1>7
<1>9. f = StartsBy(load, f)
  BY <1>8 DEF StartsBy
<1> QED BY <1>9

(***************************************************************************)
(* A package starts at a candidate, and packages start one after the       *)
(* other.                                                                  *)
(***************************************************************************)
LEMMA StartsFacts ==
    ASSUME NEW n \in Nat, NEW load, DOMAIN load = 1..n
    PROVE  /\ DOMAIN Starts(load) = 1..n
           /\ \A i \in 1..n : Starts(load)[i] \in 1..n
           /\ \A i, j \in 1..n : Starts(load)[i] < Starts(load)[j] => i < j
<1> DEFINE f == Starts(load)
<1>1. f = StartsBy(load, f)
  <2>1. \E h : h = StartsBy(load, h)
    BY StartsExist
  <2>2. f = CHOOSE h : h = StartsBy(load, h)
    BY StartsIs
  <2> HIDE DEF f
  <2> QED BY <2>1, <2>2
<1> HIDE DEF f
<1>2. DOMAIN f = 1..n /\ \A i \in 1..n : f[i] \in {IF i = 1 THEN 1 ELSE i, f[i - 1]}
                                          /\ (i = 1 => f[i] = 1)
  BY <1>1 DEF StartsBy
<1>3. \A i \in 1..n : f[i] \in 1..i
  <2> DEFINE bad == {i \in 1..n : f[i] \notin 1..i}
  <2> SUFFICES ASSUME bad # {} PROVE FALSE
    OBVIOUS
  <2>1. bad \subseteq Nat
    OBVIOUS
  <2>2. \E i \in bad : \A o \in bad : i <= o
    <3> HIDE DEF bad
    <3> QED BY <2>1, HasLeast
  <2>3. PICK i \in bad : \A o \in bad : i <= o
    BY <2>2
  <2>4. i \in 1..n /\ f[i] \notin 1..i /\ i # 1
    BY <1>2
  <2>5. i - 1 \in 1..n /\ i - 1 \notin bad
    BY <2>3, <2>4
  <2>6. f[i - 1] \in 1..(i - 1)
    BY <2>5
  <2>7. f[i] \in {i, f[i - 1]}
    BY <1>2, <2>4
  <2> QED BY <2>4, <2>6, <2>7
<1>4. ASSUME NEW i \in 1..n, NEW j \in 1..n, i <= j PROVE f[i] <= f[j]
  <2> DEFINE bad == {k \in 1..n : i <= k /\ ~(f[i] <= f[k])}
  <2> SUFFICES ASSUME bad # {} PROVE FALSE
    BY <1>4
  <2>1. bad \subseteq Nat
    OBVIOUS
  <2>2. \E k \in bad : \A o \in bad : k <= o
    <3> HIDE DEF bad
    <3> QED BY <2>1, HasLeast
  <2>3. PICK k \in bad : \A o \in bad : k <= o
    BY <2>2
  <2>4. k \in 1..n /\ i <= k /\ ~(f[i] <= f[k]) /\ f[i] \in 1..i
    BY <1>3
  <2>5. k # i
    BY <2>4
  <2>6. k - 1 \in 1..n /\ i <= k - 1 /\ k - 1 \notin bad
    BY <2>3, <2>4, <2>5
  <2>7. f[i] <= f[k - 1]
    BY <2>6
  <2>8. f[k] \in {k, f[k - 1]}
    BY <1>2, <2>4
  <2> QED BY <2>4, <2>7, <2>8
<1>5. \A i \in 1..n : f[i] \in 1..n
  BY <1>3
<1>6. ASSUME NEW i \in 1..n, NEW j \in 1..n, f[i] < f[j] PROVE i < j
  <2>1. j <= i => f[j] <= f[i]
    BY <1>4
  <2> QED BY <2>1, <1>5, <1>6
<1> QED BY <1>2, <1>5, <1>6 DEF f

-----------------------------------------------------------------------------
(* The candidates of an episode, divided into parts. *)

\* Numbers of their own, at moments of the recordings.
Distinct(S) == \A x, y \in S : x.id = y.id => x = y
Placeable(S) == \A r \in S : r.home \in Moments /\ r.id \in Nat
Candidates(S) == Distinct(S) /\ Placeable(S)

\* The order of candidates, of numbers.
BeforeOn(S) == {p \in S \X S : Before(p[1], p[2])}

(***************************************************************************)
(* Candidates with numbers of their own are ordered by line and number.    *)
(***************************************************************************)
LEMMA BeforeOrders == ASSUME NEW S, Candidates(S) PROVE Orders(BeforeOn(S), S)
<1>1. \A r \in S : r.home \in Nat /\ r.id \in Nat
  BY Time DEF Candidates, Placeable, Moments
<1>2. \A x, y \in S : <<x, y>> \in BeforeOn(S) <=> Before(x, y)
  BY DEF BeforeOn
<1>3. ASSUME NEW x \in S PROVE ~Before(x, x)
  BY <1>1 DEF Before
<1>4. ASSUME NEW x \in S, NEW y \in S, NEW z \in S, Before(x, y), Before(y, z) PROVE Before(x, z)
  BY <1>1, <1>4 DEF Before
<1>5. ASSUME NEW x \in S, NEW y \in S, x # y PROVE Before(x, y) \/ Before(y, x)
  <2>1. x.id # y.id
    BY <1>5 DEF Candidates, Distinct
  <2> QED BY <2>1, <1>1 DEF Before
<1> QED BY <1>2, <1>3, <1>4, <1>5 DEF Orders

(***************************************************************************)
(* Candidates are sorted along that order.                                 *)
(***************************************************************************)
LEMMA SortedIsBefore == ASSUME NEW S PROVE Sorted(S, Before) = SortedBy(S, BeforeOn(S))
<1> DEFINE a(k) == CHOOSE x \in S : Cardinality({y \in S : Before(y, x)}) = k - 1
           b(k) == CHOOSE x \in S : Cardinality(Lower(x, BeforeOn(S), S)) = k - 1
<1>1. \A x \in S : {y \in S : Before(y, x)} = Lower(x, BeforeOn(S), S)
  BY DEF Lower, BeforeOn
<1>2. \A k : a(k) = b(k)
  BY <1>1
<1>3. Sorted(S, Before) = [k \in 1..Cardinality(S) |-> a(k)]
  BY DEF Sorted
<1>4. SortedBy(S, BeforeOn(S)) = [k \in 1..Cardinality(S) |-> b(k)]
  BY DEF SortedBy
<1> HIDE DEF a, b
<1> QED BY <1>2, <1>3, <1>4

\* The order of numbers.
LessOn(S) == {p \in S \X S : p[1] < p[2]}

(***************************************************************************)
(* Numbers are ordered.                                                    *)
(***************************************************************************)
LEMMA LessOrders ==
    ASSUME NEW n \in Nat, NEW S, S \subseteq 1..n
    PROVE  IsFiniteSet(S) /\ Orders(LessOn(S), S)
<1>1. IsFiniteSet(S)
  <2>1. IsFiniteSet(1..n)
    BY FS_Interval
  <2> QED BY <2>1, FS_Subset
<1>2. \A x, y \in S : <<x, y>> \in LessOn(S) <=> x < y
  BY DEF LessOn
<1>3. \A x \in S : x \in Int
  OBVIOUS
<1> QED BY <1>1, <1>2, <1>3 DEF Orders

(***************************************************************************)
(* The starts of the packages are sorted as numbers.                       *)
(***************************************************************************)
LEMMA SortedIsLess == ASSUME NEW S PROVE Sorted(S, LAMBDA a, b : a < b) = SortedBy(S, LessOn(S))
<1> DEFINE a(k) == CHOOSE x \in S : Cardinality({y \in S : y < x}) = k - 1
           b(k) == CHOOSE x \in S : Cardinality(Lower(x, LessOn(S), S)) = k - 1
<1>1. \A x \in S : {y \in S : y < x} = Lower(x, LessOn(S), S)
  BY DEF Lower, LessOn
<1>2. \A k : a(k) = b(k)
  BY <1>1
<1>3. Sorted(S, LAMBDA x, y : x < y) = [k \in 1..Cardinality(S) |-> a(k)]
  BY DEF Sorted
<1>4. SortedBy(S, LessOn(S)) = [k \in 1..Cardinality(S) |-> b(k)]
  BY DEF SortedBy
<1> HIDE DEF a, b
<1> QED BY <1>2, <1>3, <1>4

\* The candidates by the start of their package.
PartsBy(rows, start, begins) ==
    [k \in DOMAIN begins |-> {rows[i] : i \in {i \in DOMAIN rows : start[i] = begins[k]}}]

(***************************************************************************)
(* The parts are named by their starts, in order.                          *)
(***************************************************************************)
LEMMA PartsIs ==
    ASSUME NEW rows, NEW start
    PROVE  Parts(rows, start) = PartsBy(rows, start, SortedBy(Range(start), LessOn(Range(start))))
<1>1. Parts(rows, start) = PartsBy(rows, start, Sorted(Range(start), LAMBDA a, b : a < b))
  BY DEF Parts, PartsBy
<1> QED BY <1>1, SortedIsLess

\* Parts of the first n rows, in order.
Blocks(parts, rows, n) ==
    /\ Len(parts) \in Nat /\ DOMAIN parts = 1..Len(parts)
    /\ \A k \in DOMAIN parts : parts[k] # {} /\ \A x \in parts[k] : \E i \in 1..n : x = rows[i]
    /\ \A i \in 1..n : \E k \in DOMAIN parts : rows[i] \in parts[k]
    /\ \A j, k \in DOMAIN parts : j < k =>
          \A x \in parts[j], y \in parts[k] :
             \E i, l \in 1..n : i < l /\ x = rows[i] /\ y = rows[l]

(***************************************************************************)
(* Cut where packages start, the candidates fall into parts that are not   *)
(* empty, leave nobody out and follow each other                           *)
(* (scene_alignment_packages).                                             *)
(***************************************************************************)
LEMMA PartsFacts ==
    ASSUME NEW n \in Nat, NEW load, DOMAIN load = 1..n, NEW rows, DOMAIN rows = 1..n
    PROVE  Blocks(Parts(rows, Starts(load)), rows, n)
<1> DEFINE parts == Parts(rows, Starts(load))
<1> DEFINE start == Starts(load)
           S == Range(start)
           begins == SortedBy(S, LessOn(S))
<1>1. /\ DOMAIN start = 1..n /\ \A i \in 1..n : start[i] \in 1..n
      /\ \A i, j \in 1..n : start[i] < start[j] => i < j
  BY StartsFacts
<1>2. S \subseteq 1..n /\ \A v : v \in S <=> \E i \in 1..n : v = start[i]
  BY <1>1 DEF Range
<1> HIDE DEF start, S
<1>3. IsFiniteSet(S) /\ Orders(LessOn(S), S)
  BY <1>2, LessOrders
<1>4. /\ Cardinality(S) \in Nat /\ DOMAIN begins = 1..Cardinality(S)
      /\ \A k \in DOMAIN begins : begins[k] \in S
      /\ \A x \in S : \E k \in DOMAIN begins : begins[k] = x
      /\ \A j, k \in DOMAIN begins : j < k => <<begins[j], begins[k]>> \in LessOn(S)
  BY <1>3, SortedFacts
<1> HIDE DEF begins
<1>5. parts = PartsBy(rows, start, begins)
  BY PartsIs DEF begins, S, start
<1> HIDE DEF parts
<1>6. DOMAIN parts = DOMAIN begins
      /\ \A k \in DOMAIN begins : \A x : x \in parts[k] <=> \E i \in 1..n : start[i] = begins[k] /\ x = rows[i]
  BY <1>5 DEF PartsBy
<1>7. Len(parts) = Cardinality(S)
  <2>1. parts \in [1..Cardinality(S) -> {parts[k] : k \in DOMAIN parts}]
    BY <1>5, <1>4, <1>6 DEF PartsBy
  <2> QED BY <2>1, <1>4, IsASeq, LenProperties
<1>8. ASSUME NEW k \in DOMAIN parts PROVE parts[k] # {}
  <2>1. begins[k] \in S
    BY <1>4, <1>6
  <2>2. PICK i \in 1..n : begins[k] = start[i]
    BY <2>1, <1>2
  <2> QED BY <2>2, <1>6
<1>9. ASSUME NEW i \in 1..n PROVE \E k \in DOMAIN parts : rows[i] \in parts[k]
  <2>1. PICK k \in DOMAIN begins : begins[k] = start[i]
    BY <1>2, <1>4
  <2> QED BY <2>1, <1>6
<1>10. ASSUME NEW j \in DOMAIN parts, NEW k \in DOMAIN parts, j < k,
              NEW x \in parts[j], NEW y \in parts[k]
       PROVE  \E i, l \in 1..n : i < l /\ x = rows[i] /\ y = rows[l]
  <2>1. PICK i \in 1..n : start[i] = begins[j] /\ x = rows[i]
    BY <1>6
  <2>2. PICK l \in 1..n : start[l] = begins[k] /\ y = rows[l]
    BY <1>6
  <2>3. begins[j] < begins[k]
    BY <1>10, <1>4, <1>6 DEF LessOn
  <2>4. i < l
    BY <2>1, <2>2, <2>3, <1>1
  <2> QED BY <2>1, <2>2, <2>4
<1>11. \A k \in DOMAIN parts : \A x \in parts[k] : \E i \in 1..n : x = rows[i]
  BY <1>6
<1>12. Blocks(parts, rows, n)
  BY <1>4, <1>6, <1>7, <1>8, <1>9, <1>10, <1>11 DEF Blocks
<1> QED BY <1>12 DEF parts

-----------------------------------------------------------------------------
(* The windows of the parts. *)

(***************************************************************************)
(* A set of moments has a first and a last.                                *)
(***************************************************************************)
LEMMA Extremes ==
    ASSUME NEW S, S \subseteq Moments, S # {}
    PROVE  /\ Max(S) \in S /\ \A x \in S : x <= Max(S)
           /\ Min(S) \in S /\ \A x \in S : Min(S) <= x
<1> DEFINE L == Len(EpisodeOf)
           T == {L - x : x \in S}
<1>1. L \in Nat /\ \A x \in S : x \in 1..L
  BY Time
<1> HIDE DEF L
<1>2. \E x \in S : \A y \in S : x <= y
  <2>1. S \subseteq Nat
    BY <1>1
  <2> QED BY <2>1, HasLeast
<1>3. \E x \in S : \A y \in S : x >= y
  <2>1. T \subseteq Nat /\ T # {}
    BY <1>1
  <2>2. \E m \in T : \A o \in T : m <= o
    <3> HIDE DEF T
    <3> QED BY <2>1, HasLeast
  <2>3. PICK m \in T : \A o \in T : m <= o
    BY <2>2
  <2>4. PICK x \in S : m = L - x
    BY <2>3
  <2>5. \A y \in S : L - x <= L - y
    BY <2>3, <2>4
  <2> QED BY <2>5, <1>1
<1>4. Max(S) \in S /\ \A y \in S : Max(S) >= y
  BY <1>3, Zenon DEF Max
<1>5. Min(S) \in S /\ \A y \in S : Min(S) <= y
  BY <1>2, Zenon DEF Min
<1> QED BY <1>1, <1>4, <1>5

\* Parts of an episode: candidates, divided in order.
Divided(parts, mine) ==
    /\ Len(parts) \in Nat /\ DOMAIN parts = 1..Len(parts)
    /\ \A k \in DOMAIN parts : parts[k] # {} /\ parts[k] \subseteq mine
    /\ \A r \in mine : \E k \in DOMAIN parts : r \in parts[k]
    /\ \A j, k \in DOMAIN parts : j < k => \A x \in parts[j], y \in parts[k] : Before(x, y)

\* A candidate whose cue is locked is where that cue is.
InPlace(S, locked) == \A r \in S : \A c \in locked : c.id = r.id => r.home = c.at

\* The usable lines of the locked comments of a part, its last line and its first.
Held(part, locked, cuts) == {c.at : c \in {c \in locked : c.id \in Ids(part)}} \cap Lines(cuts)
LastOf(part) == Max({r.home : r \in part})
FirstOf(part) == Min({r.home : r \in part})

(***************************************************************************)
(* What lies in the window of a part.                                      *)
(***************************************************************************)
LEMMA WindowsIs ==
    ASSUME NEW parts, NEW ep, NEW locked, NEW cuts
    PROVE  /\ DOMAIN Windows(parts, ep, locked, cuts) = DOMAIN parts
           /\ \A k \in DOMAIN parts : \A s :
                s \in Windows(parts, ep, locked, cuts)[k] <=>
                  /\ s \in Lines(cuts) /\ EpisodeOf[s] = ep
                  /\ k = 1 \/ 2 * s >= LastOf(parts[k - 1]) + FirstOf(parts[k])
                       \/ \E a \in Held(parts[k], locked, cuts) : a <= s
                  /\ k = Len(parts) \/ 2 * s < LastOf(parts[k]) + FirstOf(parts[k + 1])
                       \/ \E a \in Held(parts[k], locked, cuts) : s <= a
BY DEF Windows, Held, LastOf, FirstOf

(***************************************************************************)
(* The first and the last line of a part.                                  *)
(***************************************************************************)
LEMMA PartRange ==
    ASSUME NEW part, part # {}, Placeable(part)
    PROVE  /\ FirstOf(part) \in Moments /\ LastOf(part) \in Moments
           /\ \A r \in part : FirstOf(part) <= r.home /\ r.home <= LastOf(part)
           /\ \E r \in part : r.home = FirstOf(part)
           /\ \E r \in part : r.home = LastOf(part)
<1> DEFINE S == {r.home : r \in part}
<1>1. S \subseteq Moments /\ S # {}
  BY DEF Placeable
<1>2. /\ Max(S) \in S /\ \A x \in S : x <= Max(S)
      /\ Min(S) \in S /\ \A x \in S : Min(S) <= x
  <2> HIDE DEF S
  <2> QED BY <1>1, Extremes
<1> QED BY <1>1, <1>2 DEF FirstOf, LastOf

(***************************************************************************)
(* The windows of an episode follow each other, and a locked comment at a  *)
(* usable line lies in the window of its own part: a window that reaches   *)
(* back for a locked line reaches no further than the lines of the part    *)
(* itself.                                                                 *)
(***************************************************************************)
LEMMA WindowsFacts ==
    ASSUME NEW mine, Candidates(mine), NEW parts, Divided(parts, mine), NEW ep, NEW cuts,
           NEW locked, InPlace(mine, locked), NEW W, W = Windows(parts, ep, locked, cuts)
    PROVE  /\ DOMAIN W = DOMAIN parts
           /\ \A k \in DOMAIN parts : \A s \in W[k] : s \in Lines(cuts) /\ EpisodeOf[s] = ep
           /\ \A j, k \in DOMAIN parts : j < k => \A s \in W[j], t \in W[k] : s <= t
           /\ \A k \in DOMAIN parts : \A c \in locked :
                c.id \in Ids(parts[k]) /\ c.at \in Lines(cuts) /\ EpisodeOf[c.at] = ep => c.at \in W[k]
<1>1. DOMAIN W = DOMAIN parts
  BY WindowsIs
<1>2. ASSUME NEW k \in DOMAIN parts, NEW s \in W[k] PROVE s \in Lines(cuts) /\ EpisodeOf[s] = ep
  BY WindowsIs
<1>3. ASSUME NEW k \in DOMAIN parts
      PROVE  /\ FirstOf(parts[k]) \in Int /\ LastOf(parts[k]) \in Int
             /\ \A r \in parts[k] : FirstOf(parts[k]) <= r.home /\ r.home <= LastOf(parts[k])
             /\ \E r \in parts[k] : r.home = FirstOf(parts[k])
             /\ \E r \in parts[k] : r.home = LastOf(parts[k])
             /\ \A a \in Held(parts[k], locked, cuts) :
                  a \in Int /\ FirstOf(parts[k]) <= a /\ a <= LastOf(parts[k])
  <2>1. parts[k] # {} /\ parts[k] \subseteq mine /\ Placeable(parts[k])
    BY DEF Divided, Candidates, Placeable
  <2>2. /\ FirstOf(parts[k]) \in Moments /\ LastOf(parts[k]) \in Moments
        /\ \A r \in parts[k] : FirstOf(parts[k]) <= r.home /\ r.home <= LastOf(parts[k])
        /\ \E r \in parts[k] : r.home = FirstOf(parts[k])
        /\ \E r \in parts[k] : r.home = LastOf(parts[k])
    BY <2>1, PartRange
  <2>3. \A t \in Moments : t \in Int
    BY DEF Moments
  <2>4. ASSUME NEW a \in Held(parts[k], locked, cuts)
        PROVE  a \in Int /\ FirstOf(parts[k]) <= a /\ a <= LastOf(parts[k])
    <3>1. PICK c \in locked : c.id \in Ids(parts[k]) /\ a = c.at
      BY DEF Held
    <3>2. PICK r \in parts[k] : r.id = c.id
      BY <3>1 DEF Ids
    <3>3. r.home = a
      BY <3>1, <3>2, <2>1 DEF InPlace
    <3>4. r.home \in Moments
      BY <2>1 DEF Placeable
    <3> QED BY <2>2, <2>3, <3>3, <3>4
  <2> QED BY <2>2, <2>3, <2>4
<1>4. ASSUME NEW j \in DOMAIN parts, NEW k \in DOMAIN parts, j < k
      PROVE  LastOf(parts[j]) <= FirstOf(parts[k])
  <2>1. PICK x \in parts[j] : x.home = LastOf(parts[j])
    BY <1>3
  <2>2. PICK y \in parts[k] : y.home = FirstOf(parts[k])
    BY <1>3
  <2>3. Before(x, y)
    BY <1>4 DEF Divided
  <2>4. x.home \in Int /\ y.home \in Int
    BY <2>1, <2>2, <1>3
  <2> QED BY <2>1, <2>2, <2>3, <2>4 DEF Before
<1>5. ASSUME NEW j \in DOMAIN parts, NEW k \in DOMAIN parts, j < k, NEW s \in W[j], NEW t \in W[k]
      PROVE  s <= t
  <2>1. j \in Int /\ k \in Int /\ j + 1 \in DOMAIN parts /\ k - 1 \in DOMAIN parts
        /\ j # Len(parts) /\ k # 1
    BY <1>5 DEF Divided
  <2>2. s \in Int /\ t \in Int
    BY <1>2 DEF Lines, Moments
  <2> DEFINE f(i) == FirstOf(parts[i])
             l(i) == LastOf(parts[i])
  <2>3. 2 * s < l(j) + f(j + 1) \/ \E a \in Held(parts[j], locked, cuts) : s <= a
    BY <2>1, WindowsIs
  <2>4. 2 * t >= l(k - 1) + f(k) \/ \E a \in Held(parts[k], locked, cuts) : a <= t
    BY <2>1, WindowsIs
  <2>5. /\ f(j) \in Int /\ l(j) \in Int /\ f(k) \in Int /\ l(k) \in Int
        /\ f(j + 1) \in Int /\ l(k - 1) \in Int /\ l(j) <= f(k)
    BY <1>3, <1>4, <1>5, <2>1
  <2>6. l(j) <= l(k - 1)
    <3>1. CASE j = k - 1
      BY <3>1, <2>5
    <3>2. CASE j < k - 1
      <4>1. l(j) <= f(k - 1) /\ f(k - 1) \in Int
        BY <3>2, <1>4, <1>3, <2>1
      <4>2. f(k - 1) <= l(k - 1)
        <5>1. \E r \in parts[k - 1] : r.home = f(k - 1)
          BY <1>3, <2>1
        <5> QED BY <5>1, <1>3, <2>1
      <4> QED BY <4>1, <4>2, <2>5
    <3> QED BY <3>1, <3>2, <2>1, <1>5
  <2>7. f(j + 1) <= f(k)
    <3>1. CASE j + 1 = k
      BY <3>1, <2>5
    <3>2. CASE j + 1 < k
      <4>1. l(j + 1) <= f(k) /\ l(j + 1) \in Int
        BY <3>2, <1>4, <1>3, <2>1
      <4>2. f(j + 1) <= l(j + 1)
        <5>1. \E r \in parts[j + 1] : r.home = f(j + 1)
          BY <1>3, <2>1
        <5> QED BY <5>1, <1>3, <2>1
      <4> QED BY <4>1, <4>2, <2>5
    <3> QED BY <3>1, <3>2, <2>1, <1>5
  <2>8. (\E a \in Held(parts[j], locked, cuts) : s <= a) => s <= l(j)
    BY <1>3, <2>2, <2>5
  <2>9. (\E a \in Held(parts[k], locked, cuts) : a <= t) => f(k) <= t
    BY <1>3, <2>2, <2>5
  <2> HIDE DEF f, l
  <2> QED BY <2>2, <2>3, <2>4, <2>5, <2>6, <2>7, <2>8, <2>9
<1>6. ASSUME NEW k \in DOMAIN parts, NEW c \in locked,
             c.id \in Ids(parts[k]), c.at \in Lines(cuts), EpisodeOf[c.at] = ep
      PROVE  c.at \in W[k]
  <2>1. c.at \in Held(parts[k], locked, cuts)
    BY <1>6 DEF Held
  <2>2. c.at \in Int /\ c.at <= c.at
    BY <1>6 DEF Lines, Moments
  <2> QED BY <2>1, <2>2, <1>6, WindowsIs
<1> QED BY <1>1, <1>2, <1>5, <1>6

-----------------------------------------------------------------------------
(* The packages of an episode ... *)

(***************************************************************************)
(* What a function makes of a finite set is finite.                        *)
(***************************************************************************)
LEMMA FiniteImage ==
    ASSUME NEW A, IsFiniteSet(A), NEW f, DOMAIN f = A
    PROVE  IsFiniteSet({f[x] : x \in A})
<1> DEFINE B == {f[x] : x \in A}
           h == [x \in A |-> f[x]]
<1>1. h \in Surjection(A, B)
  BY DEF Surjection
<1> HIDE DEF h, B
<1>2. IsFiniteSet(B)
  BY <1>1, FS_Surjection
<1> QED BY <1>2 DEF B

\* A package after another.
Follows(p, q) ==
    /\ \A x \in p.cues, y \in q.cues : Before(x, y)
    /\ \A s \in p.window, t \in q.window : s <= t

\* The introductions due at each candidate.
Load(rows, mine, ep) ==
    [i \in DOMAIN rows |-> {f \in {f \in Figures : FirstSeen[f] = ep} : rows[i] \in Carriers(mine, f)}]

\* The candidates of an episode, cut into parts.
PartsOf(mine, ep) == Parts(Sorted(mine, Before), Starts(Load(Sorted(mine, Before), mine, ep)))

(***************************************************************************)
(* The candidates of an episode are divided in order.                      *)
(***************************************************************************)
LEMMA MineDivided ==
    ASSUME NEW mine, IsFiniteSet(mine), Candidates(mine), NEW ep
    PROVE  Divided(PartsOf(mine, ep), mine)
<1> DEFINE rows == SortedBy(mine, BeforeOn(mine))
           n == Cardinality(mine)
           load == Load(rows, mine, ep)
           parts == PartsOf(mine, ep)
<1>1. /\ n \in Nat /\ DOMAIN rows = 1..n
      /\ \A k \in 1..n : rows[k] \in mine
      /\ \A x \in mine : \E k \in 1..n : rows[k] = x
      /\ \A j, k \in 1..n : j < k => <<rows[j], rows[k]>> \in BeforeOn(mine)
  <2>1. Orders(BeforeOn(mine), mine)
    BY BeforeOrders
  <2>2. /\ n \in Nat /\ DOMAIN rows = 1..n
        /\ \A k \in DOMAIN rows : rows[k] \in mine
        /\ \A x \in mine : \E k \in DOMAIN rows : rows[k] = x
        /\ \A j, k \in DOMAIN rows : j < k => <<rows[j], rows[k]>> \in BeforeOn(mine)
    BY <2>1, SortedFacts
  <2> HIDE DEF rows, n
  <2> QED BY <2>2
<1>2. Sorted(mine, Before) = rows
  BY SortedIsBefore
<1>3. parts = Parts(rows, Starts(load))
  BY <1>2 DEF PartsOf
<1>4. DOMAIN load = 1..n
  BY <1>1 DEF Load
<1> HIDE DEF rows, n, load, parts
<1>5. Blocks(parts, rows, n)
  <2>1. n \in Nat /\ DOMAIN rows = 1..n
    BY <1>1
  <2> QED BY <2>1, <1>3, <1>4, PartsFacts, Zenon
<1>6. \A k \in DOMAIN parts : parts[k] \subseteq mine
  BY <1>1, <1>5 DEF Blocks
<1>7. \A r \in mine : \E k \in DOMAIN parts : r \in parts[k]
  BY <1>1, <1>5 DEF Blocks
<1>8. ASSUME NEW j \in DOMAIN parts, NEW k \in DOMAIN parts, j < k,
             NEW x \in parts[j], NEW y \in parts[k]
      PROVE  Before(x, y)
  <2>1. \A u \in parts[j], v \in parts[k] : \E i, l \in 1..n : i < l /\ u = rows[i] /\ v = rows[l]
    BY <1>5, <1>8, Zenon DEF Blocks
  <2>2. PICK i, l \in 1..n : i < l /\ x = rows[i] /\ y = rows[l]
    BY <2>1, Zenon
  <2>3. <<x, y>> \in BeforeOn(mine)
    BY <2>2, <1>1
  <2> QED BY <2>3 DEF BeforeOn
<1>9. Divided(parts, mine)
  BY <1>5, <1>6, <1>7, <1>8 DEF Divided, Blocks
<1> QED BY <1>9 DEF parts

\* The candidates of an episode.
Mine(ep, raws) == {r \in raws : EpOf(r) = ep}

(***************************************************************************)
(* The packages of an episode: its parts with their windows.               *)
(***************************************************************************)
LEMMA EpisodePackagesIs ==
    ASSUME NEW ep, NEW raws, NEW locked, NEW cuts, NEW parts, parts = PartsOf(Mine(ep, raws), ep),
           NEW W, W = Windows(parts, ep, locked, cuts)
    PROVE  \E fig : EpisodePackages(ep, raws, locked, cuts)
                      = {[cues |-> parts[k], window |-> W[k], figures |-> fig[k]] : k \in DOMAIN parts}
<1> DEFINE mine == Mine(ep, raws)
           required == {f \in Figures : FirstSeen[f] = ep}
           carried(r) == {f \in required : r \in Carriers(mine, f)}
           orphans == {f \in required : Carriers(mine, f) = {}}
           fig == [k \in DOMAIN parts |->
                     UNION {carried(r) : r \in parts[k]} \cup (IF k = 1 THEN orphans ELSE {})]
<1>1. EpisodePackages(ep, raws, locked, cuts)
        = {[cues |-> parts[k], window |-> W[k],
            figures |-> UNION {carried(r) : r \in parts[k]} \cup (IF k = 1 THEN orphans ELSE {})] :
             k \in DOMAIN parts}
  BY DEF EpisodePackages, PartsOf, Load, Mine
<1>2. \A k \in DOMAIN parts :
         fig[k] = UNION {carried(r) : r \in parts[k]} \cup (IF k = 1 THEN orphans ELSE {})
  OBVIOUS
<1> DEFINE a(k) == [cues |-> parts[k], window |-> W[k],
                    figures |-> UNION {carried(r) : r \in parts[k]} \cup (IF k = 1 THEN orphans ELSE {})]
           b(k) == [cues |-> parts[k], window |-> W[k], figures |-> fig[k]]
<1>3. EpisodePackages(ep, raws, locked, cuts) = {b(k) : k \in DOMAIN parts}
  <2>1. \A k \in DOMAIN parts : a(k) = b(k)
    <3> HIDE DEF fig, carried, orphans
    <3> QED BY <1>2
  <2>2. EpisodePackages(ep, raws, locked, cuts) = {a(k) : k \in DOMAIN parts}
    BY <1>1
  <2> HIDE DEF a, b
  <2> QED BY <2>1, <2>2
<1> QED BY <1>3

\* A package of candidates and the lines it may use.
Sound(p, raws, locked, cuts) ==
    /\ p.cues # {} /\ p.cues \subseteq raws /\ p.window \subseteq Lines(cuts)
    /\ \A c \in locked : c.id \in Ids(p.cues) /\ c.at \in Lines(cuts) => c.at \in p.window

\* A package that stays in its episode.
InEpisode(p, ep) == (\A r \in p.cues : EpOf(r) = ep) /\ (\A s \in p.window : EpisodeOf[s] = ep)

\* The packages of an episode: sound, in order, with every candidate in one.
Laid(E, ep, raws, locked, cuts) ==
    /\ IsFiniteSet(E)
    /\ \A p \in E : Sound(p, raws, locked, cuts) /\ InEpisode(p, ep)
    /\ \A p, q \in E : p = q \/ Follows(p, q) \/ Follows(q, p)
    /\ \A r \in Mine(ep, raws) : \E p \in E : r \in p.cues

(***************************************************************************)
(* Within an episode, packages follow each other in candidates and in      *)
(* windows.                                                                *)
(***************************************************************************)
LEMMA EpisodeLaid ==
    ASSUME NEW raws, IsFiniteSet(raws), Candidates(raws), NEW locked, InPlace(raws, locked),
           NEW cuts, NEW ep
    PROVE  Laid(EpisodePackages(ep, raws, locked, cuts), ep, raws, locked, cuts)
<1> DEFINE mine == Mine(ep, raws)
           parts == PartsOf(mine, ep)
           W == Windows(parts, ep, locked, cuts)
           E == EpisodePackages(ep, raws, locked, cuts)
<1>1. /\ mine \subseteq raws /\ IsFiniteSet(mine) /\ Candidates(mine) /\ InPlace(mine, locked)
      /\ \A r \in mine : EpOf(r) = ep
  <2>1. mine \in SUBSET raws /\ \A r \in mine : EpOf(r) = ep
    BY DEF Mine
  <2> HIDE DEF mine
  <2> QED BY <2>1, FS_Subset DEF Candidates, Distinct, Placeable, InPlace
<1>2. PICK fig : E = {[cues |-> parts[k], window |-> W[k], figures |-> fig[k]] : k \in DOMAIN parts}
  BY EpisodePackagesIs
<1> HIDE DEF mine
<1>3. Divided(parts, mine)
  BY <1>1, MineDivided
<1> HIDE DEF parts, W, E
<1>4. W = Windows(parts, ep, locked, cuts)
  BY DEF W
<1>5. /\ DOMAIN W = DOMAIN parts
      /\ \A k \in DOMAIN parts : \A s \in W[k] : s \in Lines(cuts) /\ EpisodeOf[s] = ep
      /\ \A j, k \in DOMAIN parts : j < k => \A s \in W[j], t \in W[k] : s <= t
      /\ \A k \in DOMAIN parts : \A c \in locked :
           c.id \in Ids(parts[k]) /\ c.at \in Lines(cuts) /\ EpisodeOf[c.at] = ep => c.at \in W[k]
  BY <1>1, <1>3, <1>4, WindowsFacts
<1> DEFINE pack == [k \in DOMAIN parts |-> [cues |-> parts[k], window |-> W[k], figures |-> fig[k]]]
<1>6. E = {pack[k] : k \in DOMAIN parts}
  BY <1>2
<1>7. \A k \in DOMAIN parts : pack[k].cues = parts[k] /\ pack[k].window = W[k]
  OBVIOUS
<1>8. DOMAIN pack = DOMAIN parts
  OBVIOUS
<1> HIDE DEF pack
<1>9. IsFiniteSet(E)
  <2>1. IsFiniteSet(DOMAIN parts)
    <3>1. Len(parts) \in Nat /\ DOMAIN parts = 1..Len(parts)
      BY <1>3 DEF Divided
    <3>2. IsFiniteSet(1..Len(parts))
      BY <3>1, FS_Interval
    <3> QED BY <3>1, <3>2
  <2> QED BY <2>1, <1>6, <1>8, FiniteImage
<1>10. ASSUME NEW k \in DOMAIN parts
       PROVE  Sound(pack[k], raws, locked, cuts) /\ InEpisode(pack[k], ep)
  <2>1. parts[k] # {} /\ parts[k] \subseteq mine
    BY <1>3 DEF Divided
  <2>2. ASSUME NEW c \in locked, c.id \in Ids(parts[k]), c.at \in Lines(cuts) PROVE c.at \in W[k]
    <3>1. PICK r \in parts[k] : r.id = c.id
      BY <2>2 DEF Ids
    <3>2. r.home = c.at /\ EpOf(r) = ep
      BY <3>1, <2>1, <1>1 DEF InPlace
    <3> QED BY <3>2, <2>2, <1>5 DEF EpOf
  <2>3. W[k] \subseteq Lines(cuts) /\ \A s \in W[k] : EpisodeOf[s] = ep
    BY <1>5
  <2> QED BY <2>1, <2>2, <2>3, <1>1, <1>7 DEF Sound, InEpisode
<1>11. ASSUME NEW j \in DOMAIN parts, NEW k \in DOMAIN parts, j < k PROVE Follows(pack[j], pack[k])
  <2>1. \A x \in parts[j], y \in parts[k] : Before(x, y)
    BY <1>3, <1>11, Zenon DEF Divided
  <2>2. \A s \in W[j], t \in W[k] : s <= t
    BY <1>5, <1>11, Zenon
  <2> QED BY <2>1, <2>2, <1>7 DEF Follows
<1>12. ASSUME NEW p \in E, NEW q \in E PROVE p = q \/ Follows(p, q) \/ Follows(q, p)
  <2>1. PICK j \in DOMAIN parts : p = pack[j]
    BY <1>6
  <2>2. PICK k \in DOMAIN parts : q = pack[k]
    BY <1>6
  <2>3. j \in Int /\ k \in Int
    BY <1>3 DEF Divided
  <2>4. CASE j = k
    BY <2>1, <2>2, <2>4
  <2>5. CASE j < k
    BY <2>1, <2>2, <2>5, <1>11
  <2>6. CASE k < j
    BY <2>1, <2>2, <2>6, <1>11
  <2> QED BY <2>3, <2>4, <2>5, <2>6
<1>13. ASSUME NEW r \in mine PROVE \E p \in E : r \in p.cues
  <2>1. PICK k \in DOMAIN parts : r \in parts[k]
    BY <1>3 DEF Divided
  <2> QED BY <2>1, <1>6, <1>7
<1>14. \A p \in E : Sound(p, raws, locked, cuts) /\ InEpisode(p, ep)
  BY <1>6, <1>10
<1>15. Laid(E, ep, raws, locked, cuts)
  BY <1>9, <1>12, <1>13, <1>14 DEF Laid, mine
<1> QED BY <1>15 DEF E

\* The packages of all episodes, and those that have a line to use.
Precedes(p, q) == \A r \in p.cues, x \in q.cues : Before(r, x)
All(raws, locked, cuts) == UNION {EpisodePackages(ep, raws, locked, cuts) : ep \in Episodes}
Usable(raws, locked, cuts) == {p \in All(raws, locked, cuts) : p.window # {}}

\* What the packages of a run are.
Ranged(P, raws, locked, cuts) ==
    /\ Len(P) \in Nat /\ DOMAIN P = 1..Len(P)
    /\ \A k \in DOMAIN P : Sound(P[k], raws, locked, cuts)
    /\ \A j, k \in DOMAIN P : j < k => Follows(P[j], P[k])
    /\ \A r \in raws : \A c \in locked :
          c.id = r.id /\ c.at \in Lines(cuts) => \E k \in DOMAIN P : r \in P[k].cues

(***************************************************************************)
(* So they do across episodes, whose moments follow each other.            *)
(***************************************************************************)
LEMMA AllFollow ==
    ASSUME NEW raws, IsFiniteSet(raws), Candidates(raws), NEW locked, InPlace(raws, locked), NEW cuts
    PROVE  /\ IsFiniteSet(All(raws, locked, cuts))
           /\ \A p \in All(raws, locked, cuts) : Sound(p, raws, locked, cuts)
           /\ \A p, q \in All(raws, locked, cuts) : p = q \/ Follows(p, q) \/ Follows(q, p)
           /\ \A r \in raws : \E p \in All(raws, locked, cuts) : r \in p.cues
<1> DEFINE E(ep) == EpisodePackages(ep, raws, locked, cuts)
           A == All(raws, locked, cuts)
<1>1. \A ep : Laid(E(ep), ep, raws, locked, cuts)
  BY EpisodeLaid
<1>2. \A p : p \in A <=> \E ep \in Episodes : p \in E(ep)
  BY DEF All
<1>3. IsFiniteSet(A)
  <2> DEFINE f == [s \in Moments |-> E(EpisodeOf[s])]
             S == {f[s] : s \in Moments}
  <2>1. DOMAIN f = Moments /\ \A s \in Moments : f[s] = E(EpisodeOf[s])
    OBVIOUS
  <2>2. S = {E(ep) : ep \in Episodes}
    <3>1. \A ep : ep \in Episodes <=> \E s \in Moments : ep = EpisodeOf[s]
      <4>1. DOMAIN EpisodeOf = Moments
        BY PackageAssumption, LenProperties DEF Moments
      <4> QED BY <4>1 DEF Episodes, Range
    <3> HIDE DEF E, f
    <3> QED BY <2>1, <3>1
  <2> HIDE DEF f
  <2>3. IsFiniteSet(S)
    BY <2>1, Time, FiniteImage
  <2>4. \A T \in S : IsFiniteSet(T)
    <3>1. \A ep : IsFiniteSet(E(ep))
      BY <1>1 DEF Laid
    <3> HIDE DEF E
    <3> QED BY <2>1, <3>1
  <2>5. A = UNION S
    BY <2>2 DEF All
  <2> HIDE DEF S
  <2>6. IsFiniteSet(UNION S)
    BY <2>3, <2>4, FS_UNION
  <2> QED BY <2>5, <2>6
<1>4. ASSUME NEW p \in A PROVE Sound(p, raws, locked, cuts)
  BY <1>1, <1>2 DEF Laid
<1>5. ASSUME NEW r \in raws PROVE \E p \in A : r \in p.cues
  <2>1. EpOf(r) \in Episodes
    BY Time DEF Candidates, Placeable, EpOf
  <2>2. r \in Mine(EpOf(r), raws)
    BY DEF Mine
  <2> QED BY <2>1, <2>2, <1>1, <1>2 DEF Laid
<1>6. ASSUME NEW p \in A, NEW q \in A, NEW a \in Episodes, NEW b \in Episodes,
             p \in E(a), q \in E(b), a < b
      PROVE  Follows(p, q)
  <2>1. InEpisode(p, a) /\ InEpisode(q, b) /\ Sound(p, raws, locked, cuts) /\ Sound(q, raws, locked, cuts)
    BY <1>1, <1>6 DEF Laid
  <2>2. ASSUME NEW x \in p.cues, NEW y \in q.cues PROVE Before(x, y)
    <3>1. x.home \in Moments /\ y.home \in Moments
      BY <2>1 DEF Sound, Candidates, Placeable
    <3>2. EpisodeOf[x.home] = a /\ EpisodeOf[y.home] = b
      BY <2>1 DEF InEpisode, EpOf
    <3>3. x.home < y.home
      BY <3>1, <3>2, <1>6, Time
    <3> QED BY <3>3 DEF Before
  <2>3. ASSUME NEW s \in p.window, NEW t \in q.window PROVE s <= t
    <3>1. s \in Moments /\ t \in Moments
      BY <2>1 DEF Sound, Lines
    <3>2. EpisodeOf[s] = a /\ EpisodeOf[t] = b
      BY <2>1 DEF InEpisode
    <3>3. s < t
      BY <3>1, <3>2, <1>6, Time
    <3>4. s \in Int /\ t \in Int
      BY <3>1 DEF Moments
    <3> QED BY <3>3, <3>4
  <2> QED BY <2>2, <2>3 DEF Follows
<1>7. ASSUME NEW p \in A, NEW q \in A PROVE p = q \/ Follows(p, q) \/ Follows(q, p)
  <2>1. PICK a \in Episodes : p \in E(a)
    BY <1>2
  <2>2. PICK b \in Episodes : q \in E(b)
    BY <1>2
  <2>3. a \in Nat /\ b \in Nat
    BY PackageAssumption, LenProperties, ElementOfSeq DEF Episodes, Range
  <2>4. CASE a = b
    BY <2>1, <2>2, <2>4, <1>1 DEF Laid
  <2>5. CASE a < b
    BY <2>1, <2>2, <2>5, <1>6
  <2>6. CASE b < a
    BY <2>1, <2>2, <2>6, <1>6
  <2> QED BY <2>3, <2>4, <2>5, <2>6
<1> QED BY <1>3, <1>4, <1>5, <1>7

-----------------------------------------------------------------------------
(* ... and of a run. *)

\* The order of packages.
PrecedesOn(S) == {p \in S \X S : Precedes(p[1], p[2])}

(***************************************************************************)
(* The packages of a run are sorted by their candidates.                   *)
(***************************************************************************)
LEMMA SortedIsPrecedes ==
    ASSUME NEW S
    PROVE  Sorted(S, LAMBDA p, q : \A r \in p.cues, x \in q.cues : Before(r, x)) = SortedBy(S, PrecedesOn(S))
<1> DEFINE a(k) == CHOOSE x \in S : Cardinality({y \in S : Precedes(y, x)}) = k - 1
           b(k) == CHOOSE x \in S : Cardinality(Lower(x, PrecedesOn(S), S)) = k - 1
<1>1. \A x \in S : {y \in S : Precedes(y, x)} = Lower(x, PrecedesOn(S), S)
  BY DEF Lower, PrecedesOn
<1>2. \A k : a(k) = b(k)
  BY <1>1
<1>3. Sorted(S, LAMBDA p, q : \A r \in p.cues, x \in q.cues : Before(r, x))
        = [k \in 1..Cardinality(S) |-> a(k)]
  BY DEF Sorted, Precedes
<1>4. SortedBy(S, PrecedesOn(S)) = [k \in 1..Cardinality(S) |-> b(k)]
  BY DEF SortedBy
<1> HIDE DEF a, b
<1> QED BY <1>2, <1>3, <1>4

(***************************************************************************)
(* The packages of a run follow each other, in candidates and in windows,  *)
(* and every locked comment at a usable line belongs to one of them.       *)
(***************************************************************************)
LEMMA PackagesRanged ==
    ASSUME NEW raws, IsFiniteSet(raws), Candidates(raws), NEW locked, InPlace(raws, locked), NEW cuts
    PROVE  Ranged(Packages(raws, locked, cuts), raws, locked, cuts)
<1> DEFINE S == Usable(raws, locked, cuts)
           P == Packages(raws, locked, cuts)
           R == PrecedesOn(S)
<1>1. /\ IsFiniteSet(S)
      /\ \A p \in S : Sound(p, raws, locked, cuts) /\ p.window # {}
      /\ \A p, q \in S : p = q \/ Follows(p, q) \/ Follows(q, p)
      /\ \A p \in All(raws, locked, cuts) : p.window # {} => p \in S
      /\ \A r \in raws : \E p \in All(raws, locked, cuts) : r \in p.cues /\ Sound(p, raws, locked, cuts)
  <2>1. S \in SUBSET All(raws, locked, cuts) /\ \A p : p \in S <=> p \in All(raws, locked, cuts) /\ p.window # {}
    BY DEF Usable
  <2>2. /\ IsFiniteSet(All(raws, locked, cuts))
        /\ \A p \in All(raws, locked, cuts) : Sound(p, raws, locked, cuts)
        /\ \A p, q \in All(raws, locked, cuts) : p = q \/ Follows(p, q) \/ Follows(q, p)
        /\ \A r \in raws : \E p \in All(raws, locked, cuts) : r \in p.cues
    BY AllFollow
  <2>3. IsFiniteSet(S)
    BY <2>1, <2>2, FS_Subset
  <2> HIDE DEF S
  <2> QED BY <2>1, <2>2, <2>3
<1>2. P = SortedBy(S, R)
  BY SortedIsPrecedes DEF Packages, Usable, All
<1> HIDE DEF S, P
<1>3. \A x, y \in S : <<x, y>> \in R <=> Precedes(x, y)
  BY DEF PrecedesOn
<1> HIDE DEF R
<1>4. Orders(BeforeOn(raws), raws)
  BY BeforeOrders
<1>5. /\ \A x \in raws : ~Before(x, x)
      /\ \A x, y, z \in raws : Before(x, y) /\ Before(y, z) => Before(x, z)
  BY <1>4 DEF Orders, BeforeOn
<1>6. \A p \in S : p.cues # {} /\ p.cues \subseteq raws
  BY <1>1 DEF Sound
<1>7. ASSUME NEW p \in S, NEW q \in S, Precedes(p, q) PROVE p # q /\ Follows(p, q)
  <2>1. PICK x \in p.cues : TRUE
    BY <1>6
  <2>2. PICK y \in q.cues : TRUE
    BY <1>6
  <2>3. Before(x, y) /\ x \in raws /\ y \in raws
    BY <1>6, <1>7 DEF Precedes
  <2>4. ~Before(y, x)
    BY <2>3, <1>5
  <2>5. ~Follows(q, p) /\ p # q
    <3>1. ~Follows(q, p)
      BY <2>1, <2>2, <2>4 DEF Follows
    <3>2. p # q
      BY <2>1, <2>3, <1>5, <1>7 DEF Precedes
    <3> QED BY <3>1, <3>2
  <2> QED BY <2>5, <1>1
<1>8. Orders(R, S)
  <2>1. ASSUME NEW x \in S PROVE <<x, x>> \notin R
    BY <1>3, <1>7
  <2>2. ASSUME NEW x \in S, NEW y \in S, NEW z \in S, <<x, y>> \in R, <<y, z>> \in R
        PROVE  <<x, z>> \in R
    <3>1. Precedes(x, y) /\ Precedes(y, z)
      BY <2>2, <1>3
    <3>2. ASSUME NEW r \in x.cues, NEW u \in z.cues PROVE Before(r, u)
      <4>1. PICK v \in y.cues : TRUE
        BY <1>6
      <4>2. Before(r, v) /\ Before(v, u) /\ r \in raws /\ v \in raws /\ u \in raws
        BY <4>1, <3>1, <1>6 DEF Precedes
      <4> QED BY <4>2, <1>5
    <3> QED BY <3>2, <1>3 DEF Precedes
  <2>3. ASSUME NEW x \in S, NEW y \in S, x # y PROVE <<x, y>> \in R \/ <<y, x>> \in R
    <3>1. Follows(x, y) \/ Follows(y, x)
      BY <2>3, <1>1
    <3> QED BY <3>1, <1>3 DEF Follows, Precedes
  <2> QED BY <2>1, <2>2, <2>3 DEF Orders
<1>9. /\ Cardinality(S) \in Nat /\ DOMAIN P = 1..Cardinality(S) /\ Len(P) = Cardinality(S)
      /\ \A k \in DOMAIN P : P[k] \in S
      /\ \A x \in S : \E k \in DOMAIN P : P[k] = x
      /\ \A j, k \in DOMAIN P : j < k => <<P[j], P[k]>> \in R
  BY <1>1, <1>2, <1>8, SortedFacts
<1>10. ASSUME NEW j \in DOMAIN P, NEW k \in DOMAIN P, j < k PROVE Follows(P[j], P[k])
  <2>1. <<P[j], P[k]>> \in R
    BY <1>9, <1>10, Zenon
  <2> QED BY <2>1, <1>3, <1>7, <1>9
<1>11. ASSUME NEW r \in raws, NEW c \in locked, c.id = r.id, c.at \in Lines(cuts)
       PROVE  \E k \in DOMAIN P : r \in P[k].cues
  <2>1. PICK p \in All(raws, locked, cuts) : r \in p.cues /\ Sound(p, raws, locked, cuts)
    BY <1>1
  <2>2. c.at \in p.window
    BY <2>1, <1>11 DEF Sound, Ids
  <2>3. p \in S
    BY <2>2, <1>1
  <2> QED BY <2>1, <2>3, <1>9
<1>12. Ranged(P, raws, locked, cuts)
  BY <1>1, <1>9, <1>10, <1>11 DEF Ranged
<1> QED BY <1>12 DEF P

-----------------------------------------------------------------------------
(* The inductive invariant. *)

\* A candidate or a comment is what its number says.
Shaped(c) ==
    /\ c.id \in Nat
    /\ OfPassage(c.id) => c.src = {c.id} /\ c.figure = Nobody
    /\ OfFigure(c.id) => c.src = {} /\ c.figure \in Figures /\ c.id = FigureId(c.figure)

\* The comment of a gap is at the line it was made for, unless that line is cut by now.
AtItsGap(id, at) == OfGap(id) => at = id - GapIds \/ (heard /\ id - GapIds \in HeardCut)

\* The script: each number once, at lines that are spoken.
ScriptOk ==
    /\ IsFiniteSet(script) /\ Distinct(script)
    /\ \A c \in script :
         /\ c = [id |-> c.id, at |-> c.at, words |-> c.words, src |-> c.src, figure |-> c.figure]
         /\ c.at \in Moments \ Mute /\ Shaped(c) /\ AtItsGap(c.id, c.at)

\* A placement in the package it was asked for.
Inside(x, p) == x.at \in p.window /\ x.id \in Ids(p.cues)

\* An answer on disk keeps the contract of its package.
FileOk(f) ==
    /\ IsFiniteSet(f.answer.cut) /\ Distinct(f.answer.cut)
    /\ \A x \in f.answer.cut : Inside(x, f.payload.package) /\ AtItsGap(x.id, x.at)
    /\ f.payload.intros \subseteq f.answer.told

\* What a task asks of its packages.
PackagesOf(T) == Packages(T.raws, T.locked, T.cuts)
IdsOf(T, k) == Ids(PackagesOf(T)[k].cues)
AskedOf(T, k) == IF T.repairing THEN IdsOf(T, k) \cap T.asked ELSE IdsOf(T, k)
LockedOf(T, k) == {Placed(c) : c \in {c \in T.locked : c.id \in IdsOf(T, k) /\ c.at \notin T.cuts}}
IntrosOf(T, k) ==
    {i \in intros : T.repairing /\ i.cue \in Ids(script) /\ i.cue \in IdsOf(T, k) \ AskedOf(T, k)}

PayloadOf(T, k) ==
    [package |-> PackagesOf(T)[k], locked |-> LockedOf(T, k), intros |-> IntrosOf(T, k),
     asked |-> AskedOf(T, k), names |-> lexicon, reason |-> T.reason]

Answered(T, k) == AskedOf(T, k) = {} \/ \E f \in files : f.payload = PayloadOf(T, k)

\* What a broken run had finished is on disk.
BrokenOk ==
    /\ broken.next \in Nat
    /\ \A T \in broken.scope : \A k \in DOMAIN PackagesOf(T) : k < broken.next => Answered(T, k)

\* What a run has been started with.
Begun ==
    /\ run = [stage |-> "writing", raws |-> run.raws, asked |-> run.asked, locked |-> run.locked,
              intros |-> run.intros, repairing |-> run.repairing, reason |-> run.reason,
              packages |-> run.packages, next |-> run.next, done |-> run.done, told |-> run.told,
              found |-> run.found]
    /\ run.repairing \in BOOLEAN
    /\ IsFiniteSet(run.raws) /\ Candidates(run.raws)
    /\ \A r \in run.raws : Shaped(r) /\ AtItsGap(r.id, r.home)
    /\ InPlace(run.raws, run.locked)
    /\ run.locked \subseteq script
    /\ \A c \in run.locked : c.id \in Ids(run.raws) \ run.asked
    /\ \A r \in run.raws : \A c \in run.locked : r.id = c.id => r.src = c.src /\ r.figure = c.figure
    /\ ~run.repairing => run.locked = {} /\ run.intros = {}
    /\ run.packages = Packages(run.raws, run.locked, Cuts)

\* The introductions a repair keeps are those of what it does not ask for.
IntrosOk ==
    run.repairing =>
      /\ \A i \in run.intros : i \in intros /\ i.cue \in Ids(script)
      /\ \A i \in intros : i.cue \in Ids(script) /\ i.cue \in Ids(run.raws) \ run.asked => i \in run.intros

\* What is done: inside its packages, in time order, each number once.
DoneOk ==
    /\ run.next \in 1..Len(run.packages) + 1
    /\ run.done \in Seq(Range(run.done))
    /\ \A i \in DOMAIN run.done :
         /\ \E k \in DOMAIN run.packages : k < run.next /\ Inside(run.done[i], run.packages[k])
         /\ AtItsGap(run.done[i].id, run.done[i].at)
    /\ \A i, j \in DOMAIN run.done :
         i < j => run.done[i].at <= run.done[j].at /\ run.done[i].id # run.done[j].id

\* A finished package has given back what was locked in it.
Delivered ==
    \A k \in DOMAIN run.packages : k < run.next =>
      /\ LockedOf(Task, k) \subseteq Range(run.done)
      /\ IntrosOf(Task, k) \subseteq run.told
      /\ Answered(Task, k)

Writing == Begun /\ IntrosOk /\ DoneOk /\ Delivered

\* The invariant but for the run.
Around ==
    /\ begun \in Nat /\ heard \in BOOLEAN
    /\ ScriptOk
    /\ \A f \in files : FileOk(f)
    /\ BrokenOk

\* The inductive invariant.
IInv ==
    /\ Around
    /\ run.stage \in {"idle", "queued", "writing", "rendering"}
    /\ run.stage = "rendering" => broken = NotBroken
    /\ run.stage = "writing" => Writing

-----------------------------------------------------------------------------
(* The candidates a run begins with. *)

(***************************************************************************)
(* The numbers of passages, figures and gaps lie in ranges of their own,   *)
(* and no two figures share one.                                           *)
(***************************************************************************)
LEMMA Numbers ==
    /\ FigureIds \in Nat /\ GapIds \in Nat /\ FigureIds <= GapIds
    /\ \A p \in Passages : p \in 1..FigureIds
    /\ \A f \in Figures : HintAt[f] \in Moments /\ FigureId(f) \in FigureIds + 1..GapIds
    /\ \A f, g \in Figures : FigureId(f) = FigureId(g) => f = g
    /\ \A s \in Moments : s \in Nat /\ GapIds + s \in GapIds + 1..GapIds + Len(EpisodeOf)
<1>1. Len(EpisodeOf) \in Nat /\ Len(Homes) \in Nat /\ Moments = 1..Len(EpisodeOf)
  BY Time
<1>2. \A f \in Figures : HintAt[f] \in Moments
  BY PackageAssumption
<1>3. \A f, g \in Figures : HintAt[f] = HintAt[g] => f = g
  BY PackageAssumption
<1>4. FigureIds \in Nat /\ GapIds \in Nat /\ FigureIds <= GapIds
  BY <1>1 DEF FigureIds, GapIds
<1>5. \A p \in Passages : p \in 1..FigureIds
  BY DEF Passages, FigureIds
<1>6. \A f \in Figures : FigureId(f) \in FigureIds + 1..GapIds
  BY <1>1, <1>2, <1>4 DEF FigureId, GapIds
<1>7. \A f, g \in Figures : FigureId(f) = FigureId(g) => f = g
  BY <1>1, <1>2, <1>3, <1>4 DEF FigureId
<1>8. \A s \in Moments : s \in Nat /\ GapIds + s \in GapIds + 1..GapIds + Len(EpisodeOf)
  BY <1>1, <1>4
<1> QED BY <1>2, <1>4, <1>5, <1>6, <1>7, <1>8

(***************************************************************************)
(* There are finitely many candidates where their numbers are bounded.     *)
(***************************************************************************)
LEMMA FewIds ==
    ASSUME NEW S, Distinct(S), NEW a \in Nat, NEW b \in Nat, \A x \in S : x.id \in a..b
    PROVE  IsFiniteSet(S)
<1> DEFINE f == [x \in S |-> x.id]
<1>1. f \in Injection(S, a..b)
  <2>1. f \in [S -> a..b]
    OBVIOUS
  <2>2. \A x, y \in S : f[x] = f[y] => x = y
    BY DEF Distinct
  <2> HIDE DEF f
  <2> QED BY <2>1, <2>2 DEF Injection, IsInjective
<1>2. IsFiniteSet(a..b)
  BY FS_Interval
<1> QED BY <1>1, <1>2, FS_Injection

\* The candidates a run begins with: one for a passage, or one for a figure.
Fresh(r) ==
    \/ \E p \in Passages : r = Raw(p, Homes[p], {p}, Nobody, Original)
    \/ \E f \in Figures : r = Raw(FigureId(f), HintAt[f], {}, f, Original)

(***************************************************************************)
(* A fresh candidate is known by its number.                               *)
(***************************************************************************)
LEMMA FreshFacts ==
    ASSUME NEW r, Fresh(r)
    PROVE  /\ r.id \in 1..GapIds /\ r.home \in Moments /\ Shaped(r) /\ ~OfGap(r.id)
           /\ \A q : Fresh(q) /\ q.id = r.id => q = r
<1>1. CASE \E p \in Passages : r = Raw(p, Homes[p], {p}, Nobody, Original)
  <2>1. PICK p \in Passages : r = Raw(p, Homes[p], {p}, Nobody, Original)
    BY <1>1
  <2>2. r.id = p /\ r.home = Homes[p] /\ r.src = {p} /\ r.figure = Nobody
    BY <2>1 DEF Raw
  <2>3. p \in 1..FigureIds /\ FigureIds \in Nat /\ GapIds \in Nat /\ FigureIds <= GapIds
    BY Numbers
  <2>4. r.id \in 1..GapIds /\ ~OfGap(r.id) /\ ~OfFigure(r.id)
    BY <2>2, <2>3 DEF OfGap, OfFigure
  <2>5. r.home \in Moments
    BY <2>2, Time
  <2>6. Shaped(r)
    BY <2>2, <2>4 DEF Shaped
  <2>7. ASSUME NEW q, Fresh(q), q.id = r.id PROVE q = r
    <3>1. ASSUME NEW f \in Figures, q = Raw(FigureId(f), HintAt[f], {}, f, Original) PROVE FALSE
      <4>1. q.id = FigureId(f)
        BY <3>1 DEF Raw
      <4>2. FigureId(f) \in FigureIds + 1..GapIds
        BY Numbers
      <4> QED BY <4>1, <4>2, <2>2, <2>3, <2>7
    <3>2. PICK o \in Passages : q = Raw(o, Homes[o], {o}, Nobody, Original)
      BY <2>7, <3>1 DEF Fresh
    <3>3. q.id = o
      BY <3>2 DEF Raw
    <3> QED BY <3>2, <3>3, <2>1, <2>2, <2>7
  <2> QED BY <2>4, <2>5, <2>6, <2>7
<1>2. CASE \E f \in Figures : r = Raw(FigureId(f), HintAt[f], {}, f, Original)
  <2>1. PICK f \in Figures : r = Raw(FigureId(f), HintAt[f], {}, f, Original)
    BY <1>2
  <2>2. r.id = FigureId(f) /\ r.home = HintAt[f] /\ r.src = {} /\ r.figure = f
    BY <2>1 DEF Raw
  <2>3. FigureId(f) \in FigureIds + 1..GapIds /\ FigureIds \in Nat /\ GapIds \in Nat /\ HintAt[f] \in Moments
    BY Numbers
  <2>4. r.id \in 1..GapIds /\ ~OfGap(r.id) /\ ~OfPassage(r.id)
    BY <2>2, <2>3 DEF OfGap, OfPassage
  <2>5. r.home \in Moments
    BY <2>2, <2>3
  <2>6. Shaped(r)
    BY <2>2, <2>4 DEF Shaped
  <2>7. ASSUME NEW q, Fresh(q), q.id = r.id PROVE q = r
    <3>1. ASSUME NEW p \in Passages, q = Raw(p, Homes[p], {p}, Nobody, Original) PROVE FALSE
      <4>1. q.id = p
        BY <3>1 DEF Raw
      <4>2. p \in 1..FigureIds
        BY Numbers
      <4> QED BY <4>1, <4>2, <2>2, <2>3, <2>7
    <3>2. PICK g \in Figures : q = Raw(FigureId(g), HintAt[g], {}, g, Original)
      BY <2>7, <3>1 DEF Fresh
    <3>3. q.id = FigureId(g)
      BY <3>2 DEF Raw
    <3>4. g = f
      BY <3>3, <2>2, <2>7, Numbers
    <3> QED BY <3>2, <3>4, <2>1
  <2> QED BY <2>4, <2>5, <2>6, <2>7
<1> QED BY <1>1, <1>2 DEF Fresh

(***************************************************************************)
(* Those of a rewrite, and of a repair without a coverage plan, are fresh. *)
(***************************************************************************)
LEMMA StartIsFresh ==
    ASSUME NEW repairing, NEW force, NEW r \in FreshRaws \cup FigureRaws(script, intros, repairing, force)
    PROVE  Fresh(r)
<1>1. CASE r \in FreshRaws
  BY <1>1 DEF FreshRaws, Fresh
<1>2. CASE r \in FigureRaws(script, intros, repairing, force)
  <2>1. \E f \in Figures : r = Raw(FigureId(f), HintAt[f], {}, f, Original)
    BY <1>2 DEF FigureRaws
  <2> QED BY <2>1 DEF Fresh
<1> QED BY <1>1, <1>2

-----------------------------------------------------------------------------
(* The candidates that fill gaps. *)

\* What closes a stretch from a moment on.
InReach(from, w, taken, cuts) ==
    {s \in Lines(cuts) \ taken :
        from < s /\ s < w[2] /\ Heard(s, cuts) <= Heard(from, cuts) + MaxGap - 2}

IsClosed(from, w, cuts) == Heard(w[2], cuts) - Heard(from, cuts) <= MaxGap - 1
FillBy(h, w, taken, cuts) ==
    [from \in 0..Len(EpisodeOf) |->
        IF IsClosed(from, w, cuts) THEN {}
        ELSE IF InReach(from, w, taken, cuts) = {} THEN {0}
        ELSE {Max(InReach(from, w, taken, cuts))} \cup h[Max(InReach(from, w, taken, cuts))]]

(***************************************************************************)
(* The recursive function that Closing stands for.                         *)
(***************************************************************************)
LEMMA ClosingIs ==
    ASSUME NEW w, NEW taken, NEW cuts
    PROVE  Closing(w, taken, cuts) = (CHOOSE h : h = FillBy(h, w, taken, cuts))[w[1]]
BY DEF Closing, FillBy, InReach, IsClosed

(***************************************************************************)
(* The last line in reach is one of those in reach.                        *)
(***************************************************************************)
LEMMA InReachFacts ==
    ASSUME NEW w, NEW taken, NEW cuts, NEW from, InReach(from, w, taken, cuts) # {}
    PROVE  LET s == Max(InReach(from, w, taken, cuts)) IN
             s \in Lines(cuts) \ taken /\ from < s /\ s < w[2] /\ s \in 1..Len(EpisodeOf)
<1> DEFINE S == InReach(from, w, taken, cuts)
<1>1. S \subseteq Moments /\ \A s \in S : s \in Lines(cuts) \ taken /\ from < s /\ s < w[2]
  BY DEF InReach, Lines
<1> HIDE DEF S
<1>2. S # {}
  BY DEF S
<1>3. Max(S) \in S
  BY <1>1, <1>2, Extremes
<1>4. Max(S) \in 1..Len(EpisodeOf)
  BY <1>1, <1>3 DEF Moments
<1> QED BY <1>1, <1>3, <1>4 DEF S

(***************************************************************************)
(* The recursive function exists: each step goes on from a later line.     *)
(***************************************************************************)
LEMMA FillExists ==
    ASSUME NEW w, NEW taken, NEW cuts
    PROVE  \E h : h = FillBy(h, w, taken, cuts)
<1> DEFINE L == Len(EpisodeOf)
           D == 0..L
           B == SUBSET D
           closed(x) == IsClosed(x, w, cuts)
           reach(x) == InReach(x, w, taken, cuts)
           m == [x \in D |-> L - x]
           leaf == {x \in D : closed(x) \/ reach(x) = {}}
           base == [x \in D |-> IF closed(x) THEN {} ELSE {0}]
           nx == [x \in D |-> IF x \in leaf THEN x ELSE Max(reach(x))]
           g == [p \in D \X B |-> {nx[p[1]]} \cup p[2]]
<1>1. L \in Nat
  BY Time
<1>2. \A x \in D : reach(x) # {} => Max(reach(x)) \in 1..L /\ x < Max(reach(x))
  BY InReachFacts
<1> HIDE DEF L, closed, reach
<1>3. m \in [D -> 0..L] /\ leaf \in SUBSET D /\ base \in [D -> B]
  BY <1>1
<1>4. nx \in [D -> D] /\ \A x \in D \ leaf : x < nx[x] /\ nx[x] = Max(reach(x))
  BY <1>1, <1>2
<1>5. g \in [D \X B -> B] /\ \A x \in D : \A T \in B : g[x, T] = {nx[x]} \cup T
  <2> HIDE DEF nx
  <2>1. \A p \in D \X B : {nx[p[1]]} \cup p[2] \in B
    BY <1>4
  <2>2. g \in [D \X B -> B]
    BY <2>1
  <2>3. ASSUME NEW x \in D, NEW T \in B PROVE g[x, T] = {nx[x]} \cup T
    <3>1. <<x, T>> \in D \X B
      OBVIOUS
    <3> QED BY <3>1
  <2> QED BY <2>2, <2>3
<1>6. \A x \in D \ leaf : m[nx[x]] < m[x]
  <2> HIDE DEF nx, leaf
  <2> QED BY <1>1, <1>4
<1>7. \A x \in D : base[x] = (IF closed(x) THEN {} ELSE {0}) /\ (x \in leaf <=> closed(x) \/ reach(x) = {})
  OBVIOUS
<1> HIDE DEF m, leaf, base, nx, g
<1>8. Recursive(D, B, L, m, leaf, base, nx, g)
  BY <1>1, <1>3, <1>4, <1>5, <1>6 DEF Recursive
<1>9. \E f : Solves(f, D, B, leaf, base, nx, g)
  BY <1>8, Recursion, Zenon
<1>10. PICK f : f \in [D -> B] /\ \A x \in D : f[x] = IF x \in leaf THEN base[x] ELSE g[x, f[nx[x]]]
  BY <1>9 DEF Solves
<1>11. ASSUME NEW x \in D
       PROVE  f[x] = IF closed(x) THEN {} ELSE IF reach(x) = {} THEN {0}
                     ELSE {Max(reach(x))} \cup f[Max(reach(x))]
  <2>1. CASE x \in leaf
    BY <2>1, <1>7, <1>10
  <2>2. CASE x \notin leaf
    <3>1. nx[x] \in D /\ nx[x] = Max(reach(x)) /\ f[nx[x]] \in B
      BY <2>2, <1>4, <1>10
    <3>2. f[x] = {nx[x]} \cup f[nx[x]]
      BY <2>2, <3>1, <1>5, <1>10
    <3> QED BY <3>1, <3>2, <2>2, <1>7
  <2> QED BY <2>1, <2>2
<1>12. f = [x \in D |-> f[x]]
  BY <1>10
<1>13. f = [x \in D |-> IF closed(x) THEN {} ELSE IF reach(x) = {} THEN {0}
                          ELSE {Max(reach(x))} \cup f[Max(reach(x))]]
  <2> DEFINE a(x) == IF closed(x) THEN {} ELSE IF reach(x) = {} THEN {0}
                       ELSE {Max(reach(x))} \cup f[Max(reach(x))]
  <2>1. \A x \in D : f[x] = a(x)
    BY <1>11
  <2> HIDE DEF a
  <2>2. f = [x \in D |-> a(x)]
    BY <2>1, <1>12
  <2> QED BY <2>2 DEF a
<1>14. f = FillBy(f, w, taken, cuts)
  BY <1>13 DEF FillBy, closed, reach, L
<1> QED BY <1>14

(***************************************************************************)
(* A stretch is closed at usable lines of its own that no comment has, or  *)
(* not at all (coverage_gap_repair_ids).                                   *)
(***************************************************************************)
LEMMA ClosingFacts ==
    ASSUME NEW w, w[1] \in 0..Len(EpisodeOf), NEW taken, NEW cuts
    PROVE  \A s \in Closing(w, taken, cuts) :
             s = 0 \/ (s \in Lines(cuts) \ taken /\ w[1] < s /\ s < w[2])
<1> DEFINE L == Len(EpisodeOf)
           h == CHOOSE h : h = FillBy(h, w, taken, cuts)
           ok(x) == {0} \cup {s \in Lines(cuts) \ taken : x < s /\ s < w[2]}
           bad == {n \in Nat : \E x \in 0..L : L - x = n /\ ~(h[x] \subseteq ok(x))}
<1>1. h = FillBy(h, w, taken, cuts)
  BY FillExists
<1>2. Closing(w, taken, cuts) = h[w[1]]
  BY ClosingIs
<1>3. L \in Nat
  BY Time
<1> HIDE DEF h, L
<1>4. ASSUME NEW x \in 0..L
      PROVE  \/ h[x] \subseteq {0}
             \/ \E y \in 1..L : /\ y \in Lines(cuts) \ taken /\ x < y /\ y < w[2]
                                /\ h[x] = {y} \cup h[y]
  <2>1. h[x] = IF IsClosed(x, w, cuts) THEN {}
               ELSE IF InReach(x, w, taken, cuts) = {} THEN {0}
               ELSE {Max(InReach(x, w, taken, cuts))} \cup h[Max(InReach(x, w, taken, cuts))]
    BY <1>1 DEF FillBy, L
  <2>2. CASE IsClosed(x, w, cuts) \/ InReach(x, w, taken, cuts) = {}
    BY <2>1, <2>2
  <2>3. CASE ~IsClosed(x, w, cuts) /\ InReach(x, w, taken, cuts) # {}
    <3> DEFINE y == Max(InReach(x, w, taken, cuts))
    <3>1. y \in Lines(cuts) \ taken /\ x < y /\ y < w[2] /\ y \in 1..L
      BY <2>3, InReachFacts DEF L
    <3>2. h[x] = {y} \cup h[y]
      BY <2>1, <2>3
    <3> HIDE DEF y
    <3> QED BY <3>1, <3>2
  <2> QED BY <2>2, <2>3
<1>5. bad = {}
  <2> SUFFICES ASSUME bad # {} PROVE FALSE
    OBVIOUS
  <2>1. bad \subseteq Nat
    OBVIOUS
  <2>2. PICK n \in bad : \A o \in bad : n <= o
    BY <2>1, HasLeast
  <2>3. PICK x \in 0..L : L - x = n /\ ~(h[x] \subseteq ok(x))
    BY <2>2
  <2>4. PICK y \in 1..L : /\ y \in Lines(cuts) \ taken /\ x < y /\ y < w[2]
                          /\ h[x] = {y} \cup h[y]
    BY <2>3, <1>4
  <2>5. ~(h[y] \subseteq ok(y))
    <3>1. \A s \in Lines(cuts) : s \in Int
      BY DEF Lines, Moments
    <3>2. ok(y) \subseteq ok(x)
      <4>1. ASSUME NEW s \in Lines(cuts), y < s PROVE x < s
        BY <4>1, <3>1, <2>4
      <4> QED BY <4>1
    <3>3. y \in ok(x)
      BY <2>4
    <3> HIDE DEF ok
    <3> QED BY <3>2, <3>3, <2>3, <2>4
  <2>6. L - y \in bad
    <3>1. L - y \in Nat /\ y \in 0..L
      BY <1>3
    <3> QED BY <3>1, <2>5
  <2> HIDE DEF bad, ok
  <2> QED BY <2>2, <2>3, <2>4, <2>6, <1>3
<1>6. \A x \in 0..L : h[x] \subseteq ok(x)
  <2> SUFFICES ASSUME NEW x \in 0..L, ~(h[x] \subseteq ok(x)) PROVE FALSE
    OBVIOUS
  <2>1. L - x \in Nat
    BY <1>3
  <2> HIDE DEF ok
  <2> QED BY <2>1, <1>5
<1>7. h[w[1]] \subseteq ok(w[1])
  BY <1>6 DEF L
<1> QED BY <1>2, <1>7

(***************************************************************************)
(* No two stretches without a comment overlap.                             *)
(***************************************************************************)
LEMMA StretchFacts ==
    ASSUME ScriptOk, NEW cuts
    PROVE  /\ \A w \in Stretches(script, cuts) : w[1] \in 0..Len(EpisodeOf) /\ w[2] \in Int
           /\ \A w, v \in Stretches(script, cuts) : \A s \in Int :
                w[1] < s /\ s < w[2] /\ v[1] < s /\ s < v[2] => w = v
<1> DEFINE L == Len(EpisodeOf)
           ends == {c.at : c \in script} \cup {0, L + 1}
           S == Stretches(script, cuts)
<1>1. L \in Nat /\ Moments = 1..L
  BY Time
<1>2. ends \subseteq 0..L + 1
  BY <1>1 DEF ScriptOk
<1>3. \A w \in S : /\ w \in ends \X ends /\ w[1] < w[2]
                   /\ \A e \in ends : e <= w[1] \/ w[2] <= e
  BY DEF Stretches
<1> HIDE DEF L, ends, S
<1>4. \A w \in S : w = <<w[1], w[2]>> /\ w[1] \in ends /\ w[2] \in ends
  BY <1>3
<1>5. \A w \in S : w[1] \in 0..L /\ w[2] \in Int
  BY <1>1, <1>2, <1>3, <1>4
<1>6. ASSUME NEW w \in S, NEW v \in S, NEW s \in Int, w[1] < s, s < w[2], v[1] < s, s < v[2]
      PROVE  w = v
  <2>1. w[1] \in Int /\ w[2] \in Int /\ v[1] \in Int /\ v[2] \in Int
    BY <1>5
  <2>2. w[1] <= v[1] \/ v[2] <= w[1]
    BY <1>3, <1>4
  <2>3. v[1] <= w[1] \/ w[2] <= v[1]
    BY <1>3, <1>4
  <2>4. w[2] <= v[1] \/ v[2] <= w[2]
    BY <1>3, <1>4
  <2>5. v[2] <= w[1] \/ w[2] <= v[2]
    BY <1>3, <1>4
  <2>6. w[1] = v[1] /\ w[2] = v[2]
    BY <2>1, <2>2, <2>3, <2>4, <2>5, <1>6
  <2> QED BY <2>6, <1>4
<1> QED BY <1>5, <1>6 DEF L, S

(***************************************************************************)
(* The candidates of the gaps lie at free lines, one to a line.            *)
(***************************************************************************)
LEMMA GapFacts ==
    ASSUME ScriptOk, NEW cuts, ~Unreachable(script, cuts)
    PROVE  /\ \A r \in GapRaws(script, cuts) :
                /\ r.home \in Lines(cuts) \ Taken(script) /\ r.id = GapIds + r.home
           /\ Distinct(GapRaws(script, cuts))
<1> DEFINE G == GapRaws(script, cuts)
           raw(s, w) == Raw(GapIds + s, s, Retold(s, w, script), Nobody, Original)
<1>1. \A r \in G : \E w \in Stretches(script, cuts) : \E s \in Closing(w, Taken(script), cuts) :
         r = raw(s, w)
  BY DEF GapRaws
<1>2. ASSUME NEW w \in Stretches(script, cuts), NEW s \in Closing(w, Taken(script), cuts)
      PROVE  s \in Lines(cuts) \ Taken(script) /\ w[1] < s /\ s < w[2]
  <2>1. s # 0
    BY DEF Unreachable
  <2>2. w[1] \in 0..Len(EpisodeOf)
    BY StretchFacts
  <2> QED BY <2>1, <2>2, ClosingFacts
<1>3. \A s, w : raw(s, w).id = GapIds + s /\ raw(s, w).home = s
  BY DEF Raw
<1> HIDE DEF raw, G
<1>4. ASSUME NEW r \in G
      PROVE  r.home \in Lines(cuts) \ Taken(script) /\ r.id = GapIds + r.home
  BY <1>1, <1>2, <1>3
<1>5. ASSUME NEW q \in G, NEW r \in G, q.id = r.id PROVE q = r
  <2>1. PICK w \in Stretches(script, cuts) : \E s \in Closing(w, Taken(script), cuts) : q = raw(s, w)
    BY <1>1
  <2>2. PICK s \in Closing(w, Taken(script), cuts) : q = raw(s, w)
    BY <2>1
  <2>3. PICK v \in Stretches(script, cuts) : \E t \in Closing(v, Taken(script), cuts) : r = raw(t, v)
    BY <1>1
  <2>4. PICK t \in Closing(v, Taken(script), cuts) : r = raw(t, v)
    BY <2>3
  <2>5. s \in Moments /\ t \in Moments /\ w[1] < s /\ s < w[2] /\ v[1] < t /\ t < v[2]
    BY <1>2 DEF Lines
  <2>6. s \in Nat /\ t \in Nat /\ GapIds \in Nat
    BY <2>5, Numbers
  <2>7. s = t
    BY <2>2, <2>4, <2>6, <1>3, <1>5
  <2>8. w = v
    BY <2>5, <2>6, <2>7, StretchFacts
  <2> QED BY <2>2, <2>4, <2>7, <2>8
<1> QED BY <1>4, <1>5 DEF Distinct, G

\* Comments of the script that are no candidates.
Clones(raws) ==
    {Raw(c.id, c.at, c.src, c.figure, c.words) : c \in {c \in script : c.id \notin Ids(raws)}}

(***************************************************************************)
(* A comment of the script that is no candidate becomes one; then every    *)
(* comment has a candidate.                                                *)
(***************************************************************************)
LEMMA ClonesFacts ==
    ASSUME ScriptOk, NEW raws
    PROVE  /\ WithClones(raws, script) = raws \cup Clones(raws)
           /\ IsFiniteSet(Clones(raws))
           /\ \A r \in Clones(raws) :
                /\ r.id \notin Ids(raws)
                /\ \E c \in script : /\ r.id = c.id /\ r.home = c.at /\ r.src = c.src
                                     /\ r.figure = c.figure /\ r.words = c.words
                                     /\ r = Raw(c.id, c.at, c.src, c.figure, c.words)
           /\ \A c \in script : c.id \in Ids(raws) \cup Ids(Clones(raws))
<1> DEFINE S == {c \in script : c.id \notin Ids(raws)}
           f == [c \in S |-> Raw(c.id, c.at, c.src, c.figure, c.words)]
           K == Clones(raws)
<1>1. WithClones(raws, script) = raws \cup K
  BY DEF WithClones, Clones
<1>2. S \subseteq script /\ \A c \in S : c.id \notin Ids(raws)
  OBVIOUS
<1>3. IsFiniteSet(S)
  <2> HIDE DEF S
  <2> QED BY <1>2, FS_Subset DEF ScriptOk
<1>4. \A c \in script : c.id \notin Ids(raws) => c \in S
  OBVIOUS
<1>5. K = {f[c] : c \in S}
  BY DEF Clones
<1>6. DOMAIN f = S /\ \A c \in S : f[c] = Raw(c.id, c.at, c.src, c.figure, c.words)
  OBVIOUS
<1> HIDE DEF S, f, K
<1>7. IsFiniteSet(K)
  BY <1>3, <1>5, <1>6, FiniteImage
<1>8. ASSUME NEW c \in S
      PROVE  /\ f[c].id = c.id /\ f[c].home = c.at /\ f[c].src = c.src
             /\ f[c].figure = c.figure /\ f[c].words = c.words
  BY <1>6 DEF Raw
<1>9. ASSUME NEW r \in K
      PROVE  /\ r.id \notin Ids(raws)
             /\ \E c \in script : /\ r.id = c.id /\ r.home = c.at /\ r.src = c.src
                                  /\ r.figure = c.figure /\ r.words = c.words
                                  /\ r = Raw(c.id, c.at, c.src, c.figure, c.words)
  <2>1. PICK c \in S : r = f[c]
    BY <1>5
  <2> QED BY <2>1, <1>2, <1>6, <1>8
<1>10. ASSUME NEW c \in script PROVE c.id \in Ids(raws) \cup Ids(K)
  <2>1. CASE c.id \in Ids(raws)
    BY <2>1
  <2>2. CASE c.id \notin Ids(raws)
    <3>1. c \in S
      BY <2>2, <1>4
    <3>2. f[c] \in K /\ f[c].id = c.id
      BY <3>1, <1>5, <1>8
    <3> QED BY <3>2 DEF Ids
  <2> QED BY <2>1, <2>2
<1> QED BY <1>1, <1>7, <1>9, <1>10 DEF K

\* Candidates that agree with comments of the script.
Suits(raws, S) ==
    /\ IsFiniteSet(raws) /\ Candidates(raws)
    /\ \A r \in raws : /\ r = Raw(r.id, r.home, r.src, r.figure, r.words)
                       /\ Shaped(r) /\ AtItsGap(r.id, r.home)
    /\ \A c \in S : c.id \in Ids(raws)
    /\ \A r \in raws : \A c \in S : r.id = c.id => r.src = c.src /\ r.figure = c.figure

(***************************************************************************)
(* The candidates of a repair have numbers of their own and agree with the *)
(* script.                                                                 *)
(***************************************************************************)
LEMMA RepairRawsSuit ==
    ASSUME ScriptOk, ~(run.coverage /\ Unreachable(script, Cuts))
    PROVE  Suits(RepairRaws, script)
<1> DEFINE F == FreshRaws \cup FigureRaws(script, intros, TRUE, run.introductions)
           K == Clones(F)
           G == IF run.coverage THEN GapRaws(script, Cuts) ELSE {}
           R == RepairRaws
<1>1. \A r \in F : Fresh(r)
  BY StartIsFresh
<1>2. /\ WithClones(F, script) = F \cup K
      /\ IsFiniteSet(K)
      /\ \A r \in K :
           /\ r.id \notin Ids(F)
           /\ \E c \in script : /\ r.id = c.id /\ r.home = c.at /\ r.src = c.src
                                /\ r.figure = c.figure /\ r.words = c.words
                                /\ r = Raw(c.id, c.at, c.src, c.figure, c.words)
      /\ \A c \in script : c.id \in Ids(F) \cup Ids(K)
  <2> HIDE DEF F
  <2> QED BY ClonesFacts
<1>3. /\ \A r \in G : r.home \in Lines(Cuts) \ Taken(script) /\ r.id = GapIds + r.home
      /\ Distinct(G)
  <2>1. CASE run.coverage
    BY <2>1, GapFacts
  <2>2. CASE ~run.coverage
    BY <2>2 DEF Distinct
  <2> QED BY <2>1, <2>2
<1>4. R = F \cup K \cup G
  BY <1>2 DEF RepairRaws
<1> HIDE DEF F, K, G, R
<1>5. /\ GapIds \in Nat /\ Len(EpisodeOf) \in Nat
      /\ \A s \in Moments : s \in Nat /\ GapIds + s \in GapIds + 1..GapIds + Len(EpisodeOf)
  BY Numbers, Time
<1>6. /\ Distinct(script)
      /\ \A c \in script : c.at \in Moments \ Mute /\ Shaped(c) /\ AtItsGap(c.id, c.at)
  BY DEF ScriptOk
<1>7. ASSUME NEW r \in F
      PROVE  /\ r.id \in 1..GapIds /\ r.home \in Moments /\ Shaped(r) /\ ~OfGap(r.id)
             /\ \A q \in F : q.id = r.id => q = r
  BY <1>1, FreshFacts
<1>8. ASSUME NEW r \in G
      PROVE  /\ r.home \in Moments /\ r.id \in GapIds + 1..GapIds + Len(EpisodeOf)
             /\ r.id = GapIds + r.home /\ OfGap(r.id) /\ ~OfPassage(r.id) /\ ~OfFigure(r.id)
  <2>1. r.home \in Moments /\ r.id = GapIds + r.home
    BY <1>3 DEF Lines
  <2>2. r.id \in GapIds + 1..GapIds + Len(EpisodeOf)
    BY <2>1, <1>5
  <2> QED BY <2>1, <2>2, <1>5, Numbers DEF OfGap, OfPassage, OfFigure
<1>9. ASSUME NEW r \in G, NEW c \in script PROVE r.id # c.id
  <2> SUFFICES ASSUME r.id = c.id PROVE FALSE
    OBVIOUS
  <2>1. OfGap(c.id) /\ c.id - GapIds = r.home
    BY <1>5, <1>8
  <2>2. CASE c.at = r.home
    BY <2>2, <1>3 DEF Taken
  <2>3. CASE heard /\ r.home \in HeardCut
    BY <2>3, <1>3 DEF Lines, Cuts
  <2> QED BY <2>1, <2>2, <2>3, <1>6 DEF AtItsGap
<1>10. IsFiniteSet(R)
  <2>1. IsFiniteSet(F)
    <3>1. Distinct(F)
      BY <1>7 DEF Distinct
    <3> QED BY <3>1, <1>5, <1>7, FewIds
  <2>2. IsFiniteSet(G)
    <3>1. GapIds + 1 \in Nat /\ GapIds + Len(EpisodeOf) \in Nat
      BY <1>5
    <3>2. \A r \in G : r.id \in GapIds + 1..GapIds + Len(EpisodeOf)
      BY <1>8
    <3> QED BY <3>1, <3>2, <1>3, FewIds
  <2> QED BY <2>1, <2>2, <1>2, <1>4, FS_Union
<1>11. Distinct(R)
  <2> SUFFICES ASSUME NEW q \in R, NEW r \in R, q.id = r.id PROVE q = r
    BY DEF Distinct
  <2>1. CASE q \in F /\ r \in F
    BY <2>1, <1>7
  <2>2. CASE q \in G /\ r \in G
    BY <2>2, <1>3 DEF Distinct
  <2>3. CASE q \in K /\ r \in K
    BY <2>3, <1>2, <1>6 DEF Distinct
  <2>4. CASE (q \in F /\ r \in K) \/ (q \in K /\ r \in F)
    BY <2>4, <1>2 DEF Ids
  <2>5. CASE (q \in F /\ r \in G) \/ (q \in G /\ r \in F)
    BY <2>5, <1>7, <1>8
  <2>6. CASE (q \in K /\ r \in G) \/ (q \in G /\ r \in K)
    BY <2>6, <1>2, <1>9
  <2> QED BY <1>4, <2>1, <2>2, <2>3, <2>4, <2>5, <2>6
<1>12. ASSUME NEW r \in R
       PROVE  r.home \in Moments /\ r.id \in Nat /\ Shaped(r) /\ AtItsGap(r.id, r.home)
  <2>1. CASE r \in F
    BY <2>1, <1>7 DEF AtItsGap
  <2>2. CASE r \in K
    <3>1. PICK c \in script : r.id = c.id /\ r.home = c.at /\ r.src = c.src /\ r.figure = c.figure
      BY <2>2, <1>2
    <3> QED BY <3>1, <1>6 DEF Shaped
  <2>3. CASE r \in G
    <3>1. r.id \in Nat /\ r.home = r.id - GapIds
      BY <2>3, <1>5, <1>8
    <3> QED BY <3>1, <2>3, <1>8 DEF Shaped, AtItsGap
  <2> QED BY <1>4, <2>1, <2>2, <2>3
<1>13. \A c \in script : c.id \in Ids(R)
  BY <1>2, <1>4 DEF Ids
<1>14. ASSUME NEW r \in R, NEW c \in script, r.id = c.id PROVE r.src = c.src /\ r.figure = c.figure
  <2>1. CASE r \in F
    <3>1. Shaped(r) /\ Shaped(c) /\ ~OfGap(r.id)
      BY <2>1, <1>6, <1>7
    <3>2. r.id \in Nat /\ (OfPassage(r.id) \/ OfFigure(r.id))
      BY <3>1, Numbers DEF Shaped, OfPassage, OfFigure, OfGap
    <3>3. CASE OfPassage(r.id)
      BY <3>1, <3>3, <1>14 DEF Shaped
    <3>4. CASE OfFigure(r.id)
      <4>1. /\ r.src = {} /\ r.figure \in Figures /\ r.id = FigureId(r.figure)
            /\ c.src = {} /\ c.figure \in Figures /\ r.id = FigureId(c.figure)
        BY <3>1, <3>4, <1>14 DEF Shaped
      <4> QED BY <4>1, Numbers
    <3> QED BY <3>2, <3>3, <3>4
  <2>2. CASE r \in K
    <3>1. PICK d \in script : r.id = d.id /\ r.src = d.src /\ r.figure = d.figure
      BY <2>2, <1>2
    <3>2. d = c
      BY <3>1, <1>6, <1>14 DEF Distinct
    <3> QED BY <3>1, <3>2
  <2>3. CASE r \in G
    BY <2>3, <1>9, <1>14
  <2> QED BY <1>4, <2>1, <2>2, <2>3
<1>15. ASSUME NEW r \in R PROVE r = Raw(r.id, r.home, r.src, r.figure, r.words)
  <2>1. \E id, home, src, figure, words : r = Raw(id, home, src, figure, words)
    <3>1. CASE r \in F
      <4>1. CASE \E p \in Passages : r = Raw(p, Homes[p], {p}, Nobody, Original)
        BY <4>1, Zenon
      <4>2. CASE \E f \in Figures : r = Raw(FigureId(f), HintAt[f], {}, f, Original)
        BY <4>2, Zenon
      <4> QED BY <3>1, <4>1, <4>2, <1>1 DEF Fresh
    <3>2. CASE r \in K
      BY <3>2, <1>2
    <3>3. CASE r \in G
      BY <3>3 DEF G, GapRaws
    <3> QED BY <1>4, <3>1, <3>2, <3>3
  <2> QED BY <2>1 DEF Raw
<1>16. Suits(R, script)
  BY <1>10, <1>11, <1>12, <1>13, <1>14, <1>15 DEF Suits, Candidates, Placeable
<1> QED BY <1>16 DEF R

-----------------------------------------------------------------------------
(* A run begins. *)

(***************************************************************************)
(* A candidate whose comment is locked is put where that comment is, and   *)
(* keeps the rest.                                                         *)
(***************************************************************************)
LEMMA PositionedFacts ==
    ASSUME ScriptOk, NEW locked, locked \subseteq script, NEW raws, Suits(raws, locked)
    PROVE  /\ Suits(Positioned(raws, locked), locked) /\ InPlace(Positioned(raws, locked), locked)
           /\ Ids(Positioned(raws, locked)) = Ids(raws)
<1> DEFINE cue(r) == CHOOSE c \in locked : c.id = r.id
           f == [r \in raws |-> IF r.id \in Ids(locked) THEN [r EXCEPT !.home = cue(r).at] ELSE r]
           P == Positioned(raws, locked)
<1>1. DOMAIN f = raws
  OBVIOUS
<1>2. P = {f[r] : r \in raws}
  BY DEF Positioned
<1>3. /\ IsFiniteSet(raws) /\ Distinct(raws) /\ \A r \in raws : r.home \in Moments /\ r.id \in Nat
      /\ \A r \in raws : /\ r = Raw(r.id, r.home, r.src, r.figure, r.words)
                         /\ Shaped(r) /\ AtItsGap(r.id, r.home)
      /\ \A c \in locked : c.id \in Ids(raws)
      /\ \A r \in raws : \A c \in locked : r.id = c.id => r.src = c.src /\ r.figure = c.figure
  BY DEF Suits, Candidates, Placeable
<1>4. /\ Distinct(locked)
      /\ \A c \in locked : c.at \in Moments /\ AtItsGap(c.id, c.at)
  BY DEF ScriptOk, Distinct
<1>5. ASSUME NEW r \in raws
      PROVE  /\ f[r] = Raw(f[r].id, f[r].home, f[r].src, f[r].figure, f[r].words)
             /\ f[r].id = r.id /\ f[r].src = r.src /\ f[r].figure = r.figure
             /\ f[r].home \in Moments /\ AtItsGap(f[r].id, f[r].home)
             /\ \A c \in locked : c.id = r.id => f[r].home = c.at
  <2>1. CASE r.id \in Ids(locked)
    <3>1. PICK c \in locked : c.id = r.id
      BY <2>1 DEF Ids
    <3>2. cue(r) = c
      BY <3>1, <1>4 DEF Distinct
    <3>3. f[r] = [r EXCEPT !.home = c.at]
      BY <2>1, <3>2
    <3> HIDE DEF f
    <3>4. f[r] = Raw(r.id, c.at, r.src, r.figure, r.words)
      <4>1. r = Raw(r.id, r.home, r.src, r.figure, r.words)
        BY <1>3
      <4> DEFINE i == r.id
                 h == r.home
                 s == r.src
                 g == r.figure
                 w == r.words
      <4>2. r = [id |-> i, home |-> h, src |-> s, figure |-> g, words |-> w]
        BY <4>1 DEF Raw
      <4> HIDE DEF i, h, s, g, w
      <4>3. [r EXCEPT !.home = c.at] = [id |-> i, home |-> c.at, src |-> s, figure |-> g, words |-> w]
        BY <4>2
      <4> QED BY <4>3, <3>3 DEF Raw, i, h, s, g, w
    <3>5. /\ f[r].id = r.id /\ f[r].src = r.src /\ f[r].figure = r.figure
          /\ f[r].words = r.words /\ f[r].home = c.at
      BY <3>4 DEF Raw
    <3>6. \A d \in locked : d.id = r.id => d = c
      BY <3>1, <1>4 DEF Distinct
    <3> QED BY <3>1, <3>4, <3>5, <3>6, <1>4
  <2>2. CASE r.id \notin Ids(locked)
    <3>1. f[r] = r
      BY <2>2
    <3>2. \A c \in locked : c.id # r.id
      BY <2>2 DEF Ids
    <3> HIDE DEF f
    <3> QED BY <3>1, <3>2, <1>3
  <2> QED BY <2>1, <2>2
<1> HIDE DEF f, P
<1>6. \A r \in raws : Shaped(f[r])
  <2> SUFFICES ASSUME NEW r \in raws PROVE Shaped(f[r])
    OBVIOUS
  <2>1. Shaped(r) /\ f[r].id = r.id /\ f[r].src = r.src /\ f[r].figure = r.figure
    BY <1>3, <1>5
  <2> QED BY <2>1 DEF Shaped
<1>7. IsFiniteSet(P)
  BY <1>1, <1>2, <1>3, FiniteImage
<1>8. Distinct(P)
  BY <1>2, <1>3, <1>5 DEF Distinct
<1>9. Candidates(P)
  BY <1>2, <1>3, <1>5, <1>8 DEF Candidates, Placeable
<1>10. Ids(P) = Ids(raws)
  BY <1>2, <1>5 DEF Ids
<1>11. InPlace(P, locked)
  BY <1>2, <1>5 DEF InPlace
<1>12. \A r \in P : /\ r = Raw(r.id, r.home, r.src, r.figure, r.words)
                    /\ Shaped(r) /\ AtItsGap(r.id, r.home)
  BY <1>2, <1>5, <1>6
<1>13. \A r \in P : \A c \in locked : r.id = c.id => r.src = c.src /\ r.figure = c.figure
  BY <1>2, <1>3, <1>5
<1>14. Suits(P, locked)
  BY <1>3, <1>7, <1>9, <1>10, <1>12, <1>13 DEF Suits
<1> QED BY <1>10, <1>11, <1>14 DEF P

(***************************************************************************)
(* A run that begins with such candidates begins well.                     *)
(***************************************************************************)
LEMMA BeginsWell ==
    ASSUME ScriptOk, NEW raws, NEW asked, NEW locked, NEW kept, NEW repairing \in BOOLEAN, NEW reason,
           Begin(raws, asked, locked, kept, repairing, reason), UNCHANGED <<script, intros, lexicon, heard, files>>,
           locked \subseteq script, Suits(raws, locked), \A c \in locked : c.id \notin asked,
           ~repairing => locked = {} /\ kept = {},
           repairing =>
             /\ \A i \in kept : i \in intros /\ i.cue \in Ids(script)
             /\ \A i \in intros : i.cue \in Ids(script) /\ i.cue \in Ids(raws) \ asked => i \in kept
    PROVE  Writing'
<1> DEFINE P == Positioned(raws, locked)
           Q == Packages(P, locked, Cuts)
<1>1. Suits(P, locked) /\ InPlace(P, locked) /\ Ids(P) = Ids(raws)
  BY PositionedFacts
<1>2. Ranged(Q, P, locked, Cuts)
  BY <1>1, PackagesRanged DEF Suits
<1>3. Len(Q) \in Nat /\ DOMAIN Q = 1..Len(Q)
  BY <1>2 DEF Ranged
<1>4. run' = [stage |-> "writing", raws |-> P, asked |-> asked, locked |-> locked,
              intros |-> kept, repairing |-> repairing, reason |-> reason,
              packages |-> Q, next |-> 1, done |-> << >>, told |-> {}, found |-> {}]
  BY DEF Begin
<1> HIDE DEF P, Q
<1>5. /\ run'.raws = P /\ run'.asked = asked /\ run'.locked = locked /\ run'.intros = kept
      /\ run'.repairing = repairing /\ run'.reason = reason /\ run'.packages = Q /\ run'.next = 1
      /\ run'.done = << >> /\ run'.told = {} /\ run'.found = {} /\ run'.stage = "writing"
  BY <1>4
<1>6. Cuts' = Cuts
  BY DEF Cuts
<1>7. \A r \in P : Shaped(r)' /\ AtItsGap(r.id, r.home)'
  BY <1>1 DEF Suits, Shaped, AtItsGap
<1>8. Begun'
  <2>1. run' = [stage |-> "writing", raws |-> run'.raws, asked |-> run'.asked, locked |-> run'.locked,
              intros |-> run'.intros, repairing |-> run'.repairing, reason |-> run'.reason,
              packages |-> run'.packages, next |-> run'.next, done |-> run'.done, told |-> run'.told,
              found |-> run'.found]
    BY <1>4, <1>5
  <2>2. Q = Packages(P, locked, Cuts')
    BY <1>6 DEF Q
  <2>3. \A r \in run'.raws : Shaped(r)' /\ AtItsGap(r.id, r.home)'
    BY <1>5, <1>7
  <2>4. IsFiniteSet(P) /\ Candidates(P) /\ InPlace(P, locked)
    BY <1>1 DEF Suits
  <2>5. \A c \in locked : c.id \in Ids(P) \ asked
    BY <1>1 DEF Suits
  <2>6. \A r \in P : \A c \in locked : r.id = c.id => r.src = c.src /\ r.figure = c.figure
    BY <1>1 DEF Suits
  <2> HIDE DEF Begin
  <2> QED BY <1>5, <2>1, <2>2, <2>3, <2>4, <2>5, <2>6 DEF Begun
<1>9. IntrosOk'
  BY <1>1, <1>5 DEF IntrosOk
<1>10. DoneOk'
  <2>1. run'.done \in Seq(Range(run'.done)) /\ DOMAIN run'.done = {}
    BY <1>5
  <2>2. 1 \in 1..Len(Q) + 1
    BY <1>3
  <2> QED BY <1>5, <2>1, <2>2 DEF DoneOk
<1>11. Delivered'
  <2>1. \A k \in DOMAIN Q : ~(k < 1)
    BY <1>3
  <2> QED BY <1>5, <2>1 DEF Delivered
<1> QED BY <1>8, <1>9, <1>10, <1>11 DEF Writing

-----------------------------------------------------------------------------
(* The package at work. *)

(***************************************************************************)
(* The candidate with a number is the only one.                            *)
(***************************************************************************)
LEMMA RawOfFacts ==
    ASSUME Candidates(run.raws), NEW id \in Ids(run.raws)
    PROVE  /\ RawOf(id) \in run.raws /\ RawOf(id).id = id
           /\ \A r \in run.raws : r.id = id => r = RawOf(id)
<1>1. PICK r \in run.raws : r.id = id
  BY DEF Ids
<1>2. RawOf(id) \in run.raws /\ RawOf(id).id = id
  BY <1>1 DEF RawOf
<1> QED BY <1>2 DEF Candidates, Distinct

(***************************************************************************)
(* The packages of a run at work.                                          *)
(***************************************************************************)
LEMMA AtWork ==
    ASSUME ScriptOk, Begun
    PROVE  /\ Ranged(run.packages, run.raws, run.locked, Cuts)
           /\ Len(run.packages) \in Nat /\ DOMAIN run.packages = 1..Len(run.packages)
           /\ PackagesOf(Task) = run.packages
           /\ \A k \in DOMAIN run.packages :
                /\ run.packages[k].cues \subseteq run.raws
                /\ Ids(run.packages[k].cues) \subseteq Ids(run.raws)
                /\ run.packages[k].window \subseteq Lines(Cuts)
           /\ \A c \in run.locked : c.at \notin Cuts => c.at \in Lines(Cuts)
<1>1. Ranged(run.packages, run.raws, run.locked, Cuts)
  BY PackagesRanged DEF Begun
<1>2. PackagesOf(Task) = run.packages
  BY DEF Begun, Task, PackagesOf
<1>3. \A c \in run.locked : c.at \notin Cuts => c.at \in Lines(Cuts)
  BY DEF ScriptOk, Begun, Lines
<1>4. /\ Len(run.packages) \in Nat /\ DOMAIN run.packages = 1..Len(run.packages)
      /\ \A k \in DOMAIN run.packages : Sound(run.packages[k], run.raws, run.locked, Cuts)
  BY <1>1 DEF Ranged
<1>5. ASSUME NEW k \in DOMAIN run.packages
      PROVE  /\ run.packages[k].cues \subseteq run.raws
             /\ Ids(run.packages[k].cues) \subseteq Ids(run.raws)
             /\ run.packages[k].window \subseteq Lines(Cuts)
  <2>1. run.packages[k].cues \subseteq run.raws /\ run.packages[k].window \subseteq Lines(Cuts)
    BY <1>4 DEF Sound
  <2> QED BY <2>1 DEF Ids
<1> QED BY <1>1, <1>2, <1>3, <1>4, <1>5

\* What is asked of a package is what its task says.
(***************************************************************************)
(* What is asked of the package at work is what its task says.             *)
(***************************************************************************)
LEMMA AtPackage ==
    ASSUME ScriptOk, Writing, run.stage = "writing", Working
    PROVE  /\ run.next \in DOMAIN run.packages /\ run.next \in Nat
           /\ Package = run.packages[run.next]
           /\ Asked = AskedOf(Task, run.next) /\ Locked = LockedOf(Task, run.next)
           /\ LockedIntros = IntrosOf(Task, run.next) /\ Payload = PayloadOf(Task, run.next)
<1>1. /\ Len(run.packages) \in Nat /\ DOMAIN run.packages = 1..Len(run.packages)
      /\ PackagesOf(Task) = run.packages
      /\ \A k \in DOMAIN run.packages : Ids(run.packages[k].cues) \subseteq Ids(run.raws)
  BY AtWork DEF Writing
<1>2. run.next \in DOMAIN run.packages /\ run.next \in Nat
  BY <1>1 DEF Working, Writing, DoneOk
<1>3. /\ Task.raws = run.raws /\ Task.asked = run.asked /\ Task.locked = run.locked
      /\ Task.repairing = run.repairing /\ Task.reason = run.reason /\ Task.cuts = Cuts
  BY DEF Task
<1>4. Package = run.packages[run.next] /\ PackageIds = IdsOf(Task, run.next)
  BY <1>1 DEF Package, PackageIds, IdsOf
<1>5. Asked = AskedOf(Task, run.next)
  BY <1>3, <1>4 DEF Asked, AskedOf
<1>6. Locked = LockedOf(Task, run.next)
  BY <1>3, <1>4 DEF Locked, LockedOf
<1>7. LockedIntros = IntrosOf(Task, run.next)
  <2>1. PackageIds \subseteq Ids(run.raws)
    BY <1>1, <1>2, <1>4 DEF PackageIds, Package
  <2>2. CASE run.repairing
    <3>1. PackageIds \ Asked = {id \in PackageIds : id \notin run.asked}
      BY <2>2 DEF Asked
    <3>2. \A i \in run.intros : i \in intros /\ i.cue \in Ids(script)
      BY <2>2 DEF Writing, IntrosOk
    <3>3. \A i \in intros : i.cue \in Ids(script) /\ i.cue \in Ids(run.raws) \ run.asked
                              => i \in run.intros
      BY <2>2 DEF Writing, IntrosOk
    <3>4. IntrosOf(Task, run.next)
            = {i \in intros : i.cue \in Ids(script) /\ i.cue \in PackageIds \ Asked}
      BY <1>3, <1>4, <1>5, <2>2 DEF IntrosOf
    <3> HIDE DEF PackageIds, Asked
    <3>5. \A i : i \in LockedIntros <=> i \in run.intros /\ i.cue \in PackageIds \ Asked
      BY DEF LockedIntros
    <3>6. \A i : i \in LockedIntros <=> i \in IntrosOf(Task, run.next)
      BY <2>1, <3>1, <3>2, <3>3, <3>4, <3>5
    <3> QED BY <3>6
  <2>3. CASE ~run.repairing
    <3>1. run.intros = {}
      BY <2>3 DEF Writing, Begun
    <3> QED BY <3>1, <2>3, <1>3 DEF LockedIntros, IntrosOf
  <2> QED BY <2>2, <2>3
<1>8. Payload = PayloadOf(Task, run.next)
  BY <1>1, <1>3, <1>4, <1>5, <1>6, <1>7 DEF Payload, PayloadOf
<1> QED BY <1>2, <1>4, <1>5, <1>6, <1>7, <1>8

(***************************************************************************)
(* What is locked in the package at work lies in its window and has        *)
(* numbers of its own.                                                     *)
(***************************************************************************)
LEMMA LockedFacts ==
    ASSUME ScriptOk, Writing, run.stage = "writing", Working
    PROVE  /\ IsFiniteSet(Locked) /\ Distinct(Locked)
           /\ \A x \in Locked : Inside(x, Package) /\ AtItsGap(x.id, x.at)
           /\ ~run.repairing => Locked = {}
<1> DEFINE S == {c \in run.locked : c.id \in PackageIds /\ c.at \notin Cuts}
           f == [c \in S |-> Placed(c)]
<1>1. S \subseteq run.locked /\ \A c \in S : c.id \in PackageIds /\ c.at \notin Cuts
  OBVIOUS
<1>2. Locked = {f[c] : c \in S}
  BY DEF Locked
<1>3. DOMAIN f = S /\ \A c \in S : f[c].id = c.id /\ f[c].at = c.at
  BY DEF Placed
<1> HIDE DEF S, f
<1>4. run.locked \subseteq script
  BY DEF Writing, Begun
<1>5. IsFiniteSet(S)
  BY <1>1, <1>4, FS_Subset DEF ScriptOk
<1>6. IsFiniteSet(Locked)
  BY <1>2, <1>3, <1>5, FiniteImage
<1>7. Distinct(Locked)
  <2>1. \A c, d \in S : c.id = d.id => c = d
    BY <1>1, <1>4 DEF ScriptOk, Distinct
  <2> QED BY <2>1, <1>2, <1>3 DEF Distinct
<1>8. ASSUME NEW c \in S PROVE Inside(f[c], Package) /\ AtItsGap(c.id, c.at)
  <2>1. run.next \in DOMAIN run.packages /\ Package = run.packages[run.next]
    BY AtPackage
  <2>2. Sound(Package, run.raws, run.locked, Cuts) /\ c.at \in Lines(Cuts)
    BY <2>1, <1>1, AtWork DEF Ranged, Writing
  <2>3. c.id \in Ids(Package.cues)
    BY <1>1 DEF PackageIds
  <2>4. c.at \in Package.window
    BY <2>2, <2>3, <1>1 DEF Sound
  <2> QED BY <2>3, <2>4, <1>1, <1>3, <1>4 DEF Inside, ScriptOk
<1>9. \A x \in Locked : Inside(x, Package) /\ AtItsGap(x.id, x.at)
  BY <1>2, <1>3, <1>8
<1>10. ~run.repairing => S = {}
  BY <1>1 DEF Writing, Begun
<1> QED BY <1>2, <1>6, <1>7, <1>9, <1>10

\* The order chronological_alignments sorts placements by.
Earlier(y, x) == y.at < x.at \/ (y.at = x.at /\ OrderedIds(y.id, x.id))
EarlierOn(S) == {p \in S \X S : Earlier(p[1], p[2])}

(***************************************************************************)
(* Placements with numbers of their own are ordered by line, then as       *)
(* candidates.                                                             *)
(***************************************************************************)
LEMMA EarlierOrders ==
    ASSUME Candidates(run.raws), NEW S, Distinct(S),
           \A x \in S : x.at \in Int /\ x.id \in Ids(run.raws)
    PROVE  Orders(EarlierOn(S), S)
<1>1. \A x \in S : RawOf(x.id) \in run.raws /\ RawOf(x.id).id = x.id
  BY RawOfFacts
<1>2. Orders(BeforeOn(run.raws), run.raws)
  BY BeforeOrders
<1>3. /\ \A x \in run.raws : ~Before(x, x)
      /\ \A x, y, z \in run.raws : Before(x, y) /\ Before(y, z) => Before(x, z)
      /\ \A x, y \in run.raws : x # y => Before(x, y) \/ Before(y, x)
  BY <1>2 DEF Orders, BeforeOn
<1>4. \A x, y \in S : <<x, y>> \in EarlierOn(S) <=> Earlier(x, y)
  BY DEF EarlierOn
<1>5. ASSUME NEW x \in S PROVE ~Earlier(x, x)
  BY <1>1, <1>3 DEF Earlier, OrderedIds
<1>6. ASSUME NEW x \in S, NEW y \in S, NEW z \in S, Earlier(x, y), Earlier(y, z)
      PROVE  Earlier(x, z)
  BY <1>1, <1>3, <1>6 DEF Earlier, OrderedIds
<1>7. ASSUME NEW x \in S, NEW y \in S, x # y PROVE Earlier(x, y) \/ Earlier(y, x)
  <2>1. x.id # y.id
    BY <1>7 DEF Distinct
  <2>2. RawOf(x.id) # RawOf(y.id)
    BY <2>1, <1>1
  <2> QED BY <2>2, <1>1, <1>3 DEF Earlier, OrderedIds
<1> QED BY <1>4, <1>5, <1>6, <1>7 DEF Orders

(***************************************************************************)
(* Placements are sorted along that order.                                 *)
(***************************************************************************)
LEMMA SortedIsEarlier ==
    ASSUME NEW S
    PROVE  Chronological(S) = SortedBy(S, EarlierOn(S))
<1> DEFINE a(k) == CHOOSE x \in S : Cardinality({y \in S : Earlier(y, x)}) = k - 1
           b(k) == CHOOSE x \in S : Cardinality(Lower(x, EarlierOn(S), S)) = k - 1
<1>1. \A x \in S : {y \in S : Earlier(y, x)} = Lower(x, EarlierOn(S), S)
  BY DEF Lower, EarlierOn
<1>2. \A k : a(k) = b(k)
  BY <1>1
<1>3. Chronological(S) = [k \in 1..Cardinality(S) |-> a(k)]
  BY DEF Sorted, Chronological, Earlier
<1>4. SortedBy(S, EarlierOn(S)) = [k \in 1..Cardinality(S) |-> b(k)]
  BY DEF SortedBy
<1> HIDE DEF a, b
<1> QED BY <1>2, <1>3, <1>4

(***************************************************************************)
(* Sorted, placements are in time order, each number once.                 *)
(***************************************************************************)
LEMMA ChronologicalFacts ==
    ASSUME Candidates(run.raws), NEW S, IsFiniteSet(S), Distinct(S),
           \A x \in S : x.at \in Int /\ x.id \in Ids(run.raws),
           NEW s, s = Chronological(S)
    PROVE  /\ s \in Seq(S) /\ Len(s) \in Nat /\ DOMAIN s = 1..Len(s)
           /\ \A k \in DOMAIN s : s[k] \in S
           /\ \A x \in S : \E k \in DOMAIN s : s[k] = x
           /\ \A j, k \in DOMAIN s : j < k => s[j].at <= s[k].at /\ s[j].id # s[k].id
<1>1. s = SortedBy(S, EarlierOn(S)) /\ Orders(EarlierOn(S), S)
  BY SortedIsEarlier, EarlierOrders
<1>2. /\ Cardinality(S) \in Nat /\ DOMAIN s = 1..Cardinality(S)
      /\ s \in Seq(S) /\ Len(s) = Cardinality(S)
      /\ \A k \in DOMAIN s : s[k] \in S
      /\ \A x \in S : \E k \in DOMAIN s : s[k] = x
      /\ \A j, k \in DOMAIN s : j < k => <<s[j], s[k]>> \in EarlierOn(S)
  BY <1>1, SortedFacts
<1>3. ASSUME NEW j \in DOMAIN s, NEW k \in DOMAIN s, j < k
      PROVE  s[j].at <= s[k].at /\ s[j].id # s[k].id
  <2>1. <<s[j], s[k]>> \in EarlierOn(S)
    BY <1>2, <1>3, Zenon
  <2>2. s[j] \in S /\ s[k] \in S /\ Earlier(s[j], s[k])
    BY <2>1, <1>2 DEF EarlierOn
  <2>3. s[j].at <= s[k].at
    BY <2>2 DEF Earlier
  <2>4. s[j] # s[k]
    <3>1. <<s[j], s[j]>> \notin EarlierOn(S)
      BY <2>2, <1>1 DEF Orders
    <3> QED BY <3>1, <2>1
  <2> QED BY <2>2, <2>3, <2>4 DEF Distinct
<1> QED BY <1>2, <1>3

-----------------------------------------------------------------------------
(* What is done grows. *)

(***************************************************************************)
(* What is in two sequences, one after the other.                          *)
(***************************************************************************)
LEMMA Appended ==
    ASSUME NEW S, NEW s, s \in Seq(Range(s)), NEW t \in Seq(S), NEW u, u = s \o t
    PROVE  /\ u \in Seq(Range(u)) /\ Range(s) \subseteq Range(u) /\ Range(t) \subseteq Range(u)
           /\ Len(s) \in Nat /\ DOMAIN s = 1..Len(s) /\ Len(t) \in Nat /\ DOMAIN t = 1..Len(t)
           /\ Len(u) \in Nat /\ DOMAIN u = 1..Len(u) /\ Len(u) = Len(s) + Len(t)
           /\ \A i \in DOMAIN u : IF i <= Len(s) THEN i \in DOMAIN s /\ u[i] = s[i]
                                  ELSE i - Len(s) \in DOMAIN t /\ u[i] = t[i - Len(s)]
<1> DEFINE A == Range(s) \cup S
<1>1. s \in Seq(A) /\ t \in Seq(A)
  <2>1. \A a \in Seq(Range(s)) : a \in Seq(A)
    OBVIOUS
  <2>2. \A a \in Seq(S) : a \in Seq(A)
    OBVIOUS
  <2> QED BY <2>1, <2>2
<1> HIDE DEF A
<1>2. /\ u \in Seq(A) /\ Len(u) = Len(s) + Len(t)
      /\ \A i \in 1..Len(s) + Len(t) : u[i] = IF i <= Len(s) THEN s[i] ELSE t[i - Len(s)]
  BY <1>1, ConcatProperties
<1>3. /\ Len(s) \in Nat /\ DOMAIN s = 1..Len(s) /\ Len(t) \in Nat /\ DOMAIN t = 1..Len(t)
      /\ Len(u) \in Nat /\ DOMAIN u = 1..Len(u)
  BY <1>1, <1>2, LenProperties
<1>4. u \in Seq(Range(u))
  BY <1>2, SeqOfRange
<1>5. \A i \in DOMAIN u : IF i <= Len(s) THEN i \in DOMAIN s /\ u[i] = s[i]
                          ELSE i - Len(s) \in DOMAIN t /\ u[i] = t[i - Len(s)]
  BY <1>2, <1>3
<1>6. ASSUME NEW i \in DOMAIN s PROVE s[i] \in Range(u)
  <2>1. i \in DOMAIN u /\ i <= Len(s)
    BY <1>2, <1>3
  <2>2. u[i] = s[i]
    BY <2>1, <1>5
  <2> QED BY <2>1, <2>2 DEF Range
<1>7. ASSUME NEW i \in DOMAIN t PROVE t[i] \in Range(u)
  <2>1. Len(s) + i \in DOMAIN u /\ ~(Len(s) + i <= Len(s)) /\ Len(s) + i - Len(s) = i
    BY <1>2, <1>3
  <2>2. u[Len(s) + i] = t[i]
    BY <2>1, <1>5
  <2> QED BY <2>1, <2>2 DEF Range
<1>8. Range(s) \subseteq Range(u) /\ Range(t) \subseteq Range(u)
  BY <1>6, <1>7 DEF Range
<1> QED BY <1>2, <1>3, <1>4, <1>5, <1>8

\* The placements of one package.
Result(items) ==
    /\ IsFiniteSet(items) /\ Distinct(items) /\ Locked \subseteq items
    /\ \A x \in items : Inside(x, Package) /\ AtItsGap(x.id, x.at)

(***************************************************************************)
(* Placements inside the window of their package keep what is done in time *)
(* order and its numbers apart: the windows before it end before it, and   *)
(* its numbers are in no other package.                                    *)
(***************************************************************************)
LEMMA DoneGrows ==
    ASSUME ScriptOk, Writing, run.stage = "writing", Working, NEW items, Result(items),
           NEW done, done = run.done \o Chronological(items)
    PROVE  /\ done \in Seq(Range(done))
           /\ Range(run.done) \subseteq Range(done) /\ items \subseteq Range(done)
           /\ \A i \in DOMAIN done :
                /\ \E k \in DOMAIN run.packages : k < run.next + 1 /\ Inside(done[i], run.packages[k])
                /\ AtItsGap(done[i].id, done[i].at)
           /\ \A i, j \in DOMAIN done :
                i < j => done[i].at <= done[j].at /\ done[i].id # done[j].id
<1> DEFINE s == run.done
           t == Chronological(items)
           P == run.packages
           n == run.next
<1>1. /\ n \in DOMAIN P /\ n \in Nat /\ Package = P[n]
  BY AtPackage
<1>2. /\ Ranged(P, run.raws, run.locked, Cuts) /\ Len(P) \in Nat /\ DOMAIN P = 1..Len(P)
      /\ \A k \in DOMAIN P : /\ P[k].cues \subseteq run.raws /\ Ids(P[k].cues) \subseteq Ids(run.raws)
                             /\ P[k].window \subseteq Lines(Cuts)
  BY AtWork DEF Writing
<1>3. Candidates(run.raws)
  BY DEF Writing, Begun
<1>4. \A k \in DOMAIN P : \A x : Inside(x, P[k]) => x.at \in Int /\ x.id \in Ids(run.raws)
  BY <1>2 DEF Inside, Lines, Moments
<1>5. ASSUME NEW j \in DOMAIN P, NEW k \in DOMAIN P, j < k, NEW x, Inside(x, P[j]), NEW y, Inside(y, P[k])
      PROVE  x.at <= y.at /\ x.id # y.id
  <2>1. Follows(P[j], P[k])
    BY <1>2, <1>5, Zenon DEF Ranged
  <2>2. x.at <= y.at
    BY <2>1, <1>5 DEF Follows, Inside
  <2>3. PICK q \in P[j].cues : q.id = x.id
    BY <1>5 DEF Inside, Ids
  <2>4. PICK r \in P[k].cues : r.id = y.id
    BY <1>5 DEF Inside, Ids
  <2>5. Before(q, r) /\ q \in run.raws /\ r \in run.raws
    BY <2>1, <2>3, <2>4, <1>2 DEF Follows
  <2>6. q # r
    <3>1. Orders(BeforeOn(run.raws), run.raws)
      BY <1>3, BeforeOrders
    <3>2. \A z \in run.raws : ~Before(z, z)
      BY <3>1 DEF Orders, BeforeOn
    <3> QED BY <3>2, <2>5
  <2>7. x.id # y.id
    BY <2>3, <2>4, <2>5, <2>6, <1>3 DEF Candidates, Distinct
  <2> QED BY <2>2, <2>7
<1>6. \A x \in items : Inside(x, P[n]) /\ AtItsGap(x.id, x.at)
  BY <1>1 DEF Result
<1>7. /\ t \in Seq(items)
      /\ \A k \in DOMAIN t : t[k] \in items
      /\ \A x \in items : \E k \in DOMAIN t : t[k] = x
      /\ \A j, k \in DOMAIN t : j < k => t[j].at <= t[k].at /\ t[j].id # t[k].id
  <2>1. \A x \in items : x.at \in Int /\ x.id \in Ids(run.raws)
    BY <1>1, <1>4, <1>6
  <2> QED BY <2>1, <1>3, ChronologicalFacts DEF Result
<1>8. /\ s \in Seq(Range(s))
      /\ \A i \in DOMAIN s :
           /\ \E k \in DOMAIN P : k < n /\ Inside(s[i], P[k])
           /\ AtItsGap(s[i].id, s[i].at)
      /\ \A i, j \in DOMAIN s : i < j => s[i].at <= s[j].at /\ s[i].id # s[j].id
  BY DEF Writing, DoneOk
<1> HIDE DEF s, t, P, n
<1>9. /\ done \in Seq(Range(done)) /\ Range(s) \subseteq Range(done) /\ Range(t) \subseteq Range(done)
      /\ Len(s) \in Nat /\ DOMAIN s = 1..Len(s) /\ Len(t) \in Nat /\ DOMAIN t = 1..Len(t)
      /\ Len(done) \in Nat /\ DOMAIN done = 1..Len(done) /\ Len(done) = Len(s) + Len(t)
      /\ \A i \in DOMAIN done : IF i <= Len(s) THEN i \in DOMAIN s /\ done[i] = s[i]
                                ELSE i - Len(s) \in DOMAIN t /\ done[i] = t[i - Len(s)]
  <2>1. done = s \o t
    BY DEF s, t
  <2> QED BY <2>1, <1>7, <1>8, Appended
<1>10. items \subseteq Range(done)
  <2>1. \A k \in DOMAIN t : t[k] \in Range(t)
    BY Zenon DEF Range
  <2> QED BY <2>1, <1>7, <1>9
<1>11. ASSUME NEW i \in DOMAIN done
       PROVE  /\ \E k \in DOMAIN P : k < n + 1 /\ Inside(done[i], P[k])
              /\ AtItsGap(done[i].id, done[i].at)
  <2>1. CASE i <= Len(s)
    <3>1. i \in DOMAIN s /\ done[i] = s[i]
      BY <2>1, <1>9
    <3>2. PICK k \in DOMAIN P : k < n /\ Inside(s[i], P[k])
      BY <3>1, <1>8
    <3>3. k < n + 1
      BY <3>2, <1>1, <1>2 DEF P, n
    <3> QED BY <3>1, <3>2, <3>3, <1>8
  <2>2. CASE ~(i <= Len(s))
    <3>1. i - Len(s) \in DOMAIN t /\ done[i] = t[i - Len(s)]
      BY <2>2, <1>9
    <3>2. done[i] \in items
      BY <3>1, <1>7
    <3>3. n < n + 1 /\ n \in DOMAIN P
      BY <1>1 DEF P, n
    <3> QED BY <3>2, <3>3, <1>6
  <2> QED BY <2>1, <2>2
<1>12. ASSUME NEW i \in DOMAIN done, NEW j \in DOMAIN done, i < j
       PROVE  done[i].at <= done[j].at /\ done[i].id # done[j].id
  <2>0. i \in Int /\ j \in Int
    BY <1>9
  <2>1. CASE j <= Len(s)
    <3>1. i <= Len(s)
      BY <2>0, <2>1, <1>9, <1>12
    <3>2. i \in DOMAIN s /\ j \in DOMAIN s /\ done[i] = s[i] /\ done[j] = s[j]
      BY <2>1, <3>1, <1>9
    <3>3. s[i].at <= s[j].at /\ s[i].id # s[j].id
      BY <3>2, <1>8, <1>12
    <3> QED BY <3>2, <3>3
  <2>2. CASE i <= Len(s) /\ ~(j <= Len(s))
    <3>1. i \in DOMAIN s /\ done[i] = s[i] /\ j - Len(s) \in DOMAIN t /\ done[j] = t[j - Len(s)]
      BY <2>2, <1>9
    <3>2. Inside(done[j], P[n])
      BY <3>1, <1>6, <1>7
    <3>3. PICK k \in DOMAIN P : k < n /\ Inside(s[i], P[k])
      BY <3>1, <1>8
    <3>4. n \in DOMAIN P
      BY <1>1 DEF P, n
    <3>5. done[i] = s[i]
      BY <3>1
    <3>6. s[i].at <= done[j].at /\ s[i].id # done[j].id
      BY <3>2, <3>3, <3>4, <1>5 DEF P
    <3> QED BY <3>5, <3>6
  <2>3. CASE ~(i <= Len(s))
    <3>1. ~(j <= Len(s))
      BY <2>0, <2>3, <1>9, <1>12
    <3>2. i - Len(s) \in DOMAIN t /\ done[i] = t[i - Len(s)]
      BY <2>3, <1>9
    <3>3. j - Len(s) \in DOMAIN t /\ done[j] = t[j - Len(s)]
      BY <3>1, <1>9
    <3>4. i - Len(s) < j - Len(s)
      BY <2>0, <1>9, <1>12
    <3>5. t[i - Len(s)].at <= t[j - Len(s)].at /\ t[i - Len(s)].id # t[j - Len(s)].id
      BY <3>2, <3>3, <3>4, <1>7
    <3> QED BY <3>2, <3>3, <3>5
  <2> QED BY <2>1, <2>2, <2>3
<1> QED BY <1>9, <1>10, <1>11, <1>12 DEF s, P, n

(***************************************************************************)
(* What is on disk stays on disk.                                          *)
(***************************************************************************)
LEMMA AnsweredStays ==
    ASSUME UNCHANGED <<script, intros, lexicon>>, files \subseteq files', NEW T, NEW k, Answered(T, k)
    PROVE  Answered(T, k)'
<1>1. /\ PackagesOf(T)' = PackagesOf(T) /\ IdsOf(T, k)' = IdsOf(T, k)
      /\ AskedOf(T, k)' = AskedOf(T, k) /\ LockedOf(T, k)' = LockedOf(T, k)
      /\ IntrosOf(T, k)' = IntrosOf(T, k)
  BY DEF PackagesOf, IdsOf, AskedOf, LockedOf, IntrosOf
<1>2. PayloadOf(T, k)' = PayloadOf(T, k)
  BY <1>1 DEF PayloadOf
<1> QED BY <1>1, <1>2 DEF Answered

(***************************************************************************)
(* A package whose result is accepted leaves the run as the invariant      *)
(* asks.                                                                   *)
(***************************************************************************)
LEMMA Accepted ==
    ASSUME ScriptOk, Writing, run.stage = "writing", Working, NEW items, Result(items),
           NEW new, LockedIntros \subseteq new, NEW names,
           Accept(Chronological(items), new, names),
           UNCHANGED <<script, intros, lexicon, heard>>, files \subseteq files',
           Asked = {} \/ \E f \in files' : f.payload = Payload
    PROVE  Writing' /\ run'.stage = "writing"
<1> DEFINE done == run.done \o Chronological(items)
           all == run.told \cup new
           known == run.found \cup names
<1>1. run = [stage |-> "writing", raws |-> run.raws, asked |-> run.asked, locked |-> run.locked,
             intros |-> run.intros, repairing |-> run.repairing, reason |-> run.reason,
             packages |-> run.packages, next |-> run.next, done |-> run.done, told |-> run.told,
              found |-> run.found]
  BY DEF Writing, Begun
<1>2. run' = [run EXCEPT !.next = run.next + 1, !.done = done, !.told = all, !.found = known]
  BY DEF Accept
<1> HIDE DEF done, all, known
<1>3. run' = [stage |-> "writing", raws |-> run.raws, asked |-> run.asked, locked |-> run.locked,
              intros |-> run.intros, repairing |-> run.repairing, reason |-> run.reason,
              packages |-> run.packages, next |-> run.next + 1, done |-> done, told |-> all,
              found |-> known]
  BY <1>1, <1>2
<1>4. /\ run'.raws = run.raws /\ run'.asked = run.asked /\ run'.locked = run.locked
      /\ run'.intros = run.intros /\ run'.repairing = run.repairing /\ run'.reason = run.reason
      /\ run'.packages = run.packages /\ run'.next = run.next + 1 /\ run'.done = done
      /\ run'.told = all /\ run'.found = known /\ run'.stage = "writing"
  BY <1>3
<1>5. /\ run' = [stage |-> "writing", raws |-> run'.raws, asked |-> run'.asked, locked |-> run'.locked,
              intros |-> run'.intros, repairing |-> run'.repairing, reason |-> run'.reason,
              packages |-> run'.packages, next |-> run'.next, done |-> run'.done, told |-> run'.told,
              found |-> run'.found]
  BY <1>3, <1>4
<1>6. Cuts' = Cuts
  BY DEF Cuts
<1>7. Task' = Task
  BY <1>4, <1>6 DEF Task
<1>8. Begun'
  <2>1. /\ run.repairing \in BOOLEAN /\ IsFiniteSet(run.raws) /\ Candidates(run.raws)
        /\ InPlace(run.raws, run.locked) /\ run.locked \subseteq script
        /\ \A c \in run.locked : c.id \in Ids(run.raws) \ run.asked
        /\ \A r \in run.raws : \A c \in run.locked :
             r.id = c.id => r.src = c.src /\ r.figure = c.figure
        /\ (~run.repairing => run.locked = {} /\ run.intros = {})
        /\ run.packages = Packages(run.raws, run.locked, Cuts)
    BY DEF Writing, Begun
  <2>2. \A r \in run.raws : Shaped(r) /\ AtItsGap(r.id, r.home)
    BY DEF Writing, Begun
  <2>3. \A r \in run'.raws : Shaped(r)' /\ AtItsGap(r.id, r.home)'
    BY <1>4, <2>2 DEF Shaped, AtItsGap
  <2> QED BY <1>4, <1>5, <1>6, <2>1, <2>3 DEF Begun
<1>9. IntrosOk'
  BY <1>4 DEF Writing, IntrosOk
<1>10. run.next \in DOMAIN run.packages /\ run.next \in Nat /\ DOMAIN run.packages = 1..Len(run.packages)
       /\ Len(run.packages) \in Nat
  BY AtPackage, AtWork DEF Writing
<1>11. /\ done \in Seq(Range(done))
       /\ Range(run.done) \subseteq Range(done) /\ items \subseteq Range(done)
       /\ \A i \in DOMAIN done :
            /\ \E k \in DOMAIN run.packages : k < run.next + 1 /\ Inside(done[i], run.packages[k])
            /\ AtItsGap(done[i].id, done[i].at)
       /\ \A i, j \in DOMAIN done :
            i < j => done[i].at <= done[j].at /\ done[i].id # done[j].id
  BY DoneGrows DEF done
<1>12. DoneOk'
  <2>1. run.next + 1 \in 1..Len(run.packages) + 1
    BY <1>10
  <2>2. \A i \in DOMAIN run'.done : AtItsGap(run.done[i].id, run.done[i].at)'
    <3>1. \A i \in DOMAIN done : AtItsGap(done[i].id, done[i].at)
      BY <1>11
    <3> QED BY <3>1, <1>4 DEF AtItsGap
  <2>3. \A i \in DOMAIN done : \E k \in DOMAIN run.packages :
          k < run.next + 1 /\ Inside(done[i], run.packages[k])
    BY <1>11
  <2> QED BY <1>4, <1>11, <2>1, <2>2, <2>3 DEF DoneOk
<1>13. ASSUME NEW k \in DOMAIN run.packages, k < run.next + 1
       PROVE  /\ LockedOf(Task, k) \subseteq Range(done) /\ IntrosOf(Task, k) \subseteq all
              /\ Answered(Task, k)'
  <2>1. k < run.next \/ k = run.next
    BY <1>10, <1>13
  <2>2. CASE k < run.next
    <3>1. /\ LockedOf(Task, k) \subseteq Range(run.done) /\ IntrosOf(Task, k) \subseteq run.told
          /\ Answered(Task, k)
      BY <2>2 DEF Writing, Delivered
    <3>2. Answered(Task, k)'
      <4> DEFINE T == Task
      <4>1. T' = T
        BY <1>7
      <4>2. Answered(T, k)
        BY <3>1
      <4> HIDE DEF T
      <4>3. ASSUME NEW X, X = T PROVE Answered(X, k)'
        BY <4>2, <4>3, AnsweredStays
      <4> QED BY <4>1, <4>3 DEF T
    <3> QED BY <3>1, <3>2, <1>11 DEF all
  <2>3. CASE k = run.next
    <3>1. /\ Asked = AskedOf(Task, k) /\ Locked = LockedOf(Task, k)
          /\ LockedIntros = IntrosOf(Task, k) /\ Payload = PayloadOf(Task, k)
      BY <2>3, AtPackage
    <3>2. LockedOf(Task, k) \subseteq Range(done)
      BY <3>1, <1>11 DEF Result
    <3>3. IntrosOf(Task, k) \subseteq all
      BY <3>1 DEF all
    <3>4. Answered(Task, k)'
      BY <3>1, <1>7 DEF Answered, AskedOf, PayloadOf, IdsOf, LockedOf, IntrosOf, PackagesOf, Cuts
    <3> QED BY <3>2, <3>3, <3>4
  <2> QED BY <2>1, <2>2, <2>3
<1>14. Delivered'
  <2>1. ASSUME NEW k \in DOMAIN run.packages, k < run.next + 1
        PROVE  /\ LockedOf(Task, k)' \subseteq Range(done) /\ IntrosOf(Task, k)' \subseteq all
               /\ Answered(Task, k)'
    <3>1. LockedOf(Task, k)' = LockedOf(Task, k) /\ IntrosOf(Task, k)' = IntrosOf(Task, k)
      BY <1>7 DEF LockedOf, IntrosOf, IdsOf, AskedOf, PackagesOf
    <3> QED BY <2>1, <3>1, <1>13
  <2> QED BY <2>1, <1>4 DEF Delivered
<1> QED BY <1>4, <1>8, <1>9, <1>12, <1>14 DEF Writing

-----------------------------------------------------------------------------
(* What the agent may answer. *)

\* What a stored answer keeps of the contract of its package.
Answering(cut, told) ==
    /\ IsFiniteSet(cut) /\ Distinct(cut)
    /\ \A x \in cut : Inside(x, Package) /\ AtItsGap(x.id, x.at)
    /\ LockedIntros \subseteq told

(***************************************************************************)
(* An answer that fits the package and that the validator lets pass keeps  *)
(* the contract.                                                           *)
(***************************************************************************)
LEMMA AlignmentsFacts ==
    ASSUME ScriptOk, Writing, run.stage = "writing", Working, NEW a \in Alignments
    PROVE  Answering(a.cut, a.told)
<1> DEFINE result(ids, at, new) == [cut |-> Comments(ids, at), told |-> new \cup LockedIntros]
<1>1. \E ids \in SUBSET Asked : \E at \in [ids -> Package.window] : \E new :
         (\A id \in ids : at[id] \in PlacesOf(id)) /\ a = result(ids, at, new)
  <2> DEFINE Mentions(id) == {f \in Package.figures :
                                IF \E r \in Package.cues : r.figure = f THEN RawOf(id).figure = f
                                ELSE f \in Named(RawOf(id))}
             missing == Package.figures \ {i.figure : i \in LockedIntros}
             must == {id \in Asked : OfGap(id) \/ id \in Edges}
             new(who) == {[figure |-> f, cue |-> who[f]] : f \in missing}
             Ats(ids) == {g \in [ids -> Package.window] : \A id \in ids : g[id] \in PlacesOf(id)}
             Whos(ids) == {w \in [missing -> ids] : \A f \in missing : f \in Mentions(w[f])}
  <2>1. a \in UNION {UNION {{result(ids, at, new(who)) : at \in Ats(ids)} : who \in Whos(ids)} :
                        ids \in {S \in SUBSET Asked : must \subseteq S}}
    BY Zenon DEF Alignments
  <2> HIDE DEF result, new, Whos, must
  <2>2. PICK ids \in SUBSET Asked :
          a \in UNION {{result(ids, at, new(who)) : at \in Ats(ids)} : who \in Whos(ids)}
    BY <2>1
  <2>3. PICK who \in Whos(ids) : a \in {result(ids, at, new(who)) : at \in Ats(ids)}
    BY <2>2
  <2>4. PICK at \in Ats(ids) : a = result(ids, at, new(who))
    BY <2>3
  <2>5. at \in [ids -> Package.window] /\ \A id \in ids : at[id] \in PlacesOf(id)
    BY <2>4
  <2> QED BY <2>4, <2>5
<1>2. PICK ids \in SUBSET Asked : \E at \in [ids -> Package.window] : \E new :
         (\A id \in ids : at[id] \in PlacesOf(id)) /\ a = result(ids, at, new)
  BY <1>1
<1>3. PICK at \in [ids -> Package.window] : \E new :
         (\A id \in ids : at[id] \in PlacesOf(id)) /\ a = result(ids, at, new)
  BY <1>2
<1>0. PICK new : (\A id \in ids : at[id] \in PlacesOf(id)) /\ a = result(ids, at, new)
  BY <1>3
<1> DEFINE g == [id \in ids |-> [id |-> id, at |-> at[id], words |-> Written(id)]]
           N == {g[id] : id \in ids}
<1>4. a = [cut |-> N \cup Locked, told |-> new \cup LockedIntros]
  BY <1>0 DEF Comments
<1> HIDE DEF result
<1>5. DOMAIN g = ids /\ \A id \in ids : g[id].id = id /\ g[id].at = at[id]
  OBVIOUS
<1> HIDE DEF g, N
<1>6. /\ run.next \in DOMAIN run.packages /\ Package = run.packages[run.next]
      /\ Package.cues \subseteq run.raws /\ Ids(Package.cues) \subseteq Ids(run.raws)
  BY AtPackage, AtWork DEF Writing
<1>7. ids \subseteq Ids(Package.cues) /\ (run.repairing => ids \subseteq run.asked)
  BY DEF Asked, PackageIds
<1>8. IsFiniteSet(N)
  <2>1. IsFiniteSet(Package.cues)
    BY <1>6, FS_Subset DEF Writing, Begun
  <2> DEFINE f == [r \in Package.cues |-> r.id]
  <2>2. Ids(Package.cues) = {f[r] : r \in Package.cues} /\ DOMAIN f = Package.cues
    BY DEF Ids
  <2> HIDE DEF f
  <2>3. IsFiniteSet(Ids(Package.cues))
    BY <2>1, <2>2, FiniteImage
  <2>4. IsFiniteSet(ids)
    BY <2>3, <1>7, FS_Subset
  <2> QED BY <2>4, <1>5, FiniteImage DEF N
<1>9. /\ IsFiniteSet(Locked) /\ Distinct(Locked)
      /\ \A x \in Locked : Inside(x, Package) /\ AtItsGap(x.id, x.at)
      /\ ~run.repairing => Locked = {}
  BY LockedFacts
<1>10. ASSUME NEW x \in Locked PROVE x.id \notin ids
  <2>1. run.repairing
    BY <1>9
  <2>2. PICK c \in run.locked : x = Placed(c)
    BY DEF Locked
  <2>3. x.id = c.id
    BY <2>2 DEF Placed
  <2> QED BY <2>1, <2>3, <1>7 DEF Writing, Begun
<1>11. ASSUME NEW x \in N
       PROVE  x.id \in ids /\ x.at = at[x.id] /\ x = g[x.id]
  BY <1>5 DEF N
<1>12. Distinct(N \cup Locked)
  <2> SUFFICES ASSUME NEW x \in N \cup Locked, NEW y \in N \cup Locked, x.id = y.id PROVE x = y
    BY DEF Distinct
  <2>1. CASE x \in N /\ y \in N
    BY <2>1, <1>11
  <2>2. CASE x \in Locked /\ y \in Locked
    BY <2>2, <1>9 DEF Distinct
  <2>3. CASE x \in N /\ y \in Locked
    BY <2>3, <1>10, <1>11
  <2>4. CASE x \in Locked /\ y \in N
    BY <2>4, <1>10, <1>11
  <2> QED BY <2>1, <2>2, <2>3, <2>4
<1>13. ASSUME NEW x \in N PROVE Inside(x, Package) /\ AtItsGap(x.id, x.at)
  <2>1. x.at \in Package.window /\ x.id \in Ids(Package.cues) /\ x.id \in ids
    BY <1>0, <1>3, <1>7, <1>11
  <2>2. x.at \in PlacesOf(x.id)
    BY <2>1, <1>0, <1>11
  <2>3. RawOf(x.id) \in run.raws /\ RawOf(x.id).id = x.id
    BY <2>1, <1>6, RawOfFacts DEF Writing, Begun
  <2>4. AtItsGap(x.id, RawOf(x.id).home)
    BY <2>3 DEF Writing, Begun
  <2>5. OfGap(x.id) => x.at = RawOf(x.id).home
    BY <2>2 DEF PlacesOf
  <2>6. AtItsGap(x.id, x.at)
    BY <2>4, <2>5 DEF AtItsGap
  <2> QED BY <2>1, <2>6 DEF Inside
<1>14. IsFiniteSet(N \cup Locked)
  BY <1>8, <1>9, FS_Union
<1>15. Answering(N \cup Locked, new \cup LockedIntros)
  BY <1>9, <1>12, <1>13, <1>14 DEF Answering
<1> QED BY <1>4, <1>15

\* The names it has found do not touch that.
LEMMA AnswersFacts ==
    ASSUME ScriptOk, Writing, run.stage = "writing", Working, NEW a \in Answers
    PROVE  Answering(a.cut, a.told) /\ a = [cut |-> a.cut, told |-> a.told, names |-> a.names]
<1>1. PICK b \in Alignments, names \in SUBSET Clues :
         a = [cut |-> b.cut, told |-> b.told, names |-> names]
  BY DEF Answers
<1>2. a.cut = b.cut /\ a.told = b.told /\ a.names = names
  BY <1>1
<1>3. Answering(b.cut, b.told)
  BY AlignmentsFacts
<1> QED BY <1>1, <1>2, <1>3

(***************************************************************************)
(* So does one that is cut down to what is locked, and one in which the    *)
(* agent gave back less.                                                   *)
(***************************************************************************)
LEMMA GivenFacts ==
    ASSUME ScriptOk, Writing, run.stage = "writing", Working, NEW a \in Good \cup Lossy
    PROVE  Answering(a.cut, a.told)
<1>1. CASE a \in Good
  BY <1>1, AnswersFacts DEF Good
<1>2. CASE a \in Lossy
  <2>1. PICK b \in Good : a = [b EXCEPT !.cut = @ \ Locked]
    BY <1>2 DEF Lossy
  <2>2. Answering(b.cut, b.told) /\ b = [cut |-> b.cut, told |-> b.told, names |-> b.names]
    BY <2>1, AnswersFacts DEF Good
  <2>3. a.cut = b.cut \ Locked /\ a.told = b.told
    BY <2>1, <2>2
  <2>4. a.cut \in SUBSET b.cut
    BY <2>3
  <2>5. IsFiniteSet(a.cut)
    BY <2>2, <2>4, FS_Subset DEF Answering
  <2> QED BY <2>2, <2>3, <2>4, <2>5 DEF Answering, Distinct
<1> QED BY <1>1, <1>2

(***************************************************************************)
(* A package that takes such an answer leaves the run as the invariant     *)
(* asks.                                                                   *)
(***************************************************************************)
LEMMA TakenWell ==
    ASSUME ScriptOk, Writing, run.stage = "writing", Working, NEW a, Answering(a.cut, a.told),
           Take(a), UNCHANGED <<script, intros, lexicon, heard>>, files \subseteq files',
           \E f \in files' : f.payload = Payload
    PROVE  Writing' /\ run'.stage = "writing"
<1> DEFINE r == Enforced(a)
<1>1. Accept(Chronological(r.cut), r.told, r.names)
  BY DEF Take
<1>2. /\ IsFiniteSet(Locked) /\ Distinct(Locked)
      /\ \A x \in Locked : Inside(x, Package) /\ AtItsGap(x.id, x.at)
      /\ ~run.repairing => Locked = {}
  BY LockedFacts
<1>3. Result(r.cut) /\ LockedIntros \subseteq r.told
  <2>1. CASE ~run.repairing \/ Locked = {}
    <3>1. r = a /\ Locked = {}
      BY <2>1, <1>2 DEF Enforced
    <3> HIDE DEF r
    <3> QED BY <3>1 DEF Answering, Result
  <2>2. CASE ~(~run.repairing \/ Locked = {})
    <3> DEFINE G == {x \in a.cut : x.id \notin Ids(Locked)}
    <3>1. r.cut = G \cup Locked /\ LockedIntros \subseteq r.told
      BY <2>2 DEF Enforced
    <3>2. G \in SUBSET a.cut /\ \A x \in G : x.id \notin Ids(Locked)
      OBVIOUS
    <3> HIDE DEF r, G
    <3>3. IsFiniteSet(G) /\ Distinct(G) /\ \A x \in G : Inside(x, Package) /\ AtItsGap(x.id, x.at)
      BY <3>2, FS_Subset DEF Answering, Distinct
    <3>4. IsFiniteSet(G \cup Locked)
      BY <3>3, <1>2, FS_Union
    <3>5. Distinct(G \cup Locked)
      BY <3>2, <3>3, <1>2 DEF Distinct, Ids
    <3> QED BY <3>1, <3>3, <3>4, <3>5, <1>2 DEF Result
  <2> QED BY <2>1, <2>2
<1> HIDE DEF r
<1> QED BY <1>1, <1>3, Accepted

-----------------------------------------------------------------------------
(* The end of a run: nothing is dropped. *)

\* The line of the last placement that passed.
LastBy(h) ==
    [k \in 0..Len(run.done) |->
        IF k = 0 THEN 0
        ELSE IF run.done[k].at \in Cuts THEN h[k - 1] ELSE Max({h[k - 1], run.done[k].at})]

(***************************************************************************)
(* What apply_scene_alignments lets pass, with the recursive function it   *)
(* stands for.                                                             *)
(***************************************************************************)
LEMMA AppliedIs ==
    Applied = {run.done[k] : k \in {k \in DOMAIN run.done :
                 /\ run.done[k].at \notin Cuts
                 /\ run.done[k].at >= (CHOOSE h : h = LastBy(h))[k - 1]}}
BY DEF Applied, LastBy

(***************************************************************************)
(* What is done lies at usable lines, each number once.                    *)
(***************************************************************************)
LEMMA DoneFacts ==
    ASSUME ScriptOk, Writing
    PROVE  /\ Len(run.done) \in Nat /\ DOMAIN run.done = 1..Len(run.done)
           /\ \A k \in DOMAIN run.done :
                /\ run.done[k].at \in Lines(Cuts) /\ run.done[k].at \in Nat \ {0}
                /\ run.done[k].id \in Ids(run.raws)
           /\ \A j, k \in DOMAIN run.done : run.done[j].id = run.done[k].id => j = k
<1>1. Len(run.done) \in Nat /\ DOMAIN run.done = 1..Len(run.done)
  <2>1. run.done \in Seq(Range(run.done))
    BY DEF Writing, DoneOk
  <2> QED BY <2>1, LenProperties
<1>2. ASSUME NEW k \in DOMAIN run.done
      PROVE  /\ run.done[k].at \in Lines(Cuts) /\ run.done[k].at \in Nat \ {0}
             /\ run.done[k].id \in Ids(run.raws)
  <2>1. PICK p \in DOMAIN run.packages : Inside(run.done[k], run.packages[p])
    BY DEF Writing, DoneOk
  <2>2. run.packages[p].window \subseteq Lines(Cuts) /\ Ids(run.packages[p].cues) \subseteq Ids(run.raws)
    BY AtWork DEF Writing
  <2>3. run.done[k].at \in Lines(Cuts) /\ run.done[k].id \in Ids(run.raws)
    BY <2>1, <2>2 DEF Inside
  <2> QED BY <2>3 DEF Lines, Moments
<1>3. ASSUME NEW j \in DOMAIN run.done, NEW k \in DOMAIN run.done, run.done[j].id = run.done[k].id
      PROVE  j = k
  <2>1. \A i, l \in DOMAIN run.done : i < l => run.done[i].id # run.done[l].id
    BY DEF Writing, DoneOk
  <2>2. j \in Int /\ k \in Int
    BY <1>1
  <2>3. ~(j < k) /\ ~(k < j)
    BY <2>1, <1>3
  <2> QED BY <2>2, <2>3
<1> QED BY <1>1, <1>2, <1>3

(***************************************************************************)
(* It lets everything pass.                                                *)
(***************************************************************************)
LEMMA AllApplied ==
    ASSUME ScriptOk, Writing
    PROVE  Applied = {run.done[k] : k \in DOMAIN run.done}
<1> DEFINE d == run.done
           n == Len(d)
           e == [k \in 0..n |-> IF k = 0 THEN 0 ELSE d[k].at]
           h == CHOOSE f : f = LastBy(f)
           bad == {k \in Nat : k \in 0..n /\ h[k] # e[k]}
<1>1. /\ n \in Nat /\ DOMAIN d = 1..n
      /\ \A k \in 1..n : d[k].at \notin Cuts /\ d[k].at \in Nat \ {0}
  BY DoneFacts DEF Lines
<1>2. \A j, k \in 1..n : j < k => d[j].at <= d[k].at
  <2>1. \A j, k \in DOMAIN d : j < k => d[j].at <= d[k].at
    BY DEF Writing, DoneOk
  <2> HIDE DEF d, n
  <2> QED BY <2>1, <1>1
<1>3. \A f : LastBy(f) = [k \in 0..n |-> IF k = 0 THEN 0 ELSE IF d[k].at \in Cuts THEN f[k - 1]
                                         ELSE Max({f[k - 1], d[k].at})]
  BY DEF LastBy
<1> HIDE DEF d, n
<1>4. \A k \in 1..n : k - 1 \in 0..n /\ e[k] = d[k].at /\ e[k - 1] \in Nat /\ e[k - 1] <= d[k].at
  <2> SUFFICES ASSUME NEW k \in 1..n
               PROVE  k - 1 \in 0..n /\ e[k] = d[k].at /\ e[k - 1] \in Nat /\ e[k - 1] <= d[k].at
    OBVIOUS
  <2>1. k - 1 \in 0..n /\ e[k] = d[k].at /\ d[k].at \in Nat
    BY <1>1
  <2>2. CASE k = 1
    <3>1. e[k - 1] = 0
      BY <2>1, <2>2
    <3> QED BY <2>1, <3>1
  <2>3. CASE k # 1
    <3>1. k - 1 \in 1..n /\ k - 1 < k
      BY <2>3, <1>1
    <3>2. e[k - 1] = d[k - 1].at
      BY <3>1, <2>1
    <3>3. d[k - 1].at <= d[k].at /\ d[k - 1].at \in Nat
      BY <3>1, <1>1, <1>2
    <3> HIDE DEF e
    <3> QED BY <2>1, <3>2, <3>3
  <2> QED BY <2>2, <2>3
<1>5. ASSUME NEW a \in Nat, NEW b \in Nat, a <= b PROVE Max({a, b}) = b
  <2>1. \A x \in {a, b} : (\A y \in {a, b} : x >= y) <=> x = b
    BY <1>5
  <2>2. Max({a, b}) = CHOOSE x \in {a, b} : \A y \in {a, b} : x >= y
    BY DEF Max
  <2> QED BY <2>1, <2>2
<1>6. e[0] = 0 /\ DOMAIN e = 0..n
  BY <1>1
<1>7. e = [k \in 0..n |-> e[k]]
  OBVIOUS
<1> HIDE DEF e
<1>8. LastBy(e) = e
  <2> DEFINE v(k) == IF k = 0 THEN 0 ELSE IF d[k].at \in Cuts THEN e[k - 1]
                     ELSE Max({e[k - 1], d[k].at})
  <2>1. ASSUME NEW k \in 0..n PROVE v(k) = e[k]
    <3>1. CASE k = 0
      BY <3>1, <1>6
    <3>2. CASE k # 0
      <4>1. k \in 1..n
        BY <3>2, <1>1
      <4>2. Max({e[k - 1], d[k].at}) = d[k].at
        BY <4>1, <1>1, <1>4, <1>5
      <4> QED BY <3>2, <4>1, <4>2, <1>1, <1>4
    <3> QED BY <3>1, <3>2
  <2>2. LastBy(e) = [k \in 0..n |-> v(k)]
    BY <1>3
  <2> HIDE DEF v
  <2> QED BY <2>1, <2>2, <1>7
<1>9. h = LastBy(h)
  BY <1>8
<1> HIDE DEF h
<1>10. h[0] = 0 /\ \A k \in 1..n : h[k] = Max({h[k - 1], d[k].at})
  <2>1. h = [k \in 0..n |-> IF k = 0 THEN 0 ELSE IF d[k].at \in Cuts THEN h[k - 1]
                            ELSE Max({h[k - 1], d[k].at})]
    BY <1>3, <1>9
  <2>2. \A k \in 0..n : h[k] = IF k = 0 THEN 0 ELSE IF d[k].at \in Cuts THEN h[k - 1]
                               ELSE Max({h[k - 1], d[k].at})
    BY <2>1
  <2>3. h[0] = 0
    <3>1. 0 \in 0..n
      BY <1>1
    <3>2. h[0] = IF 0 = 0 THEN 0 ELSE IF d[0].at \in Cuts THEN h[0 - 1] ELSE Max({h[0 - 1], d[0].at})
      BY <2>2, <3>1
    <3> QED BY <3>2
  <2>4. ASSUME NEW k \in 1..n PROVE h[k] = Max({h[k - 1], d[k].at})
    <3>1. k \in 0..n /\ k # 0 /\ d[k].at \notin Cuts
      BY <1>1
    <3> QED BY <3>1, <2>2
  <2> QED BY <2>3, <2>4
<1>11. bad = {}
  <2> SUFFICES ASSUME bad # {} PROVE FALSE
    OBVIOUS
  <2>1. bad \subseteq Nat
    OBVIOUS
  <2>2. PICK k \in bad : \A o \in bad : k <= o
    BY <2>1, HasLeast
  <2>3. k \in 0..n /\ h[k] # e[k] /\ k \in Nat
    BY <2>2
  <2>4. k \in 1..n
    BY <2>3, <1>1, <1>6, <1>10
  <2>5. k - 1 \in Nat /\ k - 1 \in 0..n /\ k - 1 \notin bad
    <3>1. k - 1 \in Nat /\ k - 1 \in 0..n /\ ~(k <= k - 1)
      BY <2>4, <1>1
    <3> HIDE DEF bad
    <3> QED BY <3>1, <2>2
  <2>6. h[k - 1] = e[k - 1]
    BY <2>5
  <2>7. h[k] = Max({e[k - 1], d[k].at})
    BY <2>4, <2>6, <1>10
  <2>8. h[k] = d[k].at
    BY <2>4, <2>7, <1>1, <1>4, <1>5
  <2> QED BY <2>3, <2>4, <2>8, <1>4
<1>12. \A k \in 1..n : d[k].at >= h[k - 1]
  <2> SUFFICES ASSUME NEW k \in 1..n PROVE d[k].at >= h[k - 1]
    OBVIOUS
  <2>1. k - 1 \in Nat /\ k - 1 \in 0..n
    BY <1>1
  <2>2. h[k - 1] = e[k - 1]
    BY <2>1, <1>11
  <2> QED BY <2>2, <1>1, <1>4
<1>13. Applied = {d[k] : k \in {k \in DOMAIN d : d[k].at \notin Cuts /\ d[k].at >= h[k - 1]}}
  BY AppliedIs DEF h, d
<1>14. {k \in DOMAIN d : d[k].at \notin Cuts /\ d[k].at >= h[k - 1]} = DOMAIN d
  BY <1>1, <1>12
<1>15. Applied = {d[k] : k \in DOMAIN d}
  BY <1>13, <1>14
<1> QED BY <1>15 DEF d

-----------------------------------------------------------------------------
(* The script that is written or moved. *)

(***************************************************************************)
(* The script a run writes is a script.                                    *)
(***************************************************************************)
LEMMA NewScript ==
    ASSUME ScriptOk, Writing, heard' = heard, script' = {Cue(x) : x \in Applied}
    PROVE  ScriptOk'
<1> DEFINE D == DOMAIN run.done
           f == [k \in D |-> Cue(run.done[k])]
           S == {f[k] : k \in D}
<1>1. script' = S
  <2>1. Applied = {run.done[k] : k \in D}
    BY AllApplied
  <2>2. {Cue(x) : x \in Applied} = {Cue(run.done[k]) : k \in D}
    BY <2>1
  <2> QED BY <2>2
<1>2. ASSUME NEW k \in D
      PROVE  /\ f[k].id = run.done[k].id /\ f[k].at = run.done[k].at
             /\ f[k].src = RawOf(run.done[k].id).src /\ f[k].figure = RawOf(run.done[k].id).figure
             /\ f[k] = [id |-> f[k].id, at |-> f[k].at, words |-> f[k].words, src |-> f[k].src,
                        figure |-> f[k].figure]
  BY DEF Cue
<1>3. DOMAIN f = D
  OBVIOUS
<1>4. IsFiniteSet(D)
  BY DoneFacts, FS_Interval
<1> HIDE DEF f
<1>5. IsFiniteSet(S)
  BY <1>3, <1>4, FiniteImage
<1>6. Distinct(S)
  <2> SUFFICES ASSUME NEW j \in D, NEW k \in D, f[j].id = f[k].id PROVE f[j] = f[k]
    BY DEF Distinct
  <2>1. j = k
    BY <1>2, DoneFacts
  <2> QED BY <2>1
<1>7. ASSUME NEW k \in D
      PROVE  f[k].at \in Moments \ Mute /\ Shaped(f[k]) /\ AtItsGap(f[k].id, f[k].at)
  <2>1. run.done[k].at \in Lines(Cuts) /\ run.done[k].id \in Ids(run.raws)
    BY DoneFacts
  <2>2. f[k].at \in Moments \ Mute
    BY <2>1, <1>2 DEF Lines
  <2> DEFINE r == RawOf(run.done[k].id)
  <2>3. r \in run.raws /\ r.id = run.done[k].id
    BY <2>1, RawOfFacts DEF Writing, Begun
  <2>4. Shaped(r)
    BY <2>3 DEF Writing, Begun
  <2>5. f[k].id = r.id /\ f[k].src = r.src /\ f[k].figure = r.figure
    BY <2>3, <1>2
  <2> HIDE DEF r
  <2>6. Shaped(f[k])
    BY <2>4, <2>5 DEF Shaped
  <2>7. AtItsGap(f[k].id, f[k].at)
    BY <1>2 DEF Writing, DoneOk
  <2> QED BY <2>2, <2>6, <2>7
<1>8. \A c \in S :
         /\ c = [id |-> c.id, at |-> c.at, words |-> c.words, src |-> c.src, figure |-> c.figure]
         /\ c.at \in Moments \ Mute /\ Shaped(c) /\ AtItsGap(c.id, c.at)
  BY <1>2, <1>7
<1> HIDE DEF S
<1>9. \A c \in S : Shaped(c)' /\ AtItsGap(c.id, c.at)'
  BY <1>8 DEF Shaped, AtItsGap
<1> QED BY <1>1, <1>5, <1>6, <1>8, <1>9 DEF ScriptOk

(***************************************************************************)
(* The line a comment moves to is a line of the script's recordings.       *)
(***************************************************************************)
LEMMA OutwardFacts ==
    ASSUME NEW at \in Moments, Near(at) # {}
    PROVE  Outward(at) \in Moments \ Mute
<1> DEFINE later == {s \in Near(at) : at < s}
<1>1. Near(at) \subseteq Moments \ Mute
  BY DEF Near, Lines
<1>2. CASE later # {}
  <2>1. later \subseteq Near(at) /\ Outward(at) = Min(later)
    BY <1>2 DEF Outward
  <2> HIDE DEF later
  <2>2. Min(later) \in later
    BY <2>1, <1>1, <1>2, Extremes
  <2> QED BY <2>1, <2>2, <1>1
<1>3. CASE later = {}
  <2>1. Outward(at) = Max(Near(at))
    BY <1>3 DEF Outward
  <2>2. Max(Near(at)) \in Near(at)
    BY <1>1, Extremes
  <2> QED BY <2>1, <2>2, <1>1
<1> QED BY <1>2, <1>3

(***************************************************************************)
(* The script a render moves out of the titles is a script.                *)
(***************************************************************************)
LEMMA MovedScript ==
    ASSUME ScriptOk, Render
    PROVE  ScriptOk'
<1>1. heard' = TRUE
  BY DEF Render
<1>2. PICK stay : /\ \A c \in script : c.at \in HeardCut /\ c.id \notin stay => Near(c.at) # {}
                  /\ script' = {IF c.at \in HeardCut /\ c.id \notin stay
                                THEN [c EXCEPT !.at = Outward(c.at)] ELSE c : c \in script}
  BY DEF Render
<1> DEFINE moved(c) == c.at \in HeardCut /\ c.id \notin stay
           f == [c \in script |-> IF moved(c) THEN [c EXCEPT !.at = Outward(c.at)] ELSE c]
           S == {f[c] : c \in script}
<1>3. script' = S
  BY <1>2
<1>4. /\ IsFiniteSet(script) /\ Distinct(script)
      /\ \A c \in script :
           /\ c = [id |-> c.id, at |-> c.at, words |-> c.words, src |-> c.src, figure |-> c.figure]
           /\ c.at \in Moments \ Mute /\ Shaped(c) /\ AtItsGap(c.id, c.at)
  BY DEF ScriptOk
<1>5. ASSUME NEW c \in script
      PROVE  /\ f[c] = [id |-> c.id, at |-> f[c].at, words |-> c.words, src |-> c.src,
                        figure |-> c.figure]
             /\ f[c].at \in Moments \ Mute
             /\ f[c].at = c.at \/ c.at \in HeardCut
  <2>1. CASE moved(c)
    <3>1. f[c] = [c EXCEPT !.at = Outward(c.at)]
      BY <2>1
    <3>2. Outward(c.at) \in Moments \ Mute
      BY <2>1, <1>2, <1>4, OutwardFacts
    <3>3. c = [id |-> c.id, at |-> c.at, words |-> c.words, src |-> c.src, figure |-> c.figure]
      BY <1>4
    <3> HIDE DEF f
    <3>4. f[c] = [id |-> c.id, at |-> Outward(c.at), words |-> c.words, src |-> c.src,
                  figure |-> c.figure]
      <4> DEFINE i == c.id
                 h == c.at
                 w == c.words
                 s == c.src
                 g == c.figure
                 o == Outward(c.at)
      <4>1. c = [id |-> i, at |-> h, words |-> w, src |-> s, figure |-> g]
        BY <3>3
      <4>2. f[c] = [c EXCEPT !.at = o]
        BY <3>1
      <4> HIDE DEF i, h, w, s, g, o
      <4>3. f[c] = [id |-> i, at |-> o, words |-> w, src |-> s, figure |-> g]
        BY <4>1, <4>2
      <4> QED BY <4>3 DEF i, w, s, g, o
    <3>5. f[c].at = Outward(c.at)
      BY <3>4
    <3> QED BY <3>2, <3>4, <3>5, <2>1
  <2>2. CASE ~moved(c)
    <3>1. f[c] = c
      BY <2>2
    <3> HIDE DEF f
    <3> QED BY <3>1, <1>4
  <2> QED BY <2>1, <2>2
<1>6. DOMAIN f = script
  OBVIOUS
<1> HIDE DEF f
<1>7. \A c \in script : f[c].id = c.id /\ f[c].words = c.words /\ f[c].src = c.src /\ f[c].figure = c.figure
  <2> SUFFICES ASSUME NEW c \in script
               PROVE  /\ f[c].id = c.id /\ f[c].words = c.words /\ f[c].src = c.src
                      /\ f[c].figure = c.figure
    OBVIOUS
  <2> DEFINE a == f[c].at
  <2>1. f[c] = [id |-> c.id, at |-> a, words |-> c.words, src |-> c.src, figure |-> c.figure]
    BY <1>5
  <2> HIDE DEF a
  <2> QED BY <2>1
<1>8. IsFiniteSet(S)
  BY <1>4, <1>6, FiniteImage
<1>9. Distinct(S)
  BY <1>4, <1>7 DEF Distinct
<1>10. ASSUME NEW e \in S
       PROVE  /\ e = [id |-> e.id, at |-> e.at, words |-> e.words, src |-> e.src, figure |-> e.figure]
              /\ e.at \in Moments \ Mute
              /\ Shaped(e) /\ AtItsGap(e.id, e.at)'
  <2>1. PICK c \in script : e = f[c]
    OBVIOUS
  <2>2. Shaped(c) /\ AtItsGap(c.id, c.at) /\ (e.at = c.at \/ c.at \in HeardCut)
    BY <2>1, <1>4, <1>5
  <2>3. e.id = c.id /\ e.src = c.src /\ e.figure = c.figure
    BY <2>1, <1>7
  <2>4. Shaped(e)
    BY <2>2, <2>3 DEF Shaped
  <2>5. OfGap(e.id) => e.at = e.id - GapIds \/ e.id - GapIds \in HeardCut
    BY <2>2, <2>3 DEF AtItsGap
  <2>6. AtItsGap(e.id, e.at)'
    BY <2>5, <1>1 DEF AtItsGap
  <2>7. /\ e = [id |-> e.id, at |-> e.at, words |-> e.words, src |-> e.src, figure |-> e.figure]
        /\ e.at \in Moments \ Mute
    BY <2>1, <1>5, <1>7
  <2> QED BY <2>4, <2>6, <2>7
<1> HIDE DEF S
<1>11. \A e \in script' : /\ e = [id |-> e.id, at |-> e.at, words |-> e.words, src |-> e.src,
                                  figure |-> e.figure]
                          /\ e.at \in Moments \ Mute /\ Shaped(e)' /\ AtItsGap(e.id, e.at)'
  BY <1>3, <1>10 DEF Shaped
<1> QED BY <1>3, <1>8, <1>9, <1>11 DEF ScriptOk

-----------------------------------------------------------------------------
(* Around a run. *)

(***************************************************************************)
(* What an answer on disk promises stays true when the titles have been    *)
(* heard.                                                                  *)
(***************************************************************************)
LEMMA FilesStay ==
    ASSUME heard => heard', \A f \in files : FileOk(f)
    PROVE  \A f \in files : FileOk(f)'
<1> SUFFICES ASSUME NEW f \in files PROVE FileOk(f)'
  OBVIOUS
<1>1. FileOk(f)
  OBVIOUS
<1>2. \A id, at : AtItsGap(id, at) => AtItsGap(id, at)'
  BY DEF AtItsGap
<1> QED BY <1>1, <1>2 DEF FileOk

(***************************************************************************)
(* What a broken run had finished stays on disk.                           *)
(***************************************************************************)
LEMMA BrokenStays ==
    ASSUME BrokenOk, UNCHANGED <<script, intros, lexicon, broken>>, files \subseteq files'
    PROVE  BrokenOk'
<1>1. ASSUME NEW T, NEW k, Answered(T, k) PROVE Answered(T, k)'
  BY <1>1, AnsweredStays
<1>2. \A T : PackagesOf(T)' = PackagesOf(T)
  BY DEF PackagesOf
<1> QED BY <1>1, <1>2 DEF BrokenOk

(***************************************************************************)
(* A run that fails leaves behind what it has finished.                    *)
(***************************************************************************)
LEMMA FailedWell ==
    ASSUME ScriptOk, Writing, run.stage = "writing", Failed
    PROVE  BrokenOk' /\ run' = Idle
<1>1. broken' = [scope |-> {Task}, next |-> run.next] /\ run' = Idle
      /\ UNCHANGED <<script, intros, lexicon, heard, files>>
  BY DEF Failed
<1>2. broken'.scope = {Task} /\ broken'.next = run.next
  BY <1>1
<1>3. /\ Len(run.packages) \in Nat /\ DOMAIN run.packages = 1..Len(run.packages)
      /\ PackagesOf(Task) = run.packages
  BY AtWork DEF Writing
<1>4. run.next \in Nat
  BY <1>3 DEF Writing, DoneOk
<1>5. ASSUME NEW T, T = Task, NEW k \in DOMAIN PackagesOf(T), k < run.next
      PROVE  Answered(T, k)'
  <2>1. Answered(T, k)
    BY <1>3, <1>5 DEF Writing, Delivered
  <2> QED BY <2>1, <1>1, AnsweredStays
<1>6. \A T : PackagesOf(T)' = PackagesOf(T)
  BY DEF PackagesOf
<1>7. BrokenOk'
  <2> SUFFICES ASSUME NEW T \in broken'.scope, NEW k \in DOMAIN PackagesOf(T)', k < broken'.next
               PROVE  Answered(T, k)'
    BY <1>2, <1>4 DEF BrokenOk
  <2> QED BY <1>2, <1>5, <1>6
<1> QED BY <1>1, <1>7

(***************************************************************************)
(* A step that only begins a run changes nothing around it.                *)
(***************************************************************************)
LEMMA AroundStays ==
    ASSUME Around, UNCHANGED <<script, intros, lexicon, heard, files, broken>>, begun' \in Nat
    PROVE  Around'
<1>1. \A f \in files : FileOk(f)'
  BY FilesStay DEF Around
<1>2. ScriptOk'
  <2>1. \A c \in script : Shaped(c)' /\ AtItsGap(c.id, c.at)'
    BY DEF Around, ScriptOk, Shaped, AtItsGap
  <2> QED BY <2>1 DEF Around, ScriptOk
<1>3. BrokenOk'
  BY BrokenStays DEF Around
<1> QED BY <1>1, <1>2, <1>3 DEF Around

(***************************************************************************)
(* The invariant holds at the start.                                       *)
(***************************************************************************)
LEMMA Initially == Init => IInv
<1> SUFFICES ASSUME Init PROVE IInv
  OBVIOUS
<1>1. run.stage = "idle"
  BY DEF Init, Idle
<1>2. ScriptOk
  BY FS_EmptySet DEF Init, ScriptOk, Distinct
<1>3. BrokenOk
  BY DEF Init, NotBroken, BrokenOk
<1> QED BY <1>1, <1>2, <1>3 DEF Init, IInv, Around

-----------------------------------------------------------------------------
(* Every step keeps the invariant. *)

(***************************************************************************)
(* The candidates a rewrite begins with have numbers of their own.         *)
(***************************************************************************)
LEMMA StartSuits ==
    ASSUME NEW repairing, NEW force
    PROVE  Suits(FreshRaws \cup FigureRaws(script, intros, repairing, force), {})
<1> DEFINE F == FreshRaws \cup FigureRaws(script, intros, repairing, force)
<1>1. \A r \in F : Fresh(r)
  BY StartIsFresh
<1> HIDE DEF F
<1>2. ASSUME NEW r \in F
      PROVE  /\ r.id \in 1..GapIds /\ r.home \in Moments /\ Shaped(r) /\ ~OfGap(r.id)
             /\ \A q \in F : q.id = r.id => q = r
  BY <1>1, FreshFacts
<1>3. Distinct(F) /\ \A r \in F : r.id \in Nat
  <2>1. \A r \in F : r.id \in Nat
    BY <1>2, Numbers
  <2> QED BY <2>1, <1>2 DEF Distinct
<1>4. IsFiniteSet(F)
  BY <1>2, <1>3, Numbers, FewIds
<1>5. \A r \in F : AtItsGap(r.id, r.home)
  BY <1>2 DEF AtItsGap
<1>6. ASSUME NEW r \in F PROVE r = Raw(r.id, r.home, r.src, r.figure, r.words)
  <2>1. \E id, home, src, figure, words : r = Raw(id, home, src, figure, words)
    <3>1. CASE \E p \in Passages : r = Raw(p, Homes[p], {p}, Nobody, Original)
      BY <3>1, Zenon
    <3>2. CASE \E f \in Figures : r = Raw(FigureId(f), HintAt[f], {}, f, Original)
      BY <3>2, Zenon
    <3> QED BY <3>1, <3>2, <1>1 DEF Fresh
  <2> QED BY <2>1 DEF Raw
<1>7. Suits(F, {})
  BY <1>2, <1>3, <1>4, <1>5, <1>6 DEF Suits, Candidates, Placeable
<1> QED BY <1>7 DEF F

(***************************************************************************)
(* A rewrite is queued.                                                    *)
(***************************************************************************)
LEMMA RewriteKeeps == ASSUME IInv, Rewrite PROVE IInv'
<1> DEFINE raws == FreshRaws \cup FigureRaws(script, intros, FALSE, FALSE)
<1>1. /\ Begin(raws, {}, {}, {}, FALSE, <<FALSE, FALSE, 0>>)
      /\ UNCHANGED <<script, intros, lexicon, heard, files, broken>> /\ begun' = begun + 1
  BY DEF Rewrite
<1>2. Around'
  BY <1>1, AroundStays DEF IInv, Around
<1>3. Suits(raws, {})
  BY StartSuits
<1> HIDE DEF raws
<1>4. Writing'
  <2>1. ScriptOk /\ {} \subseteq script /\ FALSE \in BOOLEAN
    BY DEF IInv, Around
  <2>2. ASSUME NEW none, none = {}, NEW no, no = FALSE, NEW reason,
               Begin(raws, none, none, none, no, reason)
        PROVE  Writing'
    <3>1. no \in BOOLEAN /\ none \subseteq script /\ Suits(raws, none)
          /\ (\A c \in none : c.id \notin none) /\ (~no => none = {} /\ none = {}) /\ ~no
      BY <2>1, <2>2, <1>3
    <3>2. UNCHANGED <<script, intros, lexicon, heard, files>>
      BY <1>1
    <3> QED BY <2>1, <2>2, <3>1, <3>2, BeginsWell
  <2> QED BY <1>1, <2>2
<1>5. run'.stage = "writing"
  BY <1>1 DEF Begin
<1> QED BY <1>2, <1>4, <1>5 DEF IInv

(***************************************************************************)
(* A repair is queued, or is refused.                                      *)
(***************************************************************************)
LEMMA RepairKeeps ==
    ASSUME IInv, NEW request, NEW preserve, Repair(request, preserve) PROVE IInv'
<1>1. UNCHANGED <<script, intros, lexicon, heard, files, broken>> /\ begun' = begun + 1
      /\ run'.stage = "queued"
  BY DEF Repair
<1>2. Around'
  BY <1>1, AroundStays DEF IInv, Around
<1> QED BY <1>1, <1>2 DEF IInv

(***************************************************************************)
(* A repair finds its candidates and begins.                               *)
(***************************************************************************)
LEMMA PlanRepairKeeps == ASSUME IInv, PlanRepair PROVE IInv'
<1>1. /\ run.stage = "queued" /\ ~ (run.coverage /\ Unreachable(script, Cuts))
      /\ UNCHANGED <<script, intros, lexicon, heard, files, begun, broken>>
  BY DEF PlanRepair
<1>2. Around'
  BY <1>1, AroundStays DEF IInv, Around
<1> DEFINE raws == RepairRaws
           asked == {id \in Ids(raws) : Open(id)}
           keep == {i \in intros : i.cue \in Ids(Untouched)}
           kept(m) == {c \in Untouched : c.id \notin m}
           plan(r, a, m, k) ==
             IF a \cup m = {} THEN run' = Idle
             ELSE Begin(r, a \cup m, k, keep, TRUE,
                        <<run.coverage, run.introductions, Cardinality(m)>>)
<1>3. PICK more : plan(raws, asked, more, kept(more))
  <2>1. \E r \in {RepairRaws} :
        \E a \in {{id \in Ids(r) : Open(id)}} :
        \E m \in {IF run.coverage
                  THEN UNION {CoverageIds(ep, r, Untouched) : ep \in Episodes} \ a ELSE {}} :
        \E k \in {{c \in Untouched : c.id \notin m}} : plan(r, a, m, k)
    BY Zenon DEF PlanRepair
  <2> HIDE DEF plan
  <2>2. \E a \in {{id \in Ids(raws) : Open(id)}} :
        \E m \in {IF run.coverage
                  THEN UNION {CoverageIds(ep, raws, Untouched) : ep \in Episodes} \ a ELSE {}} :
        \E k \in {{c \in Untouched : c.id \notin m}} : plan(raws, a, m, k)
    BY <2>1
  <2>3. \E m \in {IF run.coverage
                  THEN UNION {CoverageIds(ep, raws, Untouched) : ep \in Episodes} \ asked ELSE {}} :
        \E k \in {{c \in Untouched : c.id \notin m}} : plan(raws, asked, m, k)
    BY <2>2
  <2>4. PICK m : \E k \in {{c \in Untouched : c.id \notin m}} : plan(raws, asked, m, k)
    BY <2>3
  <2>5. plan(raws, asked, m, kept(m))
    BY <2>4
  <2> QED BY <2>5
<1>4. CASE run' = Idle
  BY <1>2, <1>4 DEF IInv, Idle
<1>5. CASE run' # Idle
  <2> DEFINE mine == kept(more)
             all == asked \cup more
  <2>1. PICK reason : Begin(raws, all, mine, keep, TRUE, reason)
    BY <1>3, <1>5
  <2>2. ScriptOk
    BY DEF IInv, Around
  <2>3. Suits(raws, script)
    BY <1>1, <2>2, RepairRawsSuit
  <2>4. mine \subseteq script /\ \A c \in mine : c \in Untouched /\ c.id \notin more
    BY DEF Untouched
  <2>5. Suits(raws, mine)
    BY <2>3, <2>4 DEF Suits
  <2>6. ASSUME NEW c \in mine PROVE c.id \notin all
    <3>1. c.id \notin run.wanted /\ c.id \in Ids(script) /\ c.id \in Ids(Untouched)
      BY <2>4 DEF Untouched, Ids
    <3>2. ~Open(c.id)
      BY <3>1 DEF Open
    <3> QED BY <3>2, <2>4
  <2>7. \A i \in keep : i \in intros /\ i.cue \in Ids(script)
    BY DEF Ids, Untouched
  <2>8. ASSUME NEW i \in intros, i.cue \in Ids(script), i.cue \in Ids(raws) \ all PROVE i \in keep
    <3>1. ~Open(i.cue)
      BY <2>8
    <3>2. PICK c \in script : c.id = i.cue
      BY <2>8 DEF Ids
    <3>3. c \in Untouched
      BY <3>1, <3>2 DEF Open, Untouched
    <3> QED BY <3>2, <3>3 DEF Ids
  <2> HIDE DEF raws, all, kept, mine, keep, asked
  <2>9. Writing'
    <3>1. TRUE \in BOOLEAN /\ UNCHANGED <<script, intros, lexicon, heard, files>>
      BY <1>1
    <3> QED BY <3>1, <2>1, <2>2, <2>4, <2>5, <2>6, <2>7, <2>8, BeginsWell
  <2>10. run'.stage = "writing"
    BY <2>1 DEF Begin
  <2> QED BY <1>2, <2>9, <2>10 DEF IInv
<1> QED BY <1>4, <1>5

(***************************************************************************)
(* A coverage repair finds no line for a gap and fails.                    *)
(***************************************************************************)
LEMMA PlanFailsKeeps == ASSUME IInv, PlanFails PROVE IInv'
<1>1. UNCHANGED <<script, intros, lexicon, heard, files, begun, broken>> /\ run' = Idle
  BY DEF PlanFails
<1>2. Around'
  BY <1>1, AroundStays DEF IInv, Around
<1> QED BY <1>1, <1>2 DEF IInv, Idle

(***************************************************************************)
(* A package nobody asks anything of is answered from the script.          *)
(***************************************************************************)
LEMMA UnchangedKeeps == ASSUME IInv, Unchanged PROVE IInv'
<1>1. /\ Working /\ Asked = {} /\ Accept(Chronological(Locked), LockedIntros, {})
      /\ UNCHANGED <<script, intros, lexicon, heard, files, begun, broken>>
  BY DEF Unchanged
<1>2. run.stage = "writing" /\ ScriptOk /\ Writing
  BY <1>1 DEF Working, IInv, Around
<1>3. Around'
  BY <1>1, AroundStays DEF IInv, Around
<1>4. Result(Locked)
  BY <1>1, <1>2, LockedFacts DEF Result
<1>5. Writing' /\ run'.stage = "writing"
  <2>1. files \subseteq files' /\ LockedIntros \subseteq LockedIntros /\ UNCHANGED <<script, intros, lexicon, heard>>
    BY <1>1
  <2> QED BY <1>1, <1>2, <1>4, <2>1, Accepted
<1> QED BY <1>3, <1>5 DEF IInv

(***************************************************************************)
(* The agent answers a package.                                            *)
(***************************************************************************)
LEMMA AskKeeps == ASSUME IInv, Ask PROVE IInv'
<1>1. /\ Working /\ UNCHANGED <<script, intros, lexicon, heard, begun, broken>>
      /\ \E a \in Good \cup Lossy :
           files' = files \cup {[payload |-> Payload, answer |-> a]} /\ Take(a)
  BY DEF Ask
<1>2. PICK a \in Good \cup Lossy :
         files' = files \cup {[payload |-> Payload, answer |-> a]} /\ Take(a)
  BY <1>1
<1>3. run.stage = "writing" /\ ScriptOk /\ Writing
  BY <1>1 DEF Working, IInv, Around
<1>4. Answering(a.cut, a.told)
  BY <1>1, <1>3, GivenFacts
<1> DEFINE f == [payload |-> Payload, answer |-> a]
<1>5. f \in files' /\ f.payload = Payload /\ f.answer = a /\ files' = files \cup {f} /\ files \subseteq files'
  BY <1>2
<1> HIDE DEF f
<1>6. Writing' /\ run'.stage = "writing"
  <2>1. UNCHANGED <<script, intros, lexicon, heard>> /\ \E g \in files' : g.payload = Payload
    BY <1>1, <1>5
  <2> QED BY <1>1, <1>2, <1>3, <1>4, <1>5, <2>1, TakenWell
<1>7. \A g \in files' : FileOk(g)'
  <2>1. ASSUME NEW g, g = f PROVE FileOk(g)'
    <3>1. Payload.package = Package /\ Payload.intros = LockedIntros
      BY DEF Payload
    <3>2. FileOk(g)
      BY <3>1, <2>1, <1>4, <1>5 DEF Answering, FileOk
    <3>3. \A id, at : AtItsGap(id, at) => AtItsGap(id, at)'
      BY <1>1 DEF AtItsGap
    <3> QED BY <3>2, <3>3 DEF FileOk
  <2>2. \A g \in files : FileOk(g)'
    BY <1>1, FilesStay DEF IInv, Around
  <2>3. ASSUME NEW g \in files' PROVE FileOk(g)'
    <3>1. g = f \/ g \in files
      BY <1>5
    <3> QED BY <3>1, <2>1, <2>2
  <2> QED BY <2>3
<1>8. ScriptOk'
  <2>1. \A c \in script : Shaped(c)' /\ AtItsGap(c.id, c.at)'
    BY <1>1, <1>3 DEF ScriptOk, Shaped, AtItsGap
  <2> QED BY <1>1, <1>3, <2>1 DEF ScriptOk
<1>9. BrokenOk'
  BY <1>1, <1>5, BrokenStays DEF IInv, Around
<1>10. Around'
  BY <1>1, <1>7, <1>8, <1>9 DEF IInv, Around
<1> QED BY <1>6, <1>10 DEF IInv

(***************************************************************************)
(* A package takes the answer on disk.                                     *)
(***************************************************************************)
LEMMA ReuseKeeps == ASSUME IInv, Reuse PROVE IInv'
<1>1. /\ Working /\ UNCHANGED <<script, intros, lexicon, heard, files, begun, broken>>
      /\ \E f \in Stored : Take(f.answer)
  BY DEF Reuse
<1>2. PICK f \in Stored : Take(f.answer)
  BY <1>1
<1>3. run.stage = "writing" /\ ScriptOk /\ Writing
  BY <1>1 DEF Working, IInv, Around
<1>4. f \in files /\ f.payload = Payload
  BY DEF Stored
<1>5. Answering(f.answer.cut, f.answer.told)
  <2>1. FileOk(f)
    BY <1>4 DEF IInv, Around
  <2>2. f.payload.package = Package /\ f.payload.intros = LockedIntros
    BY <1>4 DEF Payload
  <2> QED BY <2>1, <2>2 DEF FileOk, Answering
<1>6. Writing' /\ run'.stage = "writing"
  <2>1. UNCHANGED <<script, intros, lexicon, heard>> /\ files \subseteq files' /\ \E g \in files' : g.payload = Payload
    BY <1>1, <1>4
  <2> QED BY <1>1, <1>2, <1>3, <1>5, <2>1, TakenWell
<1>7. Around'
  BY <1>1, AroundStays DEF IInv, Around
<1> QED BY <1>6, <1>7 DEF IInv

(***************************************************************************)
(* The agent fails, or its answer is refused.                              *)
(***************************************************************************)
LEMMA FailureKeeps == ASSUME IInv, AgentFails \/ Reject PROVE IInv'
<1>1. run.stage = "writing" /\ Failed
  BY DEF AgentFails, Reject, Working, Combined
<1>2. ScriptOk /\ Writing
  BY <1>1 DEF IInv, Around
<1>3. BrokenOk' /\ run' = Idle
  BY <1>1, <1>2, FailedWell
<1>4. UNCHANGED <<script, intros, lexicon, heard, files, begun>>
  BY <1>1 DEF Failed
<1>5. \A f \in files : FileOk(f)'
  BY <1>4, FilesStay DEF IInv, Around
<1>6. ScriptOk'
  <2>1. \A c \in script : Shaped(c)' /\ AtItsGap(c.id, c.at)'
    BY <1>2, <1>4 DEF ScriptOk, Shaped, AtItsGap
  <2> QED BY <1>2, <1>4, <2>1 DEF ScriptOk
<1>7. Around'
  BY <1>3, <1>4, <1>5, <1>6 DEF IInv, Around
<1> QED BY <1>3, <1>7 DEF IInv, Idle

(***************************************************************************)
(* The script is written from what is done.                                *)
(***************************************************************************)
LEMMA ApplyKeeps == ASSUME IInv, Apply PROVE IInv'
<1>1. /\ run.stage = "writing" /\ script' = {Cue(x) : x \in Applied}
      /\ run' = [stage |-> "rendering"] /\ broken' = NotBroken /\ UNCHANGED <<heard, files, begun>>
  BY DEF Apply, Combined
<1>2. ScriptOk /\ Writing
  BY <1>1 DEF IInv, Around
<1>3. ScriptOk'
  BY <1>1, <1>2, NewScript
<1>4. \A f \in files : FileOk(f)'
  BY <1>1, FilesStay DEF IInv, Around
<1>5. BrokenOk'
  BY <1>1 DEF BrokenOk, NotBroken
<1>6. Around'
  BY <1>1, <1>3, <1>4, <1>5 DEF IInv, Around
<1> QED BY <1>1, <1>6 DEF IInv

(***************************************************************************)
(* A render moves what is in the titles, or fails.                         *)
(***************************************************************************)
LEMMA RenderingKeeps == ASSUME IInv, Render \/ RenderFails PROVE IInv'
<1>1. /\ run.stage = "rendering" /\ heard' = TRUE /\ run' = Idle
      /\ UNCHANGED <<files, begun, broken>>
  BY DEF Render, RenderFails
<1>2. ScriptOk /\ broken = NotBroken
  BY <1>1 DEF IInv, Around
<1>3. ScriptOk'
  <2>1. CASE Render
    BY <2>1, <1>2, MovedScript
  <2>2. CASE RenderFails
    <3>1. script' = script
      BY <2>2 DEF RenderFails
    <3>2. \A c \in script : Shaped(c)' /\ AtItsGap(c.id, c.at)'
      BY <1>1, <1>2 DEF ScriptOk, Shaped, AtItsGap
    <3> QED BY <3>1, <3>2, <1>2 DEF ScriptOk
  <2> QED BY <2>1, <2>2
<1>4. \A f \in files : FileOk(f)'
  BY <1>1, FilesStay DEF IInv, Around
<1>5. BrokenOk'
  BY <1>1, <1>2 DEF BrokenOk, NotBroken
<1>6. Around'
  BY <1>1, <1>3, <1>4, <1>5 DEF IInv, Around
<1> QED BY <1>1, <1>6 DEF IInv, Idle

(***************************************************************************)
(* Every step keeps the invariant.                                         *)
(***************************************************************************)
LEMMA StepKeeps == IInv /\ [Next]_vars => IInv'
<1> SUFFICES ASSUME IInv, [Next]_vars PROVE IInv'
  OBVIOUS
<1>1. CASE Rewrite
  BY <1>1, RewriteKeeps
<1>2. CASE \E request \in Requests, preserve \in BOOLEAN : Repair(request, preserve)
  BY <1>2, RepairKeeps
<1>3. CASE PlanRepair
  BY <1>3, PlanRepairKeeps
<1>4. CASE PlanFails
  BY <1>4, PlanFailsKeeps
<1>5. CASE Unchanged
  BY <1>5, UnchangedKeeps
<1>6. CASE Ask
  BY <1>6, AskKeeps
<1>7. CASE Reuse
  BY <1>7, ReuseKeeps
<1>8. CASE AgentFails \/ Reject
  BY <1>8, FailureKeeps
<1>9. CASE Apply
  BY <1>9, ApplyKeeps
<1>10. CASE Render \/ RenderFails
  BY <1>10, RenderingKeeps
<1>11. CASE UNCHANGED vars
  <2>1. UNCHANGED <<script, intros, lexicon, heard, run, files, begun, broken>>
    BY <1>11 DEF vars
  <2>2. Around'
    BY <2>1, AroundStays DEF IInv, Around
  <2>3. ASSUME Writing PROVE Writing'
    <3>1. Cuts' = Cuts /\ Task' = Task
      BY <2>1 DEF Cuts, Task
    <3>2. \A r \in run.raws : Shaped(r)' /\ AtItsGap(r.id, r.home)'
      BY <2>1, <2>3 DEF Writing, Begun, Shaped, AtItsGap
    <3>3. Begun'
      BY <2>1, <2>3, <3>1, <3>2 DEF Writing, Begun
    <3>4. IntrosOk'
      BY <2>1, <2>3 DEF Writing, IntrosOk
    <3>5. DoneOk'
      <4>1. \A i \in DOMAIN run.done : AtItsGap(run.done[i].id, run.done[i].at)'
        BY <2>1, <2>3 DEF Writing, DoneOk, AtItsGap
      <4> QED BY <2>1, <2>3, <4>1 DEF Writing, DoneOk
    <3>6. Delivered'
      <4>1. ASSUME NEW T, NEW k, Answered(T, k) PROVE Answered(T, k)'
        BY <2>1, <4>1, AnsweredStays
      <4>2. \A k : LockedOf(Task, k)' = LockedOf(Task, k) /\ IntrosOf(Task, k)' = IntrosOf(Task, k)
        BY <2>1, <3>1 DEF LockedOf, IntrosOf, IdsOf, AskedOf, PackagesOf
      <4>3. \A k : Answered(Task, k) => Answered(Task, k)'
        <5> DEFINE T == Task
        <5>1. T' = T
          BY <3>1
        <5>2. \A X : X = T => \A k : Answered(X, k) => Answered(X, k)'
          BY <4>1
        <5> HIDE DEF T
        <5>3. \A k : Answered(T, k) => Answered(T, k)'
          BY <5>1, <5>2
        <5> QED BY <5>3 DEF T
      <4> QED BY <2>1, <2>3, <4>2, <4>3 DEF Writing, Delivered
    <3> QED BY <3>3, <3>4, <3>5, <3>6 DEF Writing
  <2> QED BY <2>1, <2>2, <2>3 DEF IInv
<1> QED BY <1>1, <1>2, <1>3, <1>4, <1>5, <1>6, <1>7, <1>8, <1>9, <1>10, <1>11 DEF Next

(***************************************************************************)
(* In every run, repair and retry, for any book, recordings, cuts and      *)
(* agent: the candidates of the run have numbers of their own, its         *)
(* packages follow each other, what is done is in time order within them,  *)
(* what was locked has been given back, and what was finished is on disk   *)
(* (scene_alignment_packages and write_narration_script).                  *)
(***************************************************************************)
THEOREM AlignmentInvariant == Spec => []IInv
<1>1. Init => IInv
  BY Initially
<1>2. IInv /\ [Next]_vars => IInv'
  BY StepKeeps
<1> QED BY <1>1, <1>2, PTL DEF Spec

(***************************************************************************)
(* Everything the agent placed and the validator let pass is in the        *)
(* script: apply_scene_alignments drops what is out of order, and nothing  *)
(* ever is, although packages are answered one by one and locked comments  *)
(* are put back between them.                                              *)
(***************************************************************************)
THEOREM DroppedNothing == Spec => []NothingDropped
<1>1. IInv => NothingDropped
  <2> SUFFICES ASSUME IInv, Combined, NEW k \in DOMAIN run.done PROVE run.done[k] \in Applied
    BY DEF NothingDropped
  <2>1. ScriptOk /\ Writing
    BY DEF IInv, Around, Combined
  <2> QED BY <2>1, AllApplied
<1> QED BY <1>1, AlignmentInvariant, PTL

(***************************************************************************)
(* The script a repair writes has its locked comments at their lines, but  *)
(* for names respelt, and their introductions.                             *)
(***************************************************************************)
LEMMA ApplyKeepsLocked ==
    ASSUME IInv, Apply, run.repairing
    PROVE  /\ \A c \in run.locked :
                c.at \notin Cuts => [c EXCEPT !.words = Respelt(@, lexicon')] \in script'
           /\ \A i \in run.intros :
                (\E c \in run.locked : c.id = i.cue /\ c.at \notin Cuts) => i \in intros'
<1>1. /\ run.stage = "writing" /\ run.next > Len(run.packages) /\ intros' = run.told
      /\ script' = {Cue(x) : x \in Applied} /\ lexicon' = lexicon \cup run.found
  BY DEF Apply, Combined
<1>2. ScriptOk /\ Writing
  BY <1>1 DEF IInv, Around
<1>3. /\ Ranged(run.packages, run.raws, run.locked, Cuts)
      /\ Len(run.packages) \in Nat /\ DOMAIN run.packages = 1..Len(run.packages)
      /\ PackagesOf(Task) = run.packages
      /\ \A c \in run.locked : c.at \notin Cuts => c.at \in Lines(Cuts)
  BY <1>2, AtWork DEF Writing
<1>4. run.next \in 1..Len(run.packages) + 1
  BY <1>2 DEF Writing, DoneOk
<1>5. \A k \in DOMAIN run.packages : k < run.next
  BY <1>1, <1>3, <1>4
<1>6. \A k \in DOMAIN run.packages : /\ LockedOf(Task, k) \subseteq Range(run.done)
                                     /\ IntrosOf(Task, k) \subseteq run.told
  BY <1>2, <1>5 DEF Writing, Delivered
<1>7. Applied = Range(run.done)
  BY <1>2, AllApplied DEF Range
<1>8. /\ run.locked \subseteq script /\ Candidates(run.raws)
      /\ \A c \in run.locked : c.id \in Ids(run.raws) \ run.asked
      /\ \A r \in run.raws : \A c \in run.locked :
           r.id = c.id => r.src = c.src /\ r.figure = c.figure
  BY <1>2 DEF Writing, Begun
<1>9. ASSUME NEW c \in run.locked, c.at \notin Cuts
      PROVE  \E k \in DOMAIN run.packages : c.id \in Ids(run.packages[k].cues)
  <2>1. PICK r \in run.raws : r.id = c.id
    BY <1>8 DEF Ids
  <2>2. PICK k \in DOMAIN run.packages : r \in run.packages[k].cues
    BY <2>1, <1>3, <1>9 DEF Ranged
  <2> QED BY <2>1, <2>2 DEF Ids
<1>10. ASSUME NEW c \in run.locked, c.at \notin Cuts
       PROVE  [c EXCEPT !.words = Respelt(@, lexicon')] \in script'
  <2>1. PICK k \in DOMAIN run.packages : c.id \in Ids(run.packages[k].cues)
    BY <1>9, <1>10
  <2>2. Placed(c) \in LockedOf(Task, k)
    BY <2>1, <1>3, <1>10 DEF LockedOf, IdsOf, Task
  <2>3. Placed(c) \in Applied
    BY <2>2, <1>6, <1>7
  <2>4. Cue(Placed(c)) \in script'
    BY <2>3, <1>1
  <2>5. RawOf(c.id) \in run.raws /\ RawOf(c.id).id = c.id
    BY <1>8, RawOfFacts
  <2>6. RawOf(c.id).src = c.src /\ RawOf(c.id).figure = c.figure
    BY <2>5, <1>8
  <2>7. c = [id |-> c.id, at |-> c.at, words |-> c.words, src |-> c.src, figure |-> c.figure]
    BY <1>2, <1>8 DEF ScriptOk
  <2>8. Placed(c).id = c.id /\ Placed(c).at = c.at /\ Placed(c).words = c.words
    BY DEF Placed
  <2> DEFINE spelt == Respelt(c.words, lexicon')
  <2>9. Cue(Placed(c)) = [id |-> c.id, at |-> c.at, words |-> spelt, src |-> c.src,
                          figure |-> c.figure]
    BY <2>6, <2>8, <1>1 DEF Cue
  <2>10. [c EXCEPT !.words = Respelt(@, lexicon')] = [c EXCEPT !.words = spelt]
    OBVIOUS
  <2> HIDE DEF spelt
  <2>11. [c EXCEPT !.words = spelt] = [id |-> c.id, at |-> c.at, words |-> spelt, src |-> c.src,
                                      figure |-> c.figure]
    BY <2>7
  <2> QED BY <2>4, <2>9, <2>10, <2>11
<1>11. ASSUME NEW i \in run.intros, NEW c \in run.locked, c.id = i.cue, c.at \notin Cuts
       PROVE  i \in intros'
  <2>1. PICK k \in DOMAIN run.packages : c.id \in Ids(run.packages[k].cues)
    BY <1>9, <1>11
  <2>2. i \in intros /\ i.cue \in Ids(script)
    BY <1>2 DEF Writing, IntrosOk
  <2>3. Task.repairing /\ i.cue \in IdsOf(Task, k) /\ i.cue \notin Task.asked
    BY <2>1, <1>3, <1>8, <1>11 DEF IdsOf, Task
  <2>4. i \in IntrosOf(Task, k)
    BY <2>2, <2>3 DEF IntrosOf, AskedOf
  <2> QED BY <2>4, <1>1, <1>6
<1> QED BY <1>10, <1>11

(***************************************************************************)
(* A repair leaves the comments that it locked, at usable lines, as they   *)
(* are but for names it respells as the recordings have them, and their    *)
(* introductions with them (comment_repair_context,                        *)
(* alignment_package_payload and canonicalize_narration_names).            *)
(***************************************************************************)
THEOREM LocksStay == Spec => LockedStay
<1>1. IInv /\ [Next]_vars =>
        [Apply /\ run.repairing =>
           /\ \A c \in run.locked :
                c.at \notin Cuts => [c EXCEPT !.words = Respelt(@, lexicon')] \in script'
           /\ \A i \in run.intros :
                (\E c \in run.locked : c.id = i.cue /\ c.at \notin Cuts) => i \in intros']_vars
  BY ApplyKeepsLocked
<1> QED BY <1>1, AlignmentInvariant, PTL DEF Spec, LockedStay

(***************************************************************************)
(* The agent is not asked for a package that a failed run of the same task *)
(* finished.                                                               *)
(***************************************************************************)
LEMMA AskContinues ==
    ASSUME IInv, Ask, Task \in broken.scope
    PROVE  run.next >= broken.next
<1>1. Working /\ run.stage = "writing" /\ Asked # {} /\ Stored = {}
  BY DEF Ask, Working
<1>2. ScriptOk /\ Writing /\ BrokenOk
  BY <1>1 DEF IInv, Around
<1>3. /\ run.next \in DOMAIN run.packages /\ run.next \in Nat
      /\ Asked = AskedOf(Task, run.next) /\ Payload = PayloadOf(Task, run.next)
  BY <1>1, <1>2, AtPackage
<1>4. PackagesOf(Task) = run.packages
  BY <1>2, AtWork DEF Writing
<1>5. ~Answered(Task, run.next)
  BY <1>1, <1>3 DEF Answered, Stored
<1>6. ~(run.next < broken.next)
  BY <1>2, <1>3, <1>4, <1>5 DEF BrokenOk
<1> QED BY <1>2, <1>3, <1>6 DEF BrokenOk

(***************************************************************************)
(* A run that was broken off is taken up where it stopped: the same task   *)
(* asks the agent for nothing that is already on disk                      *)
(* (align_script_package and its stored answers).                          *)
(***************************************************************************)
THEOREM RetryGoesOn == Spec => RetryContinues
<1>1. IInv /\ [Next]_vars => [Ask /\ Task \in broken.scope => run.next >= broken.next]_vars
  BY AskContinues
<1> QED BY <1>1, AlignmentInvariant, PTL DEF Spec, RetryContinues
=============================================================================
