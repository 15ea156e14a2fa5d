---------------------------- MODULE OperatorProofs ----------------------------
(***************************************************************************)
(* What the operators compute that the direct downloads are built from:    *)
(* the range parser, filtered and sorted lists, and the announced size of  *)
(* an archive.  An induction is one over a set of numbers here: what holds *)
(* for 0 and passes on to the next number holds for all.                   *)
(***************************************************************************)
EXTENDS ByteRange, ZipArchive, Subsequences, FiniteSetTheorems, SequenceTheorems,
        WellFoundedInduction, TLAPS

LEMMA LeastExists ==
    ASSUME NEW S \in SUBSET Nat, S # {}
    PROVE  \E n \in S : \A k \in S : n <= k
<1> DEFINE R == OpToRel(<, Nat)
<1>1. \A x, y \in Nat : x < y => <<x, y>> \in R
  BY DEF OpToRel
<1>2. PICK n \in S : \A k \in S : <<k, n>> \notin R
  BY NatLessThanWellFounded, WFMin
<1> HIDE DEF R
<1>3. ASSUME NEW k \in S PROVE n <= k
  <2>1. ~(k < n)
    BY <1>1, <1>2
  <2> QED
    BY <2>1
<1> QED
  BY <1>3

LEMMA AllNumbers ==
    ASSUME NEW S, 0 \in S, \A n \in Nat : n \in S => n + 1 \in S
    PROVE  \A n \in Nat : n \in S
<1> SUFFICES ASSUME NEW k \in Nat, k \notin S PROVE FALSE
  OBVIOUS
<1>1. Nat \ S \in SUBSET Nat /\ Nat \ S # {}
  OBVIOUS
<1>2. PICK n \in Nat \ S : \A m \in Nat \ S : n <= m
  BY <1>1, LeastExists
<1>3. n # 0 /\ n - 1 \in Nat
  BY <1>2
<1>4. n - 1 \in S
  BY <1>2, <1>3
<1> QED
  BY <1>2, <1>3, <1>4

LEMMA GreatestExists ==
    ASSUME NEW n \in Nat, NEW S \in SUBSET (0..n), S # {}
    PROVE  \E g \in S : \A k \in S : k <= g
<1> DEFINE T == {t \in Nat : n - t \in S}
<1>1. ASSUME NEW k \in S PROVE n - k \in T
  <2>1. k \in 0..n
    OBVIOUS
  <2>2. n - k \in Nat /\ n - (n - k) = k
    BY <2>1
  <2> QED
    BY <2>2
<1>2. T \in SUBSET Nat /\ T # {}
  BY <1>1
<1>3. PICK t \in T : \A k \in T : t <= k
  BY <1>2, LeastExists
<1>4. ASSUME NEW k \in S PROVE k <= n - t
  <2>1. t <= n - k /\ t \in Nat /\ k \in 0..n
    BY <1>1, <1>3
  <2> QED
    BY <2>1
<1> QED
  BY <1>3, <1>4

-----------------------------------------------------------------------------
(* Ranks, and the sequences made with them.                                *)

Rank(S, i) == Cardinality({j \in S : j <= i})

LEMMA RankGrows ==
    ASSUME NEW S \in SUBSET Nat, IsFiniteSet(S), NEW i \in S
    PROVE  /\ Rank(S, i) \in 1..Cardinality(S)
           /\ \A k \in S : i < k => Rank(S, i) < Rank(S, k)
<1> DEFINE Upto(k) == {j \in S : j <= k}
<1>1. ASSUME NEW k \in S
      PROVE  IsFiniteSet(Upto(k)) /\ Cardinality(Upto(k)) \in 1..Cardinality(S)
  <2>1. IsFiniteSet(Upto(k)) /\ Cardinality(Upto(k)) <= Cardinality(S)
    BY FS_Subset
  <2>2. Upto(k) # {}
    BY <1>1
  <2>3. Cardinality(Upto(k)) \in Nat /\ Cardinality(S) \in Nat
    BY <2>1, FS_CardinalityType
  <2>4. Cardinality(Upto(k)) # 0
    BY <2>1, <2>2, FS_EmptySet
  <2> QED
    BY <2>1, <2>3, <2>4
<1>2. ASSUME NEW k \in S, i < k PROVE Rank(S, i) < Rank(S, k)
  <2>1. Upto(i) \subseteq Upto(k) /\ k \in Upto(k) /\ k \notin Upto(i)
    <3>1. i \in Nat /\ k \in Nat
      OBVIOUS
    <3>2. ASSUME NEW j \in Upto(i) PROVE j \in Upto(k)
      <4>1. j \in S /\ j <= i /\ j \in Nat
        OBVIOUS
      <4> QED
        BY <1>2, <3>1, <4>1
    <3>3. k \in Upto(k) /\ k \notin Upto(i)
      BY <1>2, <3>1
    <3> QED
      BY <3>2, <3>3
  <2>2. /\ Cardinality(Upto(i)) <= Cardinality(Upto(k))
        /\ Cardinality(Upto(k)) = Cardinality(Upto(i)) => Upto(k) = Upto(i)
    BY <1>1, <2>1, FS_Subset
  <2>3. Cardinality(Upto(i)) \in Nat /\ Cardinality(Upto(k)) \in Nat
    BY <1>1, FS_CardinalityType
  <2>4. Cardinality(Upto(k)) # Cardinality(Upto(i))
    BY <2>1, <2>2
  <2>5. Cardinality(Upto(i)) < Cardinality(Upto(k))
    BY <2>2, <2>3, <2>4
  <2> QED
    BY <2>5 DEF Rank
<1> QED
  BY <1>1, <1>2 DEF Rank

\* As many numbers have as many ranks: each rank is some number's.
LEMMA EveryRank ==
    ASSUME NEW S \in SUBSET Nat, IsFiniteSet(S), NEW k \in 1..Cardinality(S)
    PROVE  Nth(S, k) \in S /\ Rank(S, Nth(S, k)) = k
<1> DEFINE n == Cardinality(S)
           f == [i \in S |-> Rank(S, i)]
<1>1. n \in Nat
  BY FS_CardinalityType
<1>2. f \in Injection(S, 1..n)
  <2>1. f \in [S -> 1..n]
    BY RankGrows
  <2>2. ASSUME NEW i \in S, NEW j \in S, f[i] = f[j] PROVE i = j
    <3>1. f[i] \in 1..n /\ f[i] = Rank(S, i) /\ f[j] = Rank(S, j)
      BY <2>1
    <3>2. ~(i < j) /\ ~(j < i)
      BY <1>1, <2>2, <3>1, RankGrows
    <3> QED
      BY <3>2
  <2> QED
    BY <2>1, <2>2 DEF Injection, IsInjective
<1>3. IsFiniteSet(1..n) /\ Cardinality(1..n) = n
  BY <1>1, FS_Interval
<1>4. f \in Surjection(S, 1..n)
  BY <1>2, <1>3, FS_Injection
<1>5. \E i \in S : Rank(S, i) = k
  BY <1>4 DEF Surjection
<1> QED
  BY <1>5 DEF Nth, Rank

LEMMA NthOfRank ==
    ASSUME NEW S \in SUBSET Nat, IsFiniteSet(S), NEW i \in S
    PROVE  Nth(S, Rank(S, i)) = i
<1> DEFINE k == Rank(S, i)
           m == Nth(S, k)
<1>1. k \in 1..Cardinality(S) /\ Cardinality(S) \in Nat
  BY RankGrows, FS_CardinalityType
<1> HIDE DEF k
<1>2. m \in S /\ Rank(S, m) = k
  BY <1>1, EveryRank
<1> HIDE DEF m
<1>3. ~(i < m) /\ ~(m < i)
  BY <1>1, <1>2, RankGrows DEF k
<1>4. m = i
  BY <1>2, <1>3
<1> QED
  BY <1>4 DEF m, k

LEMMA MadeOfSequence ==
    ASSUME NEW T, NEW n \in Nat, NEW s \in [1..n -> T]
    PROVE  s \in Seq(T) /\ Len(s) = n /\ DOMAIN s = 1..n
OBVIOUS

\* A filtered sequence has the elements at the positions that were picked, each
\* as often as it stands there.
LEMMA PickProperties ==
    ASSUME NEW T, NEW seq \in Seq(T), NEW P \in SUBSET DOMAIN seq
    PROVE  LET picked == Pick(seq, P)
           IN /\ picked \in Seq(T) /\ DOMAIN picked = 1..Len(picked)
              /\ \A k \in DOMAIN picked : \E i \in P : picked[k] = seq[i]
              /\ IsInjective(seq) => IsInjective(picked)
<1> DEFINE picked == Pick(seq, P)
           n == Cardinality(P)
<1>1. P \in SUBSET Nat /\ IsFiniteSet(P) /\ n \in Nat
  <2>1. DOMAIN seq = 1..Len(seq) /\ Len(seq) \in Nat
    OBVIOUS
  <2>2. IsFiniteSet(DOMAIN seq)
    BY <2>1, FS_Interval
  <2>3. IsFiniteSet(P)
    BY <2>2, FS_Subset
  <2> QED
    BY <2>1, <2>3, FS_CardinalityType
<1>2. \A k \in 1..n : Nth(P, k) \in P /\ Rank(P, Nth(P, k)) = k
  BY <1>1, EveryRank
<1>3. picked \in [1..n -> T] /\ \A k \in 1..n : picked[k] = seq[Nth(P, k)]
  <2>1. \A i \in P : seq[i] \in T
    OBVIOUS
  <2> QED
    BY <1>2, <2>1 DEF Pick
<1> HIDE DEF picked, n
<1>4. picked \in Seq(T) /\ Len(picked) = n /\ DOMAIN picked = 1..n
  BY <1>1, <1>3, MadeOfSequence
<1>5. ASSUME IsInjective(seq), NEW k \in 1..n, NEW m \in 1..n, picked[k] = picked[m]
      PROVE  k = m
  <2>1. Nth(P, k) = Nth(P, m)
    BY <1>2, <1>3, <1>5 DEF IsInjective
  <2> QED
    BY <1>2, <2>1
<1>6. IsInjective(seq) => IsInjective(picked)
  BY <1>4, <1>5 DEF IsInjective
<1> QED
  BY <1>2, <1>3, <1>4, <1>6 DEF picked

\* A sorted set has every element of the set once.
LEMMA DescendingProperties ==
    ASSUME NEW S \in SUBSET Nat, IsFiniteSet(S)
    PROVE  LET sorted == Descending(S)
           IN /\ sorted \in Seq(S) /\ DOMAIN sorted = 1..Len(sorted)
              /\ IsInjective(sorted)
              /\ \A m \in S : \E k \in DOMAIN sorted : sorted[k] = m
<1> DEFINE sorted == Descending(S)
           n == Cardinality(S)
<1>1. n \in Nat
  BY FS_CardinalityType
<1>2. \A k \in 1..n : Nth(S, k) \in S /\ Rank(S, Nth(S, k)) = k
  BY EveryRank
<1>3. sorted = [k \in 1..n |-> Nth(S, n + 1 - k)]
  BY DEF Descending
<1> HIDE DEF sorted, n
<1>4. \A k \in 1..n : n + 1 - k \in 1..n
  BY <1>1
<1>5. sorted \in [1..n -> S]
  BY <1>2, <1>3, <1>4
<1>6. sorted \in Seq(S) /\ Len(sorted) = n /\ DOMAIN sorted = 1..n
  BY <1>1, <1>5, MadeOfSequence
<1>7. ASSUME NEW k \in 1..n, NEW m \in 1..n, sorted[k] = sorted[m] PROVE k = m
  <2>1. Nth(S, n + 1 - k) = Nth(S, n + 1 - m)
    BY <1>3, <1>7
  <2>2. n + 1 - k = n + 1 - m
    BY <1>2, <1>4, <2>1
  <2> QED
    BY <1>1, <2>2
<1>8. ASSUME NEW m \in S PROVE \E k \in 1..n : sorted[k] = m
  <2>1. Rank(S, m) \in 1..n /\ Nth(S, Rank(S, m)) = m
    BY RankGrows, NthOfRank DEF n
  <2> DEFINE k == n + 1 - Rank(S, m)
  <2>2. k \in 1..n /\ n + 1 - k = Rank(S, m)
    BY <1>1, <2>1
  <2>3. sorted[k] = Nth(S, n + 1 - k)
    BY <1>3, <2>2
  <2> QED
    BY <2>1, <2>2, <2>3
<1>9. IsInjective(sorted)
  BY <1>6, <1>7 DEF IsInjective
<1> QED
  BY <1>6, <1>8, <1>9 DEF sorted

-----------------------------------------------------------------------------
(* A fold over a sequence is the last of its partial results.              *)

LEMMA MaxProperties ==
    ASSUME NEW n \in Nat, NEW s \in SUBSET (1..n), s # {}
    PROVE  Max(s) \in s /\ \A k \in s : k <= Max(s)
<1>1. s \in SUBSET (0..n)
  OBVIOUS
<1>2. \E g \in s : \A k \in s : k <= g
  BY <1>1, GreatestExists
<1>3. Max(s) = CHOOSE g \in s : \A k \in s : g >= k
  BY DEF Max
<1>4. \A g, k \in s : k <= g <=> g >= k
  OBVIOUS
<1> QED
  BY <1>2, <1>3, <1>4

\* The function by which a fold of step over 1..n is defined.
IsFold(g, n, base, step) ==
    g = [s \in SUBSET (1..n) |->
            IF s = {} THEN base ELSE step[<<g[s \ {Max(s)}], Max(s)>>]]

LEMMA FoldExists ==
    ASSUME NEW n \in Nat, NEW A, NEW base \in A, NEW step \in [A \X (1..n) -> A]
    PROVE  \E g \in [SUBSET (1..n) -> A] : IsFold(g, n, base, step)
<1> DEFINE Exists(m) == \E g \in [SUBSET (1..m) -> A] : IsFold(g, m, base, step)
           Good == {m \in Nat : m <= n => Exists(m)}
<1>1. Exists(0)
  <2> DEFINE g == [s \in SUBSET (1..0) |-> base]
  <2>1. \A s \in SUBSET (1..0) : s = {}
    OBVIOUS
  <2>2. g \in [SUBSET (1..0) -> A] /\ IsFold(g, 0, base, step)
    BY <2>1 DEF IsFold
  <2> QED
    BY <2>2
<1>2. ASSUME NEW m \in Nat, Exists(m), m + 1 <= n PROVE Exists(m + 1)
  <2> DEFINE l == m + 1
  <2>1. PICK g \in [SUBSET (1..m) -> A] : IsFold(g, m, base, step)
    BY <1>2
  <2> DEFINE h == [s \in SUBSET (1..l) |-> IF l \in s THEN step[<<g[s \ {l}], l>>] ELSE g[s]]
  <2>2. ASSUME NEW s \in SUBSET (1..l)
        PROVE  /\ l \in s => s \ {l} \in SUBSET (1..m) /\ Max(s) = l
               /\ l \notin s => s \in SUBSET (1..m)
    <3>1. \A k \in 1..l : k = l \/ k \in 1..m
      OBVIOUS
    <3>2. ASSUME l \in s PROVE Max(s) = l
      <4>0. l \in Nat /\ s # {}
        BY <3>2
      <4>1. Max(s) \in s /\ l <= Max(s)
        BY <3>2, <4>0, MaxProperties
      <4>2. Max(s) \in 1..l
        BY <4>1
      <4> QED
        BY <4>1, <4>2
    <3> QED
      BY <3>1, <3>2
  <2>3. h \in [SUBSET (1..l) -> A]
    <3>1. l \in 1..n
      BY <1>2
    <3> QED
      BY <2>2, <3>1
  <2>4. ASSUME NEW s \in SUBSET (1..l)
        PROVE  h[s] = IF s = {} THEN base ELSE step[<<h[s \ {Max(s)}], Max(s)>>]
    <3>1. CASE l \in s
      <4>1. h[s \ {l}] = g[s \ {l}]
        BY <2>2, <3>1
      <4> QED
        BY <2>2, <3>1, <4>1
    <3>2. CASE l \notin s /\ s # {}
      <4>1. s \ {Max(s)} \in SUBSET (1..m) /\ l \notin s \ {Max(s)}
        BY <2>2, <3>2
      <4>2. s \ {Max(s)} \in SUBSET (1..l)
        OBVIOUS
      <4>3. g[s] = step[<<g[s \ {Max(s)}], Max(s)>>]
        BY <2>1, <2>2, <3>2 DEF IsFold
      <4> QED
        BY <3>2, <4>1, <4>2, <4>3
    <3>3. CASE s = {}
      <4>1. g[{}] = base
        BY <2>1 DEF IsFold
      <4> QED
        BY <3>3, <4>1
    <3> QED
      BY <3>1, <3>2, <3>3
  <2> HIDE DEF h
  <2>5. IsFold(h, l, base, step)
    BY <2>3, <2>4 DEF IsFold
  <2> QED
    BY <2>3, <2>5
<1> HIDE DEF Exists
<1>3. 0 \in Good /\ \A m \in Nat : m \in Good => m + 1 \in Good
  BY <1>1, <1>2
<1>4. n \in Good
  BY <1>3, AllNumbers
<1>5. Exists(n)
  BY <1>4
<1> QED
  BY <1>5 DEF Exists

\* Its results for the first k numbers, one after the other.
IsRunOf(t, n, A, base, step) ==
    /\ t \in [0..n -> A] /\ t[0] = base
    /\ \A k \in 1..n : t[k] = step[<<t[k - 1], k>>]

\* What is known at first of the function a definition of a fold chooses: its
\* results are right where they rest on one of the right type.
Follows(g, n, A, base, step) ==
    /\ base \in A /\ step \in [A \X (1..n) -> A]
    /\ g[{}] = base
    /\ \A s \in SUBSET (1..n) :
          s # {} /\ g[s \ {Max(s)}] \in A => g[s] = step[<<g[s \ {Max(s)}], Max(s)>>]

LEMMA FoldRuns ==
    ASSUME NEW n \in Nat, NEW A, NEW base, NEW step, NEW g, Follows(g, n, A, base, step)
    PROVE  \E t : IsRunOf(t, n, A, base, step) /\ g[1..n] = t[n]
<1> DEFINE t == [k \in 0..n |-> g[1..k]]
           Typed == {k \in Nat : k <= n => t[k] \in A}
<1>1. t[0] = base
  <2>1. 1..0 = {} /\ 0 \in 0..n
    OBVIOUS
  <2> QED
    BY <2>1 DEF Follows
<1>0. base \in A /\ step \in [A \X (1..n) -> A]
  BY DEF Follows
<1>2. ASSUME NEW k \in 1..n, t[k - 1] \in A PROVE t[k] = step[<<t[k - 1], k>>] /\ t[k] \in A
  <2>1. k - 1 \in 0..n /\ k \in 0..n /\ 1..k \in SUBSET (1..n) /\ 1..k # {}
    OBVIOUS
  <2>2. Max(1..k) = k
    <3>1. k \in Nat /\ 1..k \in SUBSET (1..k) /\ k \in 1..k
      OBVIOUS
    <3>2. Max(1..k) \in 1..k /\ k <= Max(1..k)
      BY <2>1, <3>1, MaxProperties
    <3> QED
      BY <3>1, <3>2
  <2>3. (1..k) \ {k} = 1..(k - 1)
    OBVIOUS
  <2>4. t[k - 1] = g[1..(k - 1)] /\ t[k] = g[1..k]
    BY <2>1
  <2> QED
    BY <1>0, <1>2, <2>1, <2>2, <2>3, <2>4 DEF Follows
<1>3. 0 \in Typed /\ \A k \in Nat : k \in Typed => k + 1 \in Typed
  <2> HIDE DEF t
  <2>1. 0 \in Typed
    BY <1>0, <1>1
  <2>2. ASSUME NEW k \in Nat, k \in Typed, k + 1 <= n PROVE t[k + 1] \in A
    <3>1. k + 1 \in 1..n /\ (k + 1) - 1 = k /\ k <= n
      BY <2>2
    <3>2. t[k] \in A
      BY <2>2, <3>1
    <3> QED
      BY <1>2, <3>1, <3>2
  <2>3. ASSUME NEW k \in Nat, k \in Typed PROVE k + 1 \in Typed
    BY <2>2, <2>3
  <2> QED
    BY <2>1, <2>3
<1>4. \A k \in Nat : k \in Typed
  BY <1>3, AllNumbers
<1>5. ASSUME NEW k \in 0..n PROVE t[k] \in A
  <2>1. k \in Nat /\ k <= n
    OBVIOUS
  <2> HIDE DEF t
  <2> QED
    BY <1>4, <2>1
<1>6. t \in [0..n -> A] /\ n \in 0..n
  BY <1>5
<1>7. ASSUME NEW k \in 1..n PROVE t[k] = step[<<t[k - 1], k>>]
  <2>1. k - 1 \in 0..n
    OBVIOUS
  <2> QED
    BY <1>2, <1>5, <2>1
<1>8. g[1..n] = t[n]
  OBVIOUS
<1> HIDE DEF t
<1> QED
  BY <1>1, <1>6, <1>7, <1>8 DEF IsRunOf

-----------------------------------------------------------------------------
(* The names of the entries.                                               *)

IsItem(f) ==
    f \in [id : {f.id}, name : {f.name}, size : {f.size}] /\ IsName(f.name) /\ f.size \in Nat

LEMMA SequenceForm ==
    ASSUME NEW s
    PROVE  /\ IsSequence(s) => s \in Seq({s[i] : i \in 1..Len(s)}) /\ DOMAIN s = 1..Len(s)
           /\ \A T : s \in Seq(T) => IsSequence(s)
<1>1. ASSUME IsSequence(s)
      PROVE  s \in Seq({s[i] : i \in 1..Len(s)}) /\ DOMAIN s = 1..Len(s)
  <2>1. Len(s) \in Nat /\ s \in [1..Len(s) -> {s[i] : i \in 1..Len(s)}]
    BY <1>1 DEF IsSequence
  <2> QED
    BY <2>1, MadeOfSequence
<1>2. ASSUME NEW T, s \in Seq(T) PROVE IsSequence(s)
  BY <1>2 DEF IsSequence
<1> QED
  BY <1>1, <1>2

LEMMA AppendToSequence ==
    ASSUME NEW s, IsSequence(s), NEW e
    PROVE  /\ IsSequence(Append(s, e)) /\ Len(Append(s, e)) = Len(s) + 1
           /\ Append(s, e)[Len(s) + 1] = e
<1> DEFINE S == {s[i] : i \in 1..Len(s)} \union {e}
<1>1. s \in [1..Len(s) -> S] /\ Len(s) \in Nat
  BY DEF IsSequence
<1>2. s \in Seq(S) /\ e \in S
  BY <1>1, MadeOfSequence
<1> HIDE DEF S
<1>3. Append(s, e) \in Seq(S) /\ Len(Append(s, e)) = Len(s) + 1
      /\ Append(s, e)[Len(s) + 1] = e
  BY <1>2, AppendProperties
<1> QED
  BY <1>3, SequenceForm

\* A rename ends in the number of the message.
LEMMA RenamedEndsInId ==
    ASSUME NEW name, IsName(name), NEW id
    PROVE  LET r == Renamed(name, id)
           IN /\ IsName(r) /\ Len(r.base) \in Nat
              /\ r.base[Len(r.base)] = id
<1> DEFINE s == IF name.base = <<>> THEN <<name.ext>> ELSE name.base
           r == Renamed(name, id)
<1>1. IsSequence(s)
  <2>1. <<name.ext>> \in Seq({name.ext})
    OBVIOUS
  <2>3. IsSequence(<<name.ext>>)
    BY <2>1, SequenceForm
  <2> QED
    BY <2>3 DEF IsName
<1>2. r = [base |-> Append(s, id), ext |-> name.ext]
  <2>1. r = [name EXCEPT !.base = Append(s, id)]
    BY DEF Renamed
  <2> HIDE DEF s, r
  <2>2. name \in [base : {name.base}, ext : {name.ext}]
    BY DEF IsName
  <2> QED
    BY <2>1, <2>2
<1> HIDE DEF s, r
<1>3. r.base = Append(s, id) /\ r = [base |-> r.base, ext |-> r.ext]
  BY <1>2
<1>4. IsSequence(r.base) /\ Len(r.base) = Len(s) + 1 /\ r.base[Len(s) + 1] = id
  BY <1>1, <1>3, AppendToSequence
<1>5. Len(r.base) \in Nat
  BY <1>4 DEF IsSequence
<1> QED
  BY <1>3, <1>4, <1>5 DEF IsName, r

IsItemList(items, n) == DOMAIN items = 1..n /\ \A i \in 1..n : IsItem(items[i])

ItemsRenamed(items, out, n) ==
    /\ IsSequence(out) /\ Len(out) = n /\ DOMAIN out = 1..n
    /\ \A i \in 1..n : /\ IsItem(out[i]) /\ out[i].id = items[i].id
                       /\ out[i].size = items[i].size
                       /\ items[i] = [out[i] EXCEPT !.name = items[i].name]
    /\ (\A i, j \in 1..n : items[i].id = items[j].id => i = j) /\ ~Lookalike(items)
          => Unique(out)

\* What deduplicate_filenames keeps, and when the names it gives are unique.
LEMMA DeduplicateProperties ==
    ASSUME NEW n \in Nat, NEW items, IsItemList(items, n)
    PROVE  ItemsRenamed(items, Deduplicate(items), n)
<1> DEFINE out == Deduplicate(items)
           new(i) == Renamed(items[i].name, items[i].id)
<1>1. DOMAIN items = 1..n /\ \A i \in 1..n : IsItem(items[i])
  BY DEF IsItemList
<1>2. IsSequence(out) /\ Len(out) = n /\ DOMAIN out = 1..n
  <2>1. out \in [1..n -> {out[i] : i \in 1..n}]
    BY <1>1 DEF Deduplicate
  <2> QED
    BY <2>1, MadeOfSequence, SequenceForm
<1>3. ASSUME NEW i \in 1..n
      PROVE  /\ SeenBefore(items, i) =>
                   /\ out[i] = [id |-> items[i].id, name |-> new(i), size |-> items[i].size]
                   /\ out[i].name = new(i)
             /\ ~SeenBefore(items, i) => out[i] = items[i] /\ out[i].name = items[i].name
  <2>1. out[i] = IF SeenBefore(items, i) THEN [items[i] EXCEPT !.name = new(i)] ELSE items[i]
    BY <1>1 DEF Deduplicate
  <2>2. items[i] = [id |-> items[i].id, name |-> items[i].name, size |-> items[i].size]
    BY <1>1 DEF IsItem
  <2> HIDE DEF out, new
  <2> QED
    BY <2>1, <2>2
<1> HIDE DEF out
<1>4. ASSUME NEW i \in 1..n
      PROVE  /\ IsName(new(i)) /\ Len(new(i).base) \in Nat
             /\ new(i).base[Len(new(i).base)] = items[i].id
  BY <1>1, RenamedEndsInId DEF IsItem
<1> HIDE DEF new
<1>5. ASSUME NEW i \in 1..n
      PROVE  /\ IsItem(out[i]) /\ out[i].id = items[i].id /\ out[i].size = items[i].size
             /\ items[i] = [out[i] EXCEPT !.name = items[i].name]
  <2>1. items[i] = [id |-> items[i].id, name |-> items[i].name, size |-> items[i].size]
        /\ items[i].size \in Nat
    BY <1>1 DEF IsItem
  <2>2. CASE SeenBefore(items, i)
    <3>1. out[i] = [id |-> items[i].id, name |-> new(i), size |-> items[i].size]
      BY <1>3, <2>2
    <3>2. IsName(new(i))
      BY <1>4
    <3>3. out[i].id = items[i].id /\ out[i].size = items[i].size /\ out[i].name = new(i)
      BY <3>1
    <3>4. out[i] \in [id : {out[i].id}, name : {out[i].name}, size : {out[i].size}]
      BY <3>1
    <3>5. items[i] = [out[i] EXCEPT !.name = items[i].name]
      BY <2>1, <3>1
    <3> QED
      BY <2>1, <3>2, <3>3, <3>4, <3>5 DEF IsItem
  <2>3. CASE ~SeenBefore(items, i)
    BY <1>1, <1>3, <2>1, <2>3
  <2> QED
    BY <2>2, <2>3
<1>6. ASSUME \A a, b \in 1..n : items[a].id = items[b].id => a = b, ~Lookalike(items),
             NEW i \in 1..n, NEW j \in 1..n, out[i].name = out[j].name
      PROVE  i = j
  <2>1. CASE SeenBefore(items, i) /\ SeenBefore(items, j)
    <3>1. new(i) = new(j)
      BY <1>3, <1>6, <2>1
    <3>2. items[i].id = items[j].id
      BY <1>4, <3>1
    <3> QED
      BY <1>6, <3>2
  <2>2. CASE ~SeenBefore(items, i) /\ ~SeenBefore(items, j)
    <3>1. items[i].name = items[j].name
      BY <1>3, <1>6, <2>2
    <3>2. ~(i < j) /\ ~(j < i)
      BY <2>2, <3>1 DEF SeenBefore
    <3>3. i \in Nat /\ j \in Nat
      OBVIOUS
    <3> QED
      BY <3>2, <3>3
  <2>3. ASSUME NEW a \in 1..n, NEW b \in 1..n, items[a].name = new(b) PROVE FALSE
    BY <1>1, <1>6, <2>3 DEF Lookalike, new
  <2> QED
    BY <1>3, <1>6, <2>1, <2>2, <2>3
<1> QED
  BY <1>2, <1>5, <1>6 DEF ItemsRenamed, Unique, out

-----------------------------------------------------------------------------
(* The two sizes of an archive.                                            *)

\* Lists of n entries, and of n files, whose lengths are numbers.
Counted(entries, n) ==
    DOMAIN entries = 1..n /\ \A i \in 1..n : CentralHeader(entries[i]) \in Nat
Sized(files, n) ==
    /\ DOMAIN files = 1..n
    /\ \A i \in 1..n : NameLength(files[i].name) \in Nat /\ files[i].size \in Nat

LEMMA CentralSums ==
    ASSUME NEW n \in Nat, NEW entries, Counted(entries, n)
    PROVE  \E t \in [0..n -> Nat] :
              /\ t[0] = 0 /\ CentralSize(entries) = t[n]
              /\ \A k \in 1..n : t[k] = t[k - 1] + CentralHeader(entries[k])
<1> DEFINE step == [p \in Nat \X (1..n) |-> p[1] + CentralHeader(entries[p[2]])]
           Defines(g) == g = [s \in SUBSET DOMAIN entries |->
                                IF s = {} THEN 0
                                ELSE g[s \ {Max(s)}] + CentralHeader(entries[Max(s)])]
           iter == CHOOSE g : Defines(g)
<1>0. DOMAIN entries = 1..n /\ \A i \in 1..n : CentralHeader(entries[i]) \in Nat
  BY DEF Counted
<1>1. step \in [Nat \X (1..n) -> Nat]
  BY <1>0
<1>2. \A a \in Nat, k \in 1..n : step[<<a, k>>] = a + CentralHeader(entries[k])
  OBVIOUS
<1> HIDE DEF step
<1>3. \E g : Defines(g)
  <2>1. PICK g \in [SUBSET (1..n) -> Nat] : IsFold(g, n, 0, step)
    BY <1>1, FoldExists
  <2>2. ASSUME NEW s \in SUBSET (1..n), s # {}
        PROVE  step[<<g[s \ {Max(s)}], Max(s)>>]
                  = g[s \ {Max(s)}] + CentralHeader(entries[Max(s)])
    <3>1. Max(s) \in 1..n
      BY <2>2, MaxProperties
    <3>2. g[s \ {Max(s)}] \in Nat
      OBVIOUS
    <3> QED
      BY <1>2, <3>1, <3>2
  <2>3. Defines(g)
    BY <1>0, <2>1, <2>2 DEF IsFold
  <2> QED
    BY <2>3
<1>4. Defines(iter)
  BY <1>3
<1>5. CentralSize(entries) = iter[1..n]
  BY <1>0 DEF CentralSize, FoldLeft, MapThenFoldSet
<1> HIDE DEF iter
<1>6. iter[{}] = 0
  BY <1>0, <1>4
<1>7. ASSUME NEW s \in SUBSET (1..n), s # {}, iter[s \ {Max(s)}] \in Nat
      PROVE  iter[s] = step[<<iter[s \ {Max(s)}], Max(s)>>]
  <2>1. Max(s) \in 1..n
    BY <1>7, MaxProperties
  <2>2. iter[s] = iter[s \ {Max(s)}] + CentralHeader(entries[Max(s)])
    BY <1>0, <1>4, <1>7
  <2> QED
    BY <1>2, <1>7, <2>1, <2>2
<1>8. PICK t : IsRunOf(t, n, Nat, 0, step) /\ iter[1..n] = t[n]
  <2>1. Follows(iter, n, Nat, 0, step)
    BY <1>1, <1>6, <1>7 DEF Follows
  <2> QED
    BY <2>1, FoldRuns
<1>9. ASSUME NEW k \in 1..n PROVE t[k] = t[k - 1] + CentralHeader(entries[k])
  <2>1. k - 1 \in 0..n
    OBVIOUS
  <2> QED
    BY <1>2, <1>8, <2>1 DEF IsRunOf
<1> QED
  BY <1>5, <1>8, <1>9 DEF IsRunOf

\* Where calculate_archive_size stands after each of the files.
FileSumsAre(t, n, files) ==
    /\ t \in [0..n -> [offset : Nat, cd : Nat]]
    /\ t[0] = [offset |-> 0, cd |-> 0] /\ AllFiles(files) = t[n]
    /\ \A k \in 1..n : t[k] = AddFile(t[k - 1], files[k])

LEMMA FileSums ==
    ASSUME NEW n \in Nat, NEW files, Sized(files, n)
    PROVE  \E t : FileSumsAre(t, n, files)
<1> DEFINE A == [offset : Nat, cd : Nat]
           base == [offset |-> 0, cd |-> 0]
           step == [p \in A \X (1..n) |-> AddFile(p[1], files[p[2]])]
           Defines(g) == g = [s \in SUBSET DOMAIN files |->
                                IF s = {} THEN base
                                ELSE AddFile(g[s \ {Max(s)}], files[Max(s)])]
           iter == CHOOSE g : Defines(g)
<1>0. /\ DOMAIN files = 1..n
      /\ \A i \in 1..n : NameLength(files[i].name) \in Nat /\ files[i].size \in Nat
  BY DEF Sized
<1>1. base \in A /\ step \in [A \X (1..n) -> A]
  <2>1. ASSUME NEW a \in A, NEW k \in 1..n PROVE AddFile(a, files[k]) \in A
    <3> DEFINE z == IF a.offset >= Max32 THEN 12 ELSE 0
               l == NameLength(files[k].name)
    <3>1. a.offset \in Nat /\ a.cd \in Nat /\ l \in Nat /\ files[k].size \in Nat /\ z \in Nat
      BY <1>0
    <3>2. AddFile(a, files[k]) = [offset |-> a.offset + 30 + l + files[k].size + 16,
                                  cd |-> a.cd + 46 + l + z]
      BY DEF AddFile
    <3> HIDE DEF z, l
    <3>3. a.offset + 30 + l + files[k].size + 16 \in Nat /\ a.cd + 46 + l + z \in Nat
      BY <3>1
    <3> QED
      BY <3>2, <3>3
  <2> QED
    BY <2>1
<1>2. \A a \in A, k \in 1..n : step[<<a, k>>] = AddFile(a, files[k])
  OBVIOUS
<1> HIDE DEF step, A, base
<1>3. \E g : Defines(g)
  <2>1. PICK g \in [SUBSET (1..n) -> A] : IsFold(g, n, base, step)
    BY <1>1, FoldExists
  <2>2. ASSUME NEW s \in SUBSET (1..n), s # {}
        PROVE  step[<<g[s \ {Max(s)}], Max(s)>>] = AddFile(g[s \ {Max(s)}], files[Max(s)])
    <3>1. Max(s) \in 1..n
      BY <2>2, MaxProperties
    <3>2. g[s \ {Max(s)}] \in A
      OBVIOUS
    <3> QED
      BY <1>2, <3>1, <3>2
  <2>3. Defines(g)
    BY <1>0, <2>1, <2>2 DEF IsFold
  <2> QED
    BY <2>3
<1>4. Defines(iter)
  BY <1>3
<1>5. AllFiles(files) = iter[1..n]
  BY <1>0 DEF AllFiles, FoldLeft, MapThenFoldSet, base
<1> HIDE DEF iter
<1>6. iter[{}] = base
  BY <1>0, <1>4
<1>7. ASSUME NEW s \in SUBSET (1..n), s # {}, iter[s \ {Max(s)}] \in A
      PROVE  iter[s] = step[<<iter[s \ {Max(s)}], Max(s)>>]
  <2>1. Max(s) \in 1..n
    BY <1>7, MaxProperties
  <2>2. iter[s] = AddFile(iter[s \ {Max(s)}], files[Max(s)])
    BY <1>0, <1>4, <1>7
  <2> QED
    BY <1>2, <1>7, <2>1, <2>2
<1>8. PICK t : IsRunOf(t, n, A, base, step) /\ iter[1..n] = t[n]
  <2>1. Follows(iter, n, A, base, step)
    BY <1>1, <1>6, <1>7 DEF Follows
  <2> QED
    BY <2>1, FoldRuns
<1>9. ASSUME NEW k \in 1..n PROVE t[k] = AddFile(t[k - 1], files[k])
  <2>1. k - 1 \in 0..n
    OBVIOUS
  <2> QED
    BY <1>2, <1>8, <2>1 DEF IsRunOf
<1> QED
  BY <1>5, <1>8, <1>9 DEF IsRunOf, FileSumsAre, A, base

EndOf(e) == e.offset + LocalHeader(e.name) + e.size + DataDescriptor
EndOfAll(entries) == IF Len(entries) = 0 THEN 0 ELSE EndOf(entries[Len(entries)])

\* One entry after the other for each of the files.
EntriesOf(entries, files) ==
    /\ DOMAIN entries = DOMAIN files /\ Len(entries) = Len(files)
    /\ \A i \in DOMAIN files :
          /\ entries[i].name = files[i].name /\ entries[i].size = files[i].size
          /\ entries[i].offset = IF i = 1 THEN 0 ELSE EndOf(entries[i - 1])

IsFiles(files) == IsSequence(files) /\ \A i \in DOMAIN files : IsItem(files[i])

LEMMA FileLengths ==
    ASSUME NEW files, IsFiles(files)
    PROVE  /\ Len(files) \in Nat /\ DOMAIN files = 1..Len(files)
           /\ \A i \in 1..Len(files) :
                 NameLength(files[i].name) \in Nat /\ files[i].size \in Nat
<1>1. Len(files) \in Nat /\ DOMAIN files = 1..Len(files)
  BY SequenceForm DEF IsFiles, IsSequence
<1>2. ASSUME NEW i \in 1..Len(files)
      PROVE  NameLength(files[i].name) \in Nat /\ files[i].size \in Nat
  <2>1. IsSequence(files[i].name.base) /\ files[i].size \in Nat
    BY <1>1 DEF IsFiles, IsItem, IsName
  <2>2. Len(files[i].name.base) \in Nat
    BY <2>1 DEF IsSequence
  <2> QED
    BY <2>1, <2>2 DEF NameLength
<1> QED
  BY <1>1, <1>2

LEMMA AnnouncedType ==
    ASSUME NEW files, IsFiles(files)
    PROVE  CalculateArchiveSize(files) \in Nat
<1> DEFINE n == Len(files)
           end == AllFiles(files)
<1>1. n \in Nat /\ Sized(files, n)
  BY FileLengths DEF Sized
<1> HIDE DEF n
<1>2. PICK t : FileSumsAre(t, n, files)
  BY <1>1, FileSums
<1>3. n \in 0..n
  BY <1>1
<1>4. end.offset \in Nat /\ end.cd \in Nat
  BY <1>2, <1>3 DEF FileSumsAre
<1> HIDE DEF end
<1>5. CalculateArchiveSize(files) = end.offset + end.cd
         + (IF end.offset >= Max32 \/ end.cd >= Max32 \/ n >= Max16
              THEN 56 + 20 + 22 ELSE 22)
  BY DEF CalculateArchiveSize, end, n
<1> QED
  BY <1>4, <1>5

\* calculate_archive_size is the length stream_archive writes when it leaves
\* nothing out: both pass from the local to the ZIP64 form of every record at
\* the same entry.
THEOREM AnnouncedIsWritten ==
    ASSUME NEW files, IsFiles(files), NEW entries, EntriesOf(entries, files)
    PROVE  /\ CalculateArchiveSize(files) \in Nat
           /\ CalculateArchiveSize(files)
                 = EndOfAll(entries) + Closing(entries, EndOfAll(entries))
<1> DEFINE n == Len(files)
<1>1. n \in Nat /\ DOMAIN files = 1..n /\ DOMAIN entries = 1..n /\ Len(entries) = n
      /\ \A i \in 1..n : NameLength(files[i].name) \in Nat /\ files[i].size \in Nat
  BY FileLengths DEF EntriesOf
<1>2. ASSUME NEW i \in 1..n
      PROVE  /\ entries[i].name = files[i].name /\ entries[i].size = files[i].size
             /\ entries[i].offset = IF i = 1 THEN 0 ELSE EndOf(entries[i - 1])
  BY <1>1 DEF EntriesOf
<1> HIDE DEF n
<1> DEFINE A == [offset : Nat, cd : Nat]
<1>3. PICK f \in [0..n -> A] :
         /\ f[0] = [offset |-> 0, cd |-> 0] /\ AllFiles(files) = f[n]
         /\ \A k \in 1..n : f[k] = AddFile(f[k - 1], files[k])
  <2>1. n \in Nat /\ Sized(files, n)
    BY <1>1 DEF Sized
  <2>2. PICK t : FileSumsAre(t, n, files)
    BY <2>1, FileSums
  <2> QED
    BY <2>2 DEF FileSumsAre
\* Where calculate_archive_size stands is where the entries end.
<1> DEFINE Ends(k) == f[k].offset = IF k = 0 THEN 0 ELSE EndOf(entries[k])
           Right == {k \in Nat : k <= n => Ends(k)}
<1>4. ASSUME NEW k \in 1..n
      PROVE  /\ f[k - 1] \in A /\ f[k] \in A
             /\ f[k].offset = f[k - 1].offset + 30 + NameLength(files[k].name)
                                + files[k].size + 16
             /\ f[k].cd = f[k - 1].cd + 46 + NameLength(files[k].name)
                            + (IF f[k - 1].offset >= Max32 THEN 12 ELSE 0)
  <2>1. k - 1 \in 0..n /\ k \in 0..n
    BY <1>1
  <2>2. f[k] = AddFile(f[k - 1], files[k])
    BY <1>3
  <2>3. f[k - 1] \in A /\ f[k] \in A
    BY <1>3, <2>1
  <2> HIDE DEF A
  <2> QED
    BY <2>2, <2>3 DEF AddFile
<1>5. ASSUME NEW k \in 1..n, Ends(k - 1)
      PROVE  /\ entries[k].offset = f[k - 1].offset /\ Ends(k)
  <2>1. entries[k].offset = f[k - 1].offset
    <3>1. k - 1 = 0 <=> k = 1
      BY <1>1
    <3>2. entries[k].offset = IF k - 1 = 0 THEN 0 ELSE EndOf(entries[k - 1])
      BY <1>2, <3>1
    <3> QED
      BY <1>5, <3>2
  <2>2. f[k - 1].offset \in Nat /\ NameLength(files[k].name) \in Nat /\ files[k].size \in Nat
    BY <1>1, <1>4
  <2>3. EndOf(entries[k])
           = f[k - 1].offset + (30 + NameLength(files[k].name)) + files[k].size + 16
    BY <1>2, <2>1 DEF EndOf, LocalHeader, DataDescriptor
  <2>4. k # 0
    BY <1>1
  <2>5. f[k].offset
           = f[k - 1].offset + 30 + NameLength(files[k].name) + files[k].size + 16
    BY <1>4
  <2>6. EndOf(entries[k]) = f[k].offset
    <3>1. \A x, l, z \in Nat : x + 30 + l + z + 16 = x + (30 + l) + z + 16
      OBVIOUS
    <3> QED
      BY <2>2, <2>3, <2>5, <3>1
  <2> QED
    BY <2>1, <2>4, <2>6
<1>6. Ends(0)
  BY <1>3
<1> HIDE DEF Ends
<1>7. 0 \in Right /\ \A k \in Nat : k \in Right => k + 1 \in Right
  <2>1. ASSUME NEW k \in Nat, k \in Right, k + 1 <= n PROVE Ends(k + 1)
    <3>1. k + 1 \in 1..n /\ (k + 1) - 1 = k /\ k <= n
      BY <1>1, <2>1
    <3> QED
      BY <1>5, <2>1, <3>1
  <2> QED
    BY <1>6, <2>1
<1>8. \A k \in Nat : k \in Right
  BY <1>7, AllNumbers
<1>9. ASSUME NEW k \in 0..n PROVE Ends(k)
  <2>1. k \in Nat /\ k <= n
    BY <1>1
  <2> QED
    BY <1>8, <2>1
<1>10. ASSUME NEW k \in 1..n
       PROVE  /\ CentralHeader(entries[k]) \in Nat
              /\ f[k].cd = f[k - 1].cd + CentralHeader(entries[k])
  <2>1. k - 1 \in 0..n
    BY <1>1
  <2>2. entries[k].offset = f[k - 1].offset /\ entries[k].name = files[k].name
    BY <1>2, <1>5, <1>9, <2>1
  <2>3. CentralHeader(entries[k])
           = 46 + NameLength(files[k].name) + (IF f[k - 1].offset >= Max32 THEN 12 ELSE 0)
    BY <2>2 DEF CentralHeader
  <2>4. f[k - 1].cd \in Nat /\ f[k - 1].offset \in Nat /\ NameLength(files[k].name) \in Nat
    BY <1>1, <1>4
  <2>5. f[k].cd = f[k - 1].cd + 46 + NameLength(files[k].name)
                    + (IF f[k - 1].offset >= Max32 THEN 12 ELSE 0)
    BY <1>4
  <2> DEFINE c == f[k - 1].cd
             l == NameLength(files[k].name)
             z == IF f[k - 1].offset >= Max32 THEN 12 ELSE 0
  <2>6. z \in Nat /\ c \in Nat /\ l \in Nat
    BY <2>4
  <2>7. f[k].cd = c + 46 + l + z /\ CentralHeader(entries[k]) = 46 + l + z
    BY <2>3, <2>5
  <2> HIDE DEF c, l, z
  <2>8. f[k].cd = c + CentralHeader(entries[k]) /\ CentralHeader(entries[k]) \in Nat
    BY <2>6, <2>7
  <2> QED
    BY <2>8 DEF c
<1>11. PICK c \in [0..n -> Nat] :
          /\ c[0] = 0 /\ CentralSize(entries) = c[n]
          /\ \A k \in 1..n : c[k] = c[k - 1] + CentralHeader(entries[k])
  <2>1. n \in Nat /\ Counted(entries, n)
    BY <1>1, <1>10 DEF Counted
  <2> QED
    BY <2>1, CentralSums
<1> DEFINE Same == {k \in Nat : k <= n => f[k].cd = c[k]}
<1>12. 0 \in Same /\ \A k \in Nat : k \in Same => k + 1 \in Same
  <2>1. ASSUME NEW k \in Nat, k \in Same, k + 1 <= n PROVE f[k + 1].cd = c[k + 1]
    <3>1. k + 1 \in 1..n /\ (k + 1) - 1 = k /\ k <= n
      BY <1>1, <2>1
    <3>2. c[k + 1] = c[k] + CentralHeader(entries[k + 1]) /\ f[k].cd = c[k]
      BY <1>11, <2>1, <3>1
    <3> QED
      BY <1>10, <3>1, <3>2
  <2>2. f[0].cd = c[0]
    BY <1>3, <1>11
  <2> QED
    BY <2>1, <2>2
<1>13. \A k \in Nat : k \in Same
  BY <1>12, AllNumbers
<1>14. f[n].cd = CentralSize(entries) /\ f[n] \in A /\ n \in 0..n
  BY <1>1, <1>3, <1>11, <1>13
<1>15. f[n].offset = EndOfAll(entries)
  BY <1>1, <1>9, <1>14 DEF Ends, EndOfAll
<1> DEFINE o == EndOfAll(entries)
           s == CentralSize(entries)
<1>16. o \in Nat /\ s \in Nat
  BY <1>14, <1>15
<1>17. AllFiles(files).offset = o /\ AllFiles(files).cd = s
  BY <1>3, <1>14, <1>15
<1> HIDE DEF o, s
<1> DEFINE big == o >= Max32 \/ s >= Max32 \/ n >= Max16
<1>18. CalculateArchiveSize(files) = o + s + (IF big THEN 56 + 20 + 22 ELSE 22)
  BY <1>17 DEF CalculateArchiveSize, n
<1>19. Closing(entries, o) = s + (22 + (IF big THEN 56 + 20 ELSE 0))
  BY <1>1 DEF Closing, EndRecords, s
<1> HIDE DEF big
<1>20. CalculateArchiveSize(files) \in Nat
       /\ CalculateArchiveSize(files) = o + Closing(entries, o)
  BY <1>16, <1>18, <1>19
<1> QED
  BY <1>20 DEF o

-----------------------------------------------------------------------------
(* The range parser.                                                       *)

\* The bounds the code computes from a well-formed header are those of the
\* positions the header selects.
LEMMA AskedIsSelected ==
    ASSUME NEW size \in Nat \ {0}, NEW h \in Headers(Nat),
           h.form \in {"suffix", "from", "between"}
    PROVE  LET s == Asked(h, size)[1]
               e == Asked(h, size)[2]
           IN /\ s \in Nat /\ e \in Int
              /\ Selected(h, size) = {i \in 0..(size - 1) : s <= i /\ i <= e}
<1>1. CASE h.form = "suffix"
  <2>1. h.n \in Nat
    BY <1>1 DEF Headers
  <2> QED
    BY <1>1, <2>1 DEF Asked, Selected, Larger
<1>2. CASE h.form = "from"
  <2>1. h.s \in Nat
    BY <1>2 DEF Headers
  <2> QED
    BY <1>2, <2>1 DEF Asked, Selected
<1>3. CASE h.form = "between"
  <2>1. h.s \in Nat /\ h.e \in Int
    BY <1>3 DEF Headers
  <2> QED
    BY <1>3, <2>1 DEF Asked, Selected
<1> QED
  BY <1>1, <1>2, <1>3

LEMMA AnswerKinds ==
    ASSUME NEW size, NEW h
    PROVE  LET r == ParseRange(h, size)
           IN r = Whole \/ r = Unsatisfiable \/ r.answer = "part"
BY DEF ParseRange, Whole, Unsatisfiable, Part

\* What parse_range_header and its two callers answer to no header or a
\* well-formed one stands for exactly the bytes within the bounds it writes,
\* none when it cannot be satisfied.  A part is never empty and lies within the
\* file, so its Content-Length is positive and met.
THEOREM RangeAnswersHeader ==
    ASSUME NEW size \in Nat, NEW h \in Headers(Nat)
    PROVE  LET r == ParseRange(h, size)
           IN /\ h.form # "malformed" => Bytes(r, size) = Selected(h, size)
              /\ r.answer = "part" =>
                    r.start \in 0..r.end /\ r.end \in r.start..(size - 1)
<1> DEFINE r == ParseRange(h, size)
<1>0. /\ Bytes(Whole, size) = 0..(size - 1) /\ Whole.answer # "part"
      /\ Bytes(Unsatisfiable, size) = {} /\ Unsatisfiable.answer # "part"
  BY DEF Bytes, Whole, Unsatisfiable
<1>1. CASE h.form \in {"none", "malformed"}
  <2>1. r \in {Whole, Unsatisfiable}
    BY <1>1 DEF ParseRange
  <2>2. h.form = "none" => r = Whole /\ Selected(h, size) = 0..(size - 1)
    BY DEF ParseRange, Selected
  <2> HIDE DEF r
  <2> QED
    BY <1>0, <1>1, <2>1, <2>2 DEF r
<1>2. CASE h.form \notin {"none", "malformed"} /\ size = 0
  <2>1. Selected(h, size) = {}
    BY <1>2 DEF Selected
  <2> QED
    BY <1>0, <1>2, <2>1 DEF ParseRange
<1>3. CASE h.form \notin {"none", "malformed"} /\ size # 0
  <2> DEFINE s == Asked(h, size)[1]
             e == Asked(h, size)[2]
  <2>1. h.form \in {"suffix", "from", "between"}
    BY <1>3 DEF Headers
  <2>2. /\ s \in Nat /\ e \in Int
        /\ Selected(h, size) = {i \in 0..(size - 1) : s <= i /\ i <= e}
    BY <1>3, <2>1, AskedIsSelected
  <2>3. r = IF Satisfiable(s, e, size)
              THEN Part(s, Smaller(e, size - 1)) ELSE Unsatisfiable
    BY <1>3 DEF ParseRange
  <2> HIDE DEF s, e, r
  <2>4. CASE Satisfiable(s, e, size)
    <3>1. /\ Bytes(r, size) = s..Smaller(e, size - 1)
          /\ r.start = s /\ r.end = Smaller(e, size - 1)
      BY <2>3, <2>4 DEF Bytes, Part, Whole, Unsatisfiable
    <3>2. s..Smaller(e, size - 1) = {i \in 0..(size - 1) : s <= i /\ i <= e}
      BY <2>2, <1>3 DEF Smaller
    <3>3. s <= Smaller(e, size - 1) /\ Smaller(e, size - 1) \in 0..(size - 1)
      BY <2>2, <2>4, <1>3 DEF Smaller, Satisfiable
    <3>4. r.start \in 0..r.end /\ r.end \in r.start..(size - 1)
      BY <2>2, <3>1, <3>3
    <3> QED
      BY <2>2, <3>1, <3>2, <3>4 DEF r
  <2>5. CASE ~Satisfiable(s, e, size)
    <3>1. {i \in 0..(size - 1) : s <= i /\ i <= e} = {}
      BY <2>2, <2>5 DEF Satisfiable
    <3> QED
      BY <1>0, <2>2, <2>3, <2>5, <3>1 DEF r
  <2> QED
    BY <2>4, <2>5
<1> QED
  BY <1>1, <1>2, <1>3
=============================================================================
