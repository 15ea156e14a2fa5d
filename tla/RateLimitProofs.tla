--------------------------- MODULE RateLimitProofs ---------------------------
(***************************************************************************)
(* The failure table's limit and what either limiter enforces, for any     *)
(* addresses, window and limits.                                           *)
(***************************************************************************)
EXTENDS RateLimit, FiniteSetTheorems, SequenceTheorems, WellFoundedInduction, TLAPS

-----------------------------------------------------------------------------
(* The table's limit.                                                      *)

\* The table's limit, with what a count of addresses needs.
TableInv == IsFiniteSet(DOMAIN failures) /\ TableBounded

LEMMA LookedDomain ==
    ASSUME NEW ip
    PROVE  DOMAIN Looked(ip) \subseteq DOMAIN failures
BY DEF Looked, Drop, Put, Times

\* One address more in a table that had fewer than its limit.
LEMMA OneMore ==
    ASSUME NEW S, IsFiniteSet(S), Cardinality(S) < MaxEntries, NEW ip
    PROVE  IsFiniteSet(S \union {ip}) /\ Cardinality(S \union {ip}) <= MaxEntries
<1>1. Cardinality(S) \in Nat /\ MaxEntries \in Nat
  BY FS_CardinalityType, RateLimitAssumption
<1>2. CASE ip \in S
  <2>1. S \union {ip} = S
    BY <1>2
  <2> QED
    BY <1>1, <2>1
<1>3. CASE ip \notin S
  BY <1>1, <1>3, FS_AddElement
<1> QED
  BY <1>2, <1>3

\* record_failure makes room before it adds an address: by pruning, or by
\* evicting one of those that are left.
LEMMA RoomMade ==
    ASSUME NEW table, IsFiniteSet(DOMAIN table), Cardinality(DOMAIN table) <= MaxEntries,
           NEW gone \in Victims(table)
    PROVE  LET kept == DOMAIN Room(table) \ gone
           IN IsFiniteSet(kept) /\ Cardinality(kept) < MaxEntries
<1> DEFINE kept == DOMAIN Room(table) \ gone
<1>1. Cardinality(DOMAIN table) \in Nat /\ MaxEntries \in Nat
  BY FS_CardinalityType, RateLimitAssumption
<1>2. DOMAIN Prune(table) \subseteq DOMAIN table
  BY DEF Prune, Drop
<1>3. IsFiniteSet(DOMAIN Prune(table))
      /\ Cardinality(DOMAIN Prune(table)) <= Cardinality(DOMAIN table)
      /\ Cardinality(DOMAIN Prune(table)) \in Nat
  BY <1>2, FS_Subset, FS_CardinalityType
<1>4. CASE Cardinality(DOMAIN table) < MaxEntries
  <2>1. kept = DOMAIN table
    BY <1>4 DEF Victims, Room
  <2> QED
    BY <1>4, <2>1
<1>5. CASE Cardinality(DOMAIN table) >= MaxEntries
           /\ Cardinality(DOMAIN Prune(table)) < MaxEntries
  <2>1. ~(Cardinality(DOMAIN table) < MaxEntries)
    BY <1>1, <1>5
  <2>2. kept = DOMAIN Prune(table)
    BY <1>5, <2>1 DEF Victims, Room
  <2> QED
    BY <1>3, <1>5, <2>2
<1>6. CASE Cardinality(DOMAIN table) >= MaxEntries
           /\ ~(Cardinality(DOMAIN Prune(table)) < MaxEntries)
  <2>1. ~(Cardinality(DOMAIN table) < MaxEntries)
    BY <1>1, <1>6
  <2>2. PICK k \in DOMAIN Prune(table) : gone = {k}
    BY <1>6, <2>1 DEF Victims
  <2>3. kept = DOMAIN Prune(table) \ {k}
    BY <2>1, <2>2 DEF Room
  <2>4. IsFiniteSet(kept) /\ Cardinality(kept) = Cardinality(DOMAIN Prune(table)) - 1
    BY <1>3, <2>3, FS_RemoveElement
  <2>5. Cardinality(kept) < MaxEntries
    BY <1>1, <1>3, <2>4
  <2> QED
    BY <2>4, <2>5
<1> QED
  BY <1>1, <1>4, <1>5, <1>6

LEMMA TableStep == ASSUME TableInv, Next PROVE TableInv'
<1>1. ASSUME DOMAIN failures' \subseteq DOMAIN failures PROVE TableInv'
  <2>1. /\ IsFiniteSet(DOMAIN failures')
        /\ Cardinality(DOMAIN failures') <= Cardinality(DOMAIN failures)
    BY <1>1, FS_Subset DEF TableInv
  <2>2. /\ Cardinality(DOMAIN failures') \in Nat /\ Cardinality(DOMAIN failures) \in Nat
        /\ MaxEntries \in Nat
    BY <2>1, FS_CardinalityType, RateLimitAssumption DEF TableInv
  <2> QED
    BY <2>1, <2>2 DEF TableInv, TableBounded
<1>2. ASSUME NEW ip \in Ips, WrongToken(ip) PROVE TableInv'
  <2> DEFINE table == Looked(ip)
  <2>1. IsFiniteSet(DOMAIN table) /\ Cardinality(DOMAIN table) <= MaxEntries
    <3>1. /\ IsFiniteSet(DOMAIN table)
          /\ Cardinality(DOMAIN table) <= Cardinality(DOMAIN failures)
      BY LookedDomain, FS_Subset DEF TableInv
    <3>2. /\ Cardinality(DOMAIN table) \in Nat /\ Cardinality(DOMAIN failures) \in Nat
          /\ MaxEntries \in Nat
      BY <3>1, FS_CardinalityType, RateLimitAssumption DEF TableInv
    <3> HIDE DEF table
    <3> QED
      BY <3>1, <3>2 DEF TableInv, TableBounded
  <2>2. PICK gone \in Victims(table) :
           failures' = Put(Drop(Room(table), gone), ip,
                           Append(Times(Drop(Room(table), gone), ip), 0))
    BY <1>2 DEF WrongToken
  <2> HIDE DEF table
  <2>3. DOMAIN failures' = (DOMAIN Room(table) \ gone) \union {ip}
    <3>1. PICK times : failures' = Put(Drop(Room(table), gone), ip, times)
      BY <2>2
    <3> QED
      BY <3>1 DEF Put, Drop
  <2>4. LET kept == DOMAIN Room(table) \ gone
        IN IsFiniteSet(kept) /\ Cardinality(kept) < MaxEntries
    BY <2>1, RoomMade
  <2> QED
    BY <2>3, <2>4, OneMore DEF TableInv, TableBounded
<1>3. ASSUME NEW ip \in Ips, TooMany(ip) \/ RightToken(ip) PROVE TableInv'
  <2>1. DOMAIN failures' \subseteq DOMAIN failures
    BY <1>3, LookedDomain DEF TooMany, RightToken, Drop
  <2> QED
    BY <1>1, <2>1
<1>4. CASE Tick
  BY <1>1, <1>4 DEF Tick
<1>5. ASSUME NEW ip \in Ips, TurnedAway(ip) \/ LetIn(ip) PROVE TableInv'
  BY <1>1, <1>5 DEF TurnedAway, LetIn
<1> QED
  BY <1>2, <1>3, <1>4, <1>5 DEF Next

\* The failure tracker remembers at most max_entries addresses, whichever of
\* them fail, succeed or expire in whatever order.
THEOREM TableKeepsItsLimit == Spec => []TableBounded
<1>1. Init => TableInv
  BY FS_EmptySet, RateLimitAssumption DEF Init, TableInv, TableBounded
<1>2. TableInv /\ UNCHANGED vars => TableInv'
  BY DEF TableInv, TableBounded, vars
<1>3. TableInv => TableBounded
  BY DEF TableInv
<1> QED
  BY <1>1, <1>2, <1>3, TableStep, PTL DEF Spec

-----------------------------------------------------------------------------
(* The times in a window.  They are kept oldest first, so what has expired *)
(* is at the front, and filtering cuts it off there.                       *)

Sorted(s) == s \in Seq(Ages) /\ \A i, j \in DOMAIN s : i <= j => s[i] >= s[j]

\* The first k of s have expired, the others have not.
Cut(s, k) ==
    /\ k \in 0..Len(s)
    /\ \A i \in 1..k : ~(s[i] < Window)
    /\ \A i \in (k + 1)..Len(s) : s[i] < Window

Suffix(s, k) == [i \in 1..(Len(s) - k) |-> s[i + k]]

LEMMA LeastExists ==
    ASSUME NEW S \in SUBSET Nat, S # {}
    PROVE  \E n \in S : \A k \in S : n <= k
<1> DEFINE R == OpToRel(<, Nat)
<1>1. \A x, y \in Nat : x < y => <<x, y>> \in R
  BY DEF OpToRel
<1>2. PICK n \in S : \A k \in S : <<k, n>> \notin R
  BY NatLessThanWellFounded, WFMin
<1> HIDE DEF R
<1>3. ASSUME NEW k \in S PROVE n <= k
  <2>1. ~(k < n)
    BY <1>1, <1>2
  <2> QED
    BY <2>1
<1> QED
  BY <1>3

\* The i-th element of an interval.
LEMMA NthOfInterval ==
    ASSUME NEW a \in Nat, NEW n \in Nat, a <= n + 1, NEW i \in 1..(n - a + 1)
    PROVE  Nth(a..n, i) = i + a - 1 /\ Cardinality(a..n) = n - a + 1
<1> DEFINE S == a..n
           Upto(m) == {j \in S : j <= m}
<1>1. ASSUME NEW m \in S PROVE Cardinality(Upto(m)) = m - a + 1
  <2>1. Upto(m) = a..m
    OBVIOUS
  <2>2. m \in Int /\ a \in Int /\ a <= m
    OBVIOUS
  <2>3. Cardinality(a..m) = m - a + 1
    BY <2>2, FS_Interval
  <2> QED
    BY <2>1, <2>3
<1>2. i + a - 1 \in S
  OBVIOUS
<1>3. Cardinality(Upto(i + a - 1)) = i
  <2>1. Cardinality(Upto(i + a - 1)) = (i + a - 1) - a + 1
    BY <1>1, <1>2
  <2>2. (i + a - 1) - a + 1 = i
    OBVIOUS
  <2> QED
    BY <2>1, <2>2
<1>4. \A m \in S : Cardinality(Upto(m)) = i => m = i + a - 1
  BY <1>1
<1>5. Nth(S, i) = CHOOSE m \in S : Cardinality(Upto(m)) = i
  BY DEF Nth
<1> HIDE DEF S, Upto
<1>6. Nth(S, i) = i + a - 1
  BY <1>2, <1>3, <1>4, <1>5
<1>7. Cardinality(a..n) = n - a + 1
  BY FS_Interval
<1> QED
  BY <1>6, <1>7 DEF S

LEMMA FreshOfCut ==
    ASSUME NEW s \in Seq(Ages), NEW k, Cut(s, k)
    PROVE  Fresh(s) = Suffix(s, k)
<1> DEFINE n == Len(s)
           P == {i \in DOMAIN s : s[i] < Window}
<1>1. n \in Nat /\ k \in Nat /\ k <= n /\ DOMAIN s = 1..n
  BY DEF Cut
<1>2. P = (k + 1)..n
  <2>1. ASSUME NEW i \in 1..n PROVE i \in 1..k \/ i \in (k + 1)..n
    BY <1>1, <2>1
  <2>2. ASSUME NEW i \in (k + 1)..n PROVE i \in 1..n
    BY <1>1
  <2> QED
    BY <1>1, <2>1, <2>2 DEF Cut
<1>3. Cardinality(P) = n - k
  <2>1. Cardinality((k + 1)..n) = n - k
    <3>1. k + 1 \in Int /\ n \in Int /\ ~(k + 1 > n + 1)
      BY <1>1
    <3>2. Cardinality((k + 1)..n) = IF k + 1 > n THEN 0 ELSE n - (k + 1) + 1
      BY <3>1, FS_Interval
    <3> QED
      BY <1>1, <3>2
  <2> QED
    BY <1>2, <2>1
<1>4. ASSUME NEW i \in 1..(n - k) PROVE Nth(P, i) = i + k
  <2>1. k + 1 \in Nat /\ k + 1 <= n + 1 /\ i \in 1..(n - (k + 1) + 1)
    BY <1>1
  <2>2. Nth((k + 1)..n, i) = i + (k + 1) - 1
    BY <1>1, <2>1, NthOfInterval
  <2>3. i + (k + 1) - 1 = i + k
    BY <1>1
  <2> HIDE DEF P
  <2> QED
    BY <1>2, <2>2, <2>3
<1>5. Fresh(s) = [i \in 1..Cardinality(P) |-> s[Nth(P, i)]]
  BY DEF Fresh, Pick
<1> HIDE DEF n, P
<1>6. Fresh(s) = [i \in 1..(n - k) |-> s[i + k]]
  BY <1>3, <1>4, <1>5
<1> QED
  BY <1>6 DEF Suffix, n

\* A sorted list can be cut.
LEMMA CutExists ==
    ASSUME NEW s, Sorted(s)
    PROVE  \E k : Cut(s, k)
<1> DEFINE n == Len(s)
           P == {i \in 1..n : s[i] < Window}
<1>1. n \in Nat /\ DOMAIN s = 1..n /\ \A i \in 1..n : s[i] \in Nat
  BY RateLimitAssumption DEF Sorted, Ages
<1>2. CASE P = {}
  <2>1. Cut(s, n)
    BY <1>1, <1>2 DEF Cut
  <2> QED
    BY <2>1
<1>3. CASE P # {}
  <2>1. P \in SUBSET Nat
    OBVIOUS
  <2>2. PICK p \in P : \A i \in P : p <= i
    BY <1>3, <2>1, LeastExists
  <2>3. p \in 1..n /\ s[p] < Window /\ p - 1 \in 0..n
    BY <1>1, <2>2
  <2>4. ASSUME NEW i \in 1..(p - 1) PROVE ~(s[i] < Window)
    <3>1. i \in 1..n /\ ~(p <= i)
      BY <1>1, <2>3
    <3> QED
      BY <2>2, <3>1
  <2>5. ASSUME NEW i \in p..n PROVE s[i] < Window
    <3>1. i \in 1..n /\ p <= i
      BY <1>1, <2>3
    <3>2. s[p] >= s[i] /\ s[p] \in Nat /\ s[i] \in Nat
      BY <1>1, <2>3, <3>1 DEF Sorted
    <3> QED
      BY <2>3, <3>2, RateLimitAssumption
  <2>6. (p - 1) + 1 = p
    BY <2>3
  <2>7. Cut(s, p - 1)
    BY <2>3, <2>4, <2>5, <2>6 DEF Cut
  <2> QED
    BY <2>7
<1> QED
  BY <1>2, <1>3

\* What is left of a sorted list is sorted and has nothing expired.
Young(s) == Sorted(s) /\ Cut(s, 0)

LEMMA SuffixYoung ==
    ASSUME NEW s, Sorted(s), NEW k, Cut(s, k)
    PROVE  LET t == Suffix(s, k)
           IN /\ Young(t) /\ Len(t) = Len(s) - k
              /\ \A i \in 1..(Len(s) - k) : t[i] = s[i + k] /\ i + k \in 1..Len(s)
<1> DEFINE n == Len(s)
           m == Len(s) - k
           t == Suffix(s, k)
<1>1. n \in Nat /\ k \in Nat /\ m \in Nat /\ DOMAIN s = 1..n /\ s \in Seq(Ages)
      /\ n = m + k
  BY DEF Cut, Sorted
<1>2. t = [i \in 1..m |-> s[i + k]]
  BY DEF Suffix
<1> HIDE DEF t, n, m
<1>3. \A i \in 1..m : i + k \in 1..n /\ i + k \in (k + 1)..n
  BY <1>1
<1>4. t \in [1..m -> Ages]
  BY <1>1, <1>2, <1>3
<1>5. t \in Seq(Ages) /\ Len(t) = m /\ DOMAIN t = 1..m
  BY <1>1, <1>4
<1>6. \A i, j \in 1..m : i <= j => t[i] >= t[j]
  <2>1. ASSUME NEW i \in 1..m, NEW j \in 1..m, i <= j PROVE t[i] >= t[j]
    <3>1. i + k <= j + k /\ i + k \in DOMAIN s /\ j + k \in DOMAIN s
      BY <1>1, <1>3, <2>1
    <3>2. s[i + k] >= s[j + k]
      BY <3>1 DEF Sorted
    <3> QED
      BY <1>2, <3>2
  <2> QED
    BY <2>1
<1>7. \A i \in 1..m : t[i] < Window
  BY <1>2, <1>3 DEF Cut, n
<1>8. Cut(t, 0)
  BY <1>1, <1>5, <1>7 DEF Cut
<1>9. Young(t)
  BY <1>5, <1>6, <1>8 DEF Young, Sorted
<1> QED
  BY <1>2, <1>3, <1>5, <1>9 DEF t, m, n

LEMMA FreshYoung ==
    ASSUME NEW s, Sorted(s)
    PROVE  Young(Fresh(s)) /\ Len(Fresh(s)) <= Len(s)
<1>1. PICK k : Cut(s, k)
  BY CutExists
<1>2. Fresh(s) = Suffix(s, k) /\ k \in 0..Len(s) /\ Len(s) \in Nat
  BY <1>1, FreshOfCut DEF Sorted, Cut
<1>3. Young(Suffix(s, k)) /\ Len(Suffix(s, k)) = Len(s) - k
  BY <1>1, SuffixYoung
<1> QED
  BY <1>2, <1>3

LEMMA FreshOfYoung ==
    ASSUME NEW s, Young(s)
    PROVE  Fresh(s) = s
<1>1. Fresh(s) = Suffix(s, 0) /\ s \in Seq(Ages)
  BY FreshOfCut DEF Young, Sorted
<1>2. Suffix(s, 0) = [i \in 1..Len(s) |-> s[i]]
  BY <1>1 DEF Suffix
<1> QED
  BY <1>1, <1>2

LEMMA EmptyYoung == Young(<<>>)
<1>1. <<>> \in Seq(Ages) /\ Len(<<>>) = 0 /\ DOMAIN <<>> = 1..0
  OBVIOUS
<1> QED
  BY <1>1 DEF Young, Sorted, Cut

\* _prune drops an address whose newest time has expired: none is left then.
LEMMA ExpiredFresh ==
    ASSUME NEW s, Sorted(s), Expired(s)
    PROVE  Fresh(s) = <<>>
<1> DEFINE n == Len(s)
<1>1. s \in Seq(Ages) /\ n \in Nat /\ DOMAIN s = 1..n /\ Window \in Nat
      /\ \A i \in 1..n : s[i] \in Nat
  BY RateLimitAssumption DEF Sorted, Ages
<1>2. ASSUME NEW i \in 1..n PROVE ~(s[i] < Window)
  <2>1. s # <<>> /\ n \in 1..n /\ i <= n
    BY <1>1, <1>2
  <2>2. s[n] >= Window /\ s[i] >= s[n]
    BY <1>1, <2>1 DEF Expired, Sorted
  <2> QED
    BY <1>1, <2>1, <2>2
<1>3. Cut(s, n)
  BY <1>1, <1>2 DEF Cut
<1>4. Fresh(s) = Suffix(s, n)
  BY <1>1, <1>3, FreshOfCut
<1>5. Suffix(s, n) = [i \in 1..0 |-> s[i + n]]
  BY <1>1 DEF Suffix
<1> QED
  BY <1>4, <1>5

LEMMA AppendYoung ==
    ASSUME NEW s, Young(s)
    PROVE  Young(Append(s, 0)) /\ Append(s, 0) # <<>> /\ Len(Append(s, 0)) = Len(s) + 1
<1> DEFINE n == Len(s)
           t == Append(s, 0)
<1>1. s \in Seq(Ages) /\ n \in Nat /\ DOMAIN s = 1..n /\ Window \in Nat \ {0} /\ 0 \in Ages
      /\ \A i \in 1..n : s[i] \in Nat /\ s[i] < Window
  BY RateLimitAssumption DEF Young, Sorted, Ages, Cut
<1>2. /\ t \in Seq(Ages) /\ Len(t) = n + 1 /\ t[n + 1] = 0
      /\ \A i \in 1..n : t[i] = s[i]
  BY <1>1, AppendProperties
<1> HIDE DEF t
<1>3. DOMAIN t = 1..(n + 1) /\ t # <<>>
  <2>1. DOMAIN t = 1..Len(t) /\ Len(t) # 0
    BY <1>1, <1>2
  <2> QED
    BY <1>2, <2>1
<1>4. \A i \in 1..(n + 1) : i \in 1..n \/ i = n + 1
  BY <1>1
<1>5. ASSUME NEW i \in 1..(n + 1), NEW j \in 1..(n + 1), i <= j PROVE t[i] >= t[j]
  <2>1. CASE j \in 1..n
    <3>1. i \in 1..n
      BY <1>1, <1>5, <2>1
    <3>2. s[i] >= s[j]
      BY <1>1, <1>5, <2>1, <3>1 DEF Young, Sorted
    <3> QED
      BY <1>2, <2>1, <3>1, <3>2
  <2>2. CASE j = n + 1
    <3>1. t[i] \in Nat /\ t[j] = 0
      BY <1>1, <1>2, <1>4, <2>2
    <3> QED
      BY <3>1
  <2> QED
    BY <1>4, <2>1, <2>2
<1>6. \A i \in 1..(n + 1) : t[i] < Window
  BY <1>1, <1>2, <1>4
<1>7. Young(t)
  BY <1>1, <1>2, <1>3, <1>5, <1>6 DEF Young, Sorted, Cut
<1> QED
  BY <1>2, <1>3, <1>7 DEF t

\* The clock keeps the order, and it makes no difference whether what has
\* expired before is cut off before or after it ticks.
LEMMA OlderSorted ==
    ASSUME NEW s, Sorted(s)
    PROVE  /\ Sorted(Older(s)) /\ Len(Older(s)) = Len(s) /\ (s # <<>> => Older(s) # <<>>)
           /\ \A i \in 1..Len(s) :
                 Older(s)[i] = IF s[i] < Window THEN s[i] + 1 ELSE Window
<1> DEFINE n == Len(s)
           t == Older(s)
           Next1(a) == IF a < Window THEN a + 1 ELSE Window
<1>1. s \in Seq(Ages) /\ n \in Nat /\ DOMAIN s = 1..n /\ Window \in Nat \ {0}
      /\ \A i \in 1..n : s[i] \in 0..Window
  BY RateLimitAssumption DEF Sorted, Ages
<1>2. t = [i \in 1..n |-> Next1(s[i])]
  BY <1>1 DEF Older
<1> HIDE DEF t
<1>3. \A a \in 0..Window : Next1(a) \in 0..Window
  BY <1>1
<1>4. \A a, b \in 0..Window : a >= b => Next1(a) >= Next1(b)
  BY <1>1
<1> HIDE DEF Next1
<1>5. t \in [1..n -> Ages]
  BY <1>1, <1>2, <1>3 DEF Ages
<1>6. t \in Seq(Ages) /\ Len(t) = n /\ DOMAIN t = 1..n
  BY <1>1, <1>5
<1>7. ASSUME NEW i \in 1..n, NEW j \in 1..n, i <= j PROVE t[i] >= t[j]
  <2>1. s[i] >= s[j]
    BY <1>1, <1>7 DEF Sorted
  <2> QED
    BY <1>1, <1>2, <1>4, <2>1
<1>8. Sorted(t)
  BY <1>6, <1>7 DEF Sorted
<1>9. s # <<>> => t # <<>>
  BY <1>1, <1>6
<1> QED
  BY <1>1, <1>2, <1>6, <1>8, <1>9 DEF t, Next1

LEMMA FreshOlder ==
    ASSUME NEW s, Sorted(s)
    PROVE  Fresh(Older(s)) = Fresh(Older(Fresh(s)))
<1> DEFINE n == Len(s)
           o == Older(s)
<1>1. PICK k : Cut(s, k)
  BY CutExists
<1> DEFINE f == Suffix(s, k)
           m == n - k
           g == Older(f)
<1>2. n \in Nat /\ k \in Nat /\ m \in Nat /\ n = m + k /\ s \in Seq(Ages)
  BY <1>1 DEF Cut, Sorted
<1>3. Fresh(s) = f /\ Young(f) /\ Len(f) = m
      /\ \A i \in 1..m : f[i] = s[i + k] /\ i + k \in 1..n
  BY <1>1, <1>2, FreshOfCut, SuffixYoung
<1>4. /\ Sorted(o) /\ Len(o) = n
      /\ \A i \in 1..n : o[i] = IF s[i] < Window THEN s[i] + 1 ELSE Window
  BY OlderSorted
<1>5. /\ Sorted(g) /\ Len(g) = m
      /\ \A i \in 1..m : g[i] = IF f[i] < Window THEN f[i] + 1 ELSE Window
  BY <1>3, OlderSorted DEF Young
<1> HIDE DEF f, o, g, m, n
<1>6. \A i \in 1..m : g[i] = o[i + k] /\ i + k \in 1..n
  BY <1>3, <1>4, <1>5
<1>7. PICK c : Cut(o, c)
  BY <1>4, CutExists
<1>8. c \in Nat /\ c <= n
  BY <1>2, <1>4, <1>7 DEF Cut
\* What had expired before has not become fresh.
<1>9. k <= c
  <2>1. SUFFICES ASSUME ~(k <= c) PROVE FALSE
    OBVIOUS
  <2>2. k \in 1..n /\ k \in 1..k /\ k \in (c + 1)..n
    BY <1>2, <1>8, <2>1
  <2>3. ~(s[k] < Window)
    BY <1>1, <2>2 DEF Cut
  <2>4. o[k] = Window
    BY <1>4, <2>2, <2>3
  <2>5. o[k] < Window
    BY <1>4, <1>7, <2>2 DEF Cut
  <2> QED
    BY <2>4, <2>5, RateLimitAssumption
<1> DEFINE d == c - k
<1>10. Cut(g, d)
  <2>1. d \in 0..m /\ d \in Nat /\ c = d + k
    BY <1>2, <1>8, <1>9
  <2> HIDE DEF d
  <2>2. ASSUME NEW i \in 1..d PROVE ~(g[i] < Window)
    <3>1. i \in 1..m /\ i + k \in 1..c
      BY <1>2, <1>8, <2>1
    <3> QED
      BY <1>6, <1>7, <3>1 DEF Cut
  <2>3. ASSUME NEW i \in (d + 1)..m PROVE g[i] < Window
    <3>1. i \in 1..m /\ i + k \in (c + 1)..n
      BY <1>2, <1>8, <2>1
    <3> QED
      BY <1>4, <1>6, <1>7, <3>1 DEF Cut
  <2> QED
    BY <1>5, <2>1, <2>2, <2>3 DEF Cut
<1>11. Fresh(o) = Suffix(o, c) /\ Fresh(g) = Suffix(g, d)
  BY <1>4, <1>5, <1>7, <1>10, FreshOfCut DEF Sorted
<1>12. Suffix(g, d) = [i \in 1..(m - d) |-> g[i + d]]
       /\ Suffix(o, c) = [i \in 1..(n - c) |-> o[i + c]]
  BY <1>4, <1>5 DEF Suffix
<1>13. m - d = n - c
  BY <1>2, <1>8
<1>14. ASSUME NEW i \in 1..(n - c) PROVE g[i + d] = o[i + c]
  <2>1. i + d \in 1..m /\ (i + d) + k = i + c
    BY <1>2, <1>8, <1>9
  <2> QED
    BY <1>6, <2>1
<1>15. Suffix(g, d) = Suffix(o, c)
  BY <1>12, <1>13, <1>14
<1> QED
  BY <1>3, <1>11, <1>15 DEF o, g

-----------------------------------------------------------------------------
(* The tables of either limiter, and the histories they agree with.        *)

Good(table) ==
    /\ DOMAIN table \subseteq Ips
    /\ \A ip \in DOMAIN table : Sorted(table[ip]) /\ table[ip] # <<>>

Same(table, other) == \A ip \in Ips : Times(table, ip) = Times(other, ip)

Counts(table, history) ==
    /\ Good(table) /\ DOMAIN history = Ips
    /\ \A ip \in Ips : history[ip] = Times(table, ip)

LEMMA TimesYoung ==
    ASSUME NEW table, Good(table), NEW ip \in Ips
    PROVE  Young(Times(table, ip)) /\ Len(Times(table, ip)) \in Nat
<1>1. Young(Times(table, ip))
  BY FreshYoung, EmptyYoung DEF Good, Times
<1>2. \A s : Young(s) => Len(s) \in Nat
  BY DEF Young, Sorted
<1> QED
  BY <1>1, <1>2

LEMMA DropGood ==
    ASSUME NEW table, Good(table), NEW ips
    PROVE  /\ Good(Drop(table, ips))
           /\ \A k \in Ips : Times(Drop(table, ips), k)
                               = IF k \in ips THEN <<>> ELSE Times(table, k)
BY DEF Good, Drop, Times

LEMMA PutGood ==
    ASSUME NEW table, Good(table), NEW ip \in Ips, NEW times, Young(times), times # <<>>
    PROVE  /\ Good(Put(table, ip, times))
           /\ \A k \in Ips : Times(Put(table, ip, times), k)
                               = IF k = ip THEN times ELSE Times(table, k)
<1> DEFINE new == Put(table, ip, times)
<1>1. /\ DOMAIN new = DOMAIN table \union {ip} /\ new[ip] = times
      /\ \A k \in DOMAIN table : k # ip => new[k] = table[k]
  BY DEF Put
<1> HIDE DEF new
<1>2. Fresh(times) = times /\ Sorted(times)
  BY FreshOfYoung DEF Young
<1>3. Good(new)
  BY <1>1, <1>2 DEF Good
<1>4. \A k \in Ips : Times(new, k) = IF k = ip THEN times ELSE Times(table, k)
  BY <1>1, <1>2 DEF Times
<1> QED
  BY <1>3, <1>4 DEF new

LEMMA PruneGood ==
    ASSUME NEW table, Good(table)
    PROVE  Good(Prune(table)) /\ Same(Prune(table), table)
<1> DEFINE gone == {ip \in DOMAIN table : Expired(table[ip])}
<1>1. \A ip \in gone : Times(table, ip) = <<>>
  BY ExpiredFresh DEF Good, Times
<1>2. Good(Drop(table, gone))
      /\ \A k \in Ips : Times(Drop(table, gone), k)
                          = IF k \in gone THEN <<>> ELSE Times(table, k)
  BY DropGood
<1> QED
  BY <1>1, <1>2 DEF Same, Prune

LEMMA LookedGood ==
    ASSUME Good(failures), NEW ip \in Ips
    PROVE  Good(Looked(ip)) /\ Same(Looked(ip), failures)
<1> DEFINE t == Times(failures, ip)
<1>1. CASE t = <<>>
  <2>1. Looked(ip) = Drop(failures, {ip})
    BY <1>1 DEF Looked
  <2>2. Good(Drop(failures, {ip}))
        /\ \A k \in Ips : Times(Drop(failures, {ip}), k)
                            = IF k \in {ip} THEN <<>> ELSE Times(failures, k)
    BY DropGood
  <2> QED
    BY <1>1, <2>1, <2>2 DEF Same
<1>2. CASE t # <<>>
  <2>1. Looked(ip) = Put(failures, ip, t)
    BY <1>2 DEF Looked
  <2>2. Young(t)
    BY TimesYoung
  <2> HIDE DEF t
  <2>3. Good(Put(failures, ip, t))
        /\ \A k \in Ips : Times(Put(failures, ip, t), k)
                            = IF k = ip THEN t ELSE Times(failures, k)
    BY <1>2, <2>2, PutGood
  <2> QED
    BY <2>1, <2>3 DEF Same, t
<1> QED
  BY <1>1, <1>2

LEMMA RoomGood ==
    ASSUME NEW table, Good(table)
    PROVE  Good(Room(table)) /\ Same(Room(table), table)
BY PruneGood DEF Room, Same

\* The clock leaves table and history in agreement.
LEMMA TickCounts ==
    ASSUME NEW table, NEW history, Counts(table, history),
           NEW older, older = [ip \in DOMAIN table |-> Older(table[ip])],
           NEW later, later = [ip \in Ips |-> Fresh(Older(history[ip]))]
    PROVE  /\ Counts(older, later)
           /\ \A ip \in Ips : Len(later[ip]) <= Len(history[ip])
<1>1. Good(table) /\ \A ip \in Ips : history[ip] = Times(table, ip)
  BY DEF Counts
<1>2. Good(older)
  BY <1>1, OlderSorted DEF Good
<1>3. ASSUME NEW ip \in Ips PROVE later[ip] = Times(older, ip)
  <2>1. later[ip] = Fresh(Older(Times(table, ip)))
    BY <1>1
  <2>2. CASE ip \in DOMAIN table
    <3>1. Times(table, ip) = Fresh(table[ip]) /\ Times(older, ip) = Fresh(Older(table[ip]))
      BY <2>2 DEF Times
    <3>2. Fresh(Older(table[ip])) = Fresh(Older(Fresh(table[ip])))
      BY <1>1, <2>2, FreshOlder DEF Good
    <3> QED
      BY <2>1, <3>1, <3>2
  <2>3. CASE ip \notin DOMAIN table
    <3>1. Times(table, ip) = <<>> /\ Times(older, ip) = <<>>
      BY <2>3 DEF Times
    <3>2. Older(<<>>) = <<>>
      BY DEF Older
    <3>3. Fresh(<<>>) = <<>>
      BY EmptyYoung, FreshOfYoung
    <3> QED
      BY <2>1, <3>1, <3>2, <3>3
  <2> QED
    BY <2>2, <2>3
<1>4. ASSUME NEW ip \in Ips PROVE Len(later[ip]) <= Len(history[ip])
  <2> DEFINE s == history[ip]
  <2>1. Young(s) /\ later[ip] = Fresh(Older(s))
    BY <1>1, TimesYoung
  <2> HIDE DEF s
  <2>2. Sorted(Older(s)) /\ Len(Older(s)) = Len(s)
    BY <2>1, OlderSorted DEF Young
  <2>3. Len(Fresh(Older(s))) <= Len(Older(s))
    BY <2>2, FreshYoung
  <2> QED
    BY <2>1, <2>2, <2>3 DEF s
<1> QED
  BY <1>2, <1>3, <1>4 DEF Counts

-----------------------------------------------------------------------------
(* The invariant.                                                          *)

TokenInv ==
    Counts(failures, rejected) /\ \A ip \in Ips : Len(rejected[ip]) <= MaxFailures

SignInInv ==
    /\ Counts(perIp, granted) /\ \A ip \in Ips : Len(granted[ip]) <= MaxPerIp
    /\ Sorted(global) /\ admitted = Fresh(global) /\ Len(admitted) <= MaxGlobal

RateInv == limiter \in {"token", "sign_in"} /\ TokenInv /\ SignInInv

LEMMA TokenStep == ASSUME TokenInv, Next PROVE TokenInv'
<1>1. /\ Good(failures) /\ DOMAIN rejected = Ips
      /\ \A ip \in Ips : /\ rejected[ip] = Times(failures, ip)
                         /\ Len(rejected[ip]) \in Nat /\ Len(rejected[ip]) <= MaxFailures
                         /\ Young(rejected[ip])
  BY TimesYoung DEF TokenInv, Counts
<1>2. MaxFailures \in Nat \ {0}
  BY RateLimitAssumption
<1>3. ASSUME NEW ip \in Ips, TooMany(ip) PROVE TokenInv'
  <2>1. failures' = Looked(ip) /\ rejected' = rejected
    BY <1>3 DEF TooMany
  <2> QED
    BY <1>1, <2>1, LookedGood DEF TokenInv, Counts, Same
<1>4. ASSUME NEW ip \in Ips, RightToken(ip) PROVE TokenInv'
  <2>1. failures' = Drop(failures, {ip}) /\ rejected' = [rejected EXCEPT ![ip] = <<>>]
    BY <1>4 DEF RightToken
  <2>2. Good(Drop(failures, {ip}))
        /\ \A k \in Ips : Times(Drop(failures, {ip}), k)
                            = IF k \in {ip} THEN <<>> ELSE Times(failures, k)
    BY <1>1, DropGood
  <2>3. /\ DOMAIN rejected' = Ips
        /\ \A k \in Ips : rejected'[k] = IF k = ip THEN <<>> ELSE rejected[k]
    BY <1>1, <2>1
  <2>4. Len(<<>>) <= MaxFailures
    BY <1>2
  <2> QED
    BY <1>1, <2>1, <2>2, <2>3, <2>4 DEF TokenInv, Counts
<1>5. ASSUME NEW ip \in Ips, WrongToken(ip) PROVE TokenInv'
  <2> DEFINE table == Looked(ip)
  <2>1. Good(table) /\ \A k \in Ips : Times(table, k) = rejected[k]
    BY <1>1, LookedGood DEF Same
  <2>2. ~(Len(rejected[ip]) >= MaxFailures)
    BY <1>1, <1>5 DEF WrongToken, Limited
  <2>3. PICK gone \in Victims(table) :
           /\ failures' = Put(Drop(Room(table), gone), ip,
                              Append(Times(Drop(Room(table), gone), ip), 0))
           /\ rejected' = [k \in Ips |->
                 LET since == IF k \in gone THEN <<>> ELSE rejected[k]
                 IN IF k = ip THEN Append(since, 0) ELSE since]
    BY <1>5 DEF WrongToken
  <2> HIDE DEF table
  <2> DEFINE room == Drop(Room(table), gone)
             since(k) == IF k \in gone THEN <<>> ELSE rejected[k]
             new == Append(Times(room, ip), 0)
  <2>4. Good(room) /\ \A k \in Ips : Times(room, k) = since(k)
    <3>1. Good(Room(table)) /\ \A k \in Ips : Times(Room(table), k) = rejected[k]
      BY <2>1, RoomGood DEF Same
    <3> QED
      BY <3>1, DropGood
  <2>5. \A k \in Ips : Young(since(k)) /\ Len(since(k)) \in Nat /\ Len(since(k)) <= Len(rejected[k])
    <3>1. Len(<<>>) = 0
      OBVIOUS
    <3> QED
      BY <1>1, <3>1, EmptyYoung
  <2>6. failures' = Put(room, ip, new)
        /\ rejected' = [k \in Ips |-> IF k = ip THEN Append(since(k), 0) ELSE since(k)]
    BY <2>3
  <2> HIDE DEF room, since
  <2>7. new = Append(since(ip), 0)
    BY <2>4
  <2>8. Young(new) /\ new # <<>> /\ Len(new) = Len(since(ip)) + 1
    BY <2>5, <2>7, AppendYoung
  <2> HIDE DEF new
  <2>9. /\ Good(failures')
        /\ \A k \in Ips : Times(failures', k) = IF k = ip THEN new ELSE Times(room, k)
    BY <2>4, <2>6, <2>8, PutGood
  <2>10. DOMAIN rejected' = Ips /\ \A k \in Ips : rejected'[k] = IF k = ip THEN new ELSE since(k)
    BY <2>6, <2>7
  <2>11. \A k \in Ips : Len(rejected'[k]) <= MaxFailures
    <3>1. ASSUME NEW k \in Ips PROVE Len(rejected'[k]) <= MaxFailures
      <4>1. CASE k = ip
        <5>1. Len(rejected'[k]) = Len(since(ip)) + 1 /\ Len(since(ip)) <= Len(rejected[ip])
              /\ Len(since(ip)) \in Nat /\ Len(rejected[ip]) \in Nat
          BY <1>1, <2>5, <2>8, <2>10, <4>1
        <5> QED
          BY <1>2, <2>2, <5>1
      <4>2. CASE k # ip
        <5>1. Len(rejected'[k]) = Len(since(k)) /\ Len(since(k)) <= Len(rejected[k])
              /\ Len(since(k)) \in Nat /\ Len(rejected[k]) \in Nat
              /\ Len(rejected[k]) <= MaxFailures
          BY <1>1, <2>5, <2>10, <4>2
        <5> QED
          BY <1>2, <5>1
      <4> QED
        BY <4>1, <4>2
    <3> QED
      BY <3>1
  <2> QED
    BY <2>4, <2>9, <2>10, <2>11 DEF TokenInv, Counts
<1>6. CASE Tick
  <2>1. /\ Counts(failures', rejected')
        /\ \A ip \in Ips : Len(rejected'[ip]) <= Len(rejected[ip])
    BY <1>6, TickCounts DEF Tick, TokenInv
  <2>2. ASSUME NEW ip \in Ips PROVE Len(rejected'[ip]) <= MaxFailures
    <3>1. rejected'[ip] = Times(failures', ip) /\ Good(failures')
      BY <2>1 DEF Counts
    <3>2. Len(rejected'[ip]) \in Nat
      BY <3>1, TimesYoung
    <3> QED
      BY <1>1, <1>2, <2>1, <3>2
  <2> QED
    BY <2>1, <2>2 DEF TokenInv
<1>7. ASSUME UNCHANGED <<failures, rejected>> PROVE TokenInv'
  BY <1>7 DEF TokenInv, Counts, Good, Times
<1> QED
  BY <1>3, <1>4, <1>5, <1>6, <1>7 DEF Next, TurnedAway, LetIn

LEMMA SignInStep == ASSUME SignInInv, Next PROVE SignInInv'
<1>1. /\ Good(perIp) /\ DOMAIN granted = Ips
      /\ \A ip \in Ips : /\ granted[ip] = Times(perIp, ip)
                         /\ Len(granted[ip]) \in Nat /\ Len(granted[ip]) <= MaxPerIp
                         /\ Young(granted[ip])
  BY TimesYoung DEF SignInInv, Counts
<1>2. /\ Sorted(global) /\ admitted = Fresh(global) /\ Young(admitted)
      /\ Len(admitted) \in Nat /\ Len(admitted) <= MaxGlobal
  <2>1. Young(Fresh(global)) /\ \A s : Young(s) => Len(s) \in Nat
    BY FreshYoung DEF SignInInv, Young, Sorted
  <2> QED
    BY <2>1 DEF SignInInv
<1>3. MaxPerIp \in Nat \ {0} /\ MaxGlobal \in Nat \ {0}
  BY RateLimitAssumption
<1>4. Good(Prune(perIp)) /\ \A k \in Ips : Times(Prune(perIp), k) = granted[k]
  BY <1>1, PruneGood DEF Same
<1>5. ASSUME NEW ip \in Ips, TurnedAway(ip) PROVE SignInInv'
  <2>1. global' = admitted /\ perIp' = Prune(perIp) /\ granted' = granted
        /\ admitted' = admitted
    BY <1>2, <1>5 DEF TurnedAway
  <2>2. Sorted(global') /\ admitted' = Fresh(global')
    BY <1>2, <2>1, FreshOfYoung DEF Young
  <2> QED
    BY <1>1, <1>2, <1>4, <2>1, <2>2 DEF SignInInv, Counts
<1>6. ASSUME NEW ip \in Ips, LetIn(ip) PROVE SignInInv'
  <2> DEFINE new == Append(granted[ip], 0)
             all == Append(admitted, 0)
  <2>1. ~(Len(admitted) >= MaxGlobal) /\ ~(Len(granted[ip]) >= MaxPerIp)
    BY <1>1, <1>2, <1>6 DEF LetIn, Full
  <2>2. /\ global' = all /\ admitted' = all
        /\ perIp' = Put(Prune(perIp), ip, new)
        /\ granted' = [granted EXCEPT ![ip] = new]
    BY <1>1, <1>2, <1>6 DEF LetIn
  <2>3. Young(new) /\ new # <<>> /\ Len(new) = Len(granted[ip]) + 1
    BY <1>1, AppendYoung
  <2>4. Young(all) /\ Len(all) = Len(admitted) + 1
    BY <1>2, AppendYoung
  <2> HIDE DEF new, all
  <2>5. /\ Good(perIp')
        /\ \A k \in Ips : Times(perIp', k) = IF k = ip THEN new ELSE granted[k]
    BY <1>4, <2>2, <2>3, PutGood
  <2>6. DOMAIN granted' = Ips /\ \A k \in Ips : granted'[k] = IF k = ip THEN new ELSE granted[k]
    BY <1>1, <2>2
  <2>7. Len(new) <= MaxPerIp /\ Len(all) <= MaxGlobal
    BY <1>1, <1>2, <1>3, <2>1, <2>3, <2>4
  <2>8. Sorted(global') /\ admitted' = Fresh(global') /\ Len(admitted') <= MaxGlobal
    BY <2>2, <2>4, <2>7, FreshOfYoung DEF Young
  <2>9. \A k \in Ips : Len(granted'[k]) <= MaxPerIp
    BY <1>1, <2>6, <2>7
  <2> QED
    BY <2>5, <2>6, <2>8, <2>9 DEF SignInInv, Counts
<1>7. CASE Tick
  <2>1. /\ Counts(perIp', granted')
        /\ \A ip \in Ips : Len(granted'[ip]) <= Len(granted[ip])
    BY <1>7, TickCounts DEF Tick, SignInInv
  <2>2. ASSUME NEW ip \in Ips PROVE Len(granted'[ip]) <= MaxPerIp
    <3>1. granted'[ip] = Times(perIp', ip) /\ Good(perIp')
      BY <2>1 DEF Counts
    <3>2. Len(granted'[ip]) \in Nat
      BY <3>1, TimesYoung
    <3> QED
      BY <1>1, <1>3, <2>1, <3>2
  <2>3. global' = Older(global) /\ admitted' = Fresh(Older(admitted))
    BY <1>7 DEF Tick
  <2>4. Sorted(global') /\ admitted' = Fresh(global')
    BY <1>2, <2>3, OlderSorted, FreshOlder
  <2>5. Len(admitted') <= MaxGlobal
    <3>1. Sorted(Older(admitted)) /\ Len(Older(admitted)) = Len(admitted)
      BY <1>2, OlderSorted DEF Young
    <3>2. Len(admitted') <= Len(admitted) /\ Young(admitted')
      BY <2>3, <3>1, FreshYoung
    <3>3. Len(admitted') \in Nat
      BY <3>2 DEF Young, Sorted
    <3> QED
      BY <1>2, <1>3, <3>2, <3>3
  <2> QED
    BY <2>1, <2>2, <2>4, <2>5 DEF SignInInv
<1>8. ASSUME UNCHANGED <<global, perIp, granted, admitted>> PROVE SignInInv'
  BY <1>8 DEF SignInInv, Counts, Good, Times
<1> QED
  BY <1>5, <1>6, <1>7, <1>8 DEF Next, TooMany, WrongToken, RightToken

LEMMA RateInit == Init => RateInv
<1> SUFFICES ASSUME Init PROVE RateInv
  OBVIOUS
<1>1. /\ failures = <<>> /\ perIp = <<>> /\ global = <<>> /\ admitted = <<>>
      /\ rejected = [ip \in Ips |-> <<>>] /\ granted = [ip \in Ips |-> <<>>]
      /\ limiter \in {"token", "sign_in"}
  BY DEF Init, NoTimes
<1>2. DOMAIN <<>> = {} /\ Len(<<>>) = 0
  OBVIOUS
<1>3. Good(<<>>) /\ \A ip : Times(<<>>, ip) = <<>>
  BY <1>2 DEF Good, Times
<1>4. Counts(failures, rejected) /\ Counts(perIp, granted)
  BY <1>1, <1>3 DEF Counts
<1>5. Fresh(<<>>) = <<>> /\ Sorted(<<>>)
  BY EmptyYoung, FreshOfYoung DEF Young
<1> QED
  BY <1>1, <1>2, <1>4, <1>5, RateLimitAssumption DEF RateInv, TokenInv, SignInInv

LEMMA RateStep == ASSUME RateInv, Next PROVE RateInv'
<1>1. limiter' = limiter
  BY DEF Next, TooMany, WrongToken, RightToken, TurnedAway, LetIn, Tick
<1> QED
  BY <1>1, TokenStep, SignInStep DEF RateInv

LEMMA RateInvariant == Spec => []RateInv
<1>1. RateInv /\ UNCHANGED vars => RateInv'
  BY DEF RateInv, TokenInv, SignInInv, Counts, Good, Times, vars
<1> QED
  BY <1>1, RateInit, RateStep, PTL DEF Spec

\* No list in the tables is empty, and every time in them is an age.
THEOREM RateTypes == Spec => []TypeOK
<1>1. RateInv => TypeOK
  BY DEF RateInv, TokenInv, SignInInv, Counts, Good, Sorted, TypeOK
<1> QED
  BY <1>1, RateInvariant, PTL

\* The number of wrong tokens of one address that are looked at within a
\* window is bounded.
THEOREM FailuresAreBounded == Spec => []FailuresBounded
<1>1. RateInv => FailuresBounded
  BY DEF RateInv, TokenInv, FailuresBounded
<1> QED
  BY <1>1, RateInvariant, PTL

\* What either limiter still remembers is exactly what happened within the
\* window, so nobody is limited for less.
THEOREM NoAlarmIsFalse == Spec => []NoFalseAlarm
<1>1. RateInv => NoFalseAlarm
  BY DEF RateInv, TokenInv, SignInInv, Counts, NoFalseAlarm, Limited, Full
<1> QED
  BY <1>1, RateInvariant, PTL

\* Both quotas hold in every window.
THEOREM QuotasAreKept == Spec => []QuotasKept
<1>1. RateInv => QuotasKept
  BY DEF RateInv, SignInInv, QuotasKept
<1> QED
  BY <1>1, RateInvariant, PTL
=============================================================================
