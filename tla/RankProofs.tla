----------------------------- MODULE RankProofs -----------------------------
(***************************************************************************)
(* Proofs about fractional ranks, for any number of digits: rank_between   *)
(* is strictly between its bounds and returns a rank that can be a bound   *)
(* again; the order of strings is total.                                   *)
(***************************************************************************)
EXTENDS KanbanRank, NumberProofs, TLAPS

-----------------------------------------------------------------------------
(* Digits *)

\* Every position of a string has a digit.
LEMMA DigitType ==
  ASSUME NEW s \in Seq(Digits), NEW n \in Nat
  PROVE  Digit(s, n) \in Digits
BY RankAssumption DEF Digit, Digits

\* The string CutAt builds is a rank that keeps the digits below its last.
LEMMA CutIsRank ==
  ASSUME NEW lo \in Seq(Digits), NEW n \in Nat \ {0}, NEW d \in Digits, d # 0
  PROVE  /\ CutAt(lo, n, d) \in Rank
         /\ DOMAIN CutAt(lo, n, d) = 1..n
         /\ CutAt(lo, n, d)[n] = d
         /\ \A k \in 1..(n - 1) : CutAt(lo, n, d)[k] = Digit(lo, k)
<1> DEFINE r == CutAt(lo, n, d)
<1>1. \A k \in 1..n : (IF k = n THEN d ELSE Digit(lo, k)) \in Digits
  BY DigitType
<1>2. r \in [1..n -> Digits]
  BY <1>1 DEF CutAt
<1>3. r \in Seq(Digits) /\ Len(r) = n /\ DOMAIN r = 1..n
  BY <1>2
<1>4. r[n] = d /\ \A k \in 1..(n - 1) : r[k] = Digit(lo, k)
  BY DEF CutAt
<1> QED BY <1>3, <1>4 DEF Rank

\* A string cut at n with a digit above its own is greater.
LEMMA CutIsAbove ==
  ASSUME NEW lo \in Seq(Digits), NEW n \in Nat \ {0}, NEW d \in Digits,
         Digit(lo, n) < d
  PROVE  Less(lo, CutAt(lo, n, d))
<1> DEFINE r == CutAt(lo, n, d)
<1>0. Len(lo) \in Nat /\ DOMAIN lo = 1..Len(lo) /\ d # 0
  <2>1. Digit(lo, n) \in Digits
    BY DigitType
  <2>2. d # 0
    BY <2>1, RankAssumption DEF Digits
  <2> QED BY <2>2
<1>1. /\ DOMAIN r = 1..n /\ r[n] = d
      /\ \A k \in 1..(n - 1) : r[k] = Digit(lo, k)
  BY <1>0, CutIsRank
<1>2. CASE n \in DOMAIN lo
  <2>1. \A m \in 1..(n - 1) : m \in DOMAIN lo /\ lo[m] = r[m]
    BY <1>0, <1>1, <1>2 DEF Digit
  <2>2. lo[n] < r[n]
    BY <1>1, <1>2 DEF Digit
  <2> QED BY <1>1, <2>1, <2>2 DEF Less
<1>3. CASE n \notin DOMAIN lo
  <2>1. Len(lo) + 1 \in 1..n
    BY <1>0, <1>3
  <2>2. \A m \in 1..Len(lo) : m \in DOMAIN lo /\ lo[m] = r[m]
    BY <1>0, <1>1, <2>1, <1>3 DEF Digit
  <2>3. Len(lo) + 1 \notin DOMAIN lo
    BY <1>0
  <2> QED BY <1>0, <1>1, <2>1, <2>2, <2>3 DEF Less
<1> QED BY <1>2, <1>3

-----------------------------------------------------------------------------
(* rank_between *)

\* From any position on, some digit has room above: at the latest the one behind
\* the end of the string.  RoomFrom is the first.
LEMMA RoomExists ==
  ASSUME NEW lo \in Seq(Digits), NEW n \in Nat \ {0}
  PROVE  /\ RoomFrom(lo, n) \in Nat /\ RoomFrom(lo, n) >= n
         /\ Digit(lo, RoomFrom(lo, n)) # Base - 1
<1> DEFINE T == {m \in n..(n + Len(lo)) : Digit(lo, m) # Base - 1}
<1>1. Len(lo) \in Nat /\ DOMAIN lo = 1..Len(lo)
  OBVIOUS
<1>2. n + Len(lo) \in T
  <2>1. Digit(lo, n + Len(lo)) = 0
    BY <1>1 DEF Digit
  <2> QED BY <1>1, <2>1, RankAssumption
<1>3. T \in SUBSET Nat
  BY <1>1
<1>4. PICK m \in T : \A k \in T : m <= k
  BY <1>2, <1>3, LeastNumber
<1>5. ASSUME NEW k \in n..(m - 1)
      PROVE  Digit(lo, k) = Base - 1
  <2>1. k \in n..(n + Len(lo)) /\ ~(m <= k)
    BY <1>1, <1>3, <1>4
  <2> QED BY <1>4, <2>1
<1>6. \E q \in n..(n + Len(lo)) :
        Digit(lo, q) # Base - 1 /\ \A k \in n..(q - 1) : Digit(lo, k) = Base - 1
  BY <1>4, <1>5
<1>7. /\ RoomFrom(lo, n) \in n..(n + Len(lo))
      /\ Digit(lo, RoomFrom(lo, n)) # Base - 1
  BY <1>6 DEF RoomFrom
<1> QED BY <1>1, <1>7

\* Descending without an upper bound gives a greater rank with the same digits
\* below the position where it starts.
LEMMA PlacedAbove ==
  ASSUME NEW lo \in Seq(Digits), NEW n \in Nat \ {0}
  PROVE  /\ PlaceAbove(lo, n) \in Rank
         /\ Less(lo, PlaceAbove(lo, n))
         /\ n \in DOMAIN PlaceAbove(lo, n)
         /\ \A k \in 1..(n - 1) : PlaceAbove(lo, n)[k] = Digit(lo, k)
<1> DEFINE m == RoomFrom(lo, n)
           d == (Digit(lo, m) + Base) \div 2
<1>1. m \in Nat \ {0} /\ m >= n /\ Digit(lo, m) # Base - 1
  BY RoomExists
<1>2. Digit(lo, m) \in Digits
  BY <1>1, DigitType
<1>3. d \in Digits /\ d # 0 /\ Digit(lo, m) < d
  BY <1>1, <1>2, RankAssumption DEF Digits
<1>4. PlaceAbove(lo, n) = CutAt(lo, m, d)
  BY DEF PlaceAbove
<1> HIDE DEF m, d
<1>5. /\ CutAt(lo, m, d) \in Rank
      /\ DOMAIN CutAt(lo, m, d) = 1..m
      /\ \A k \in 1..(m - 1) : CutAt(lo, m, d)[k] = Digit(lo, k)
  BY <1>1, <1>3, CutIsRank
<1>6. Less(lo, CutAt(lo, m, d))
  BY <1>1, <1>3, CutIsAbove
<1> QED BY <1>1, <1>4, <1>5, <1>6

\* A string below a rank differs from it at a position of the rank, and at the
\* first such position its digit is the lower one.
LEMMA ForkIsBelow ==
  ASSUME NEW lo \in Seq(Digits), NEW hi \in Rank, Less(lo, hi)
  PROVE  /\ Fork(lo, hi) \in DOMAIN hi
         /\ Digit(lo, Fork(lo, hi)) < Digit(hi, Fork(lo, hi))
         /\ \A k \in 1..(Fork(lo, hi) - 1) : Digit(lo, k) = Digit(hi, k)
<1>1. hi \in Seq(Digits) /\ Len(hi) \in Nat \ {0} /\ DOMAIN hi = 1..Len(hi) /\ hi[Len(hi)] # 0
  BY DEF Rank
<1>2. Len(lo) \in Nat /\ DOMAIN lo = 1..Len(lo)
  OBVIOUS
<1>3. PICK n \in DOMAIN hi : /\ \A m \in 1..(n - 1) : m \in DOMAIN lo /\ lo[m] = hi[m]
                             /\ n \in DOMAIN lo => lo[n] < hi[n]
  BY DEF Less
<1>4. \A k \in DOMAIN lo : Digit(lo, k) = lo[k]
  BY DEF Digit
<1>5. \A k \in DOMAIN hi : Digit(hi, k) = hi[k] /\ hi[k] \in Digits
  BY <1>1 DEF Digit
<1> DEFINE T == {m \in DOMAIN hi : Digit(lo, m) # Digit(hi, m)}
<1>6. T # {}
  <2>1. CASE n \in DOMAIN lo
    <3>1. lo[n] \in Digits /\ hi[n] \in Digits /\ lo[n] < hi[n]
      BY <2>1, <1>3, <1>5
    <3>2. Digit(lo, n) # Digit(hi, n)
      BY <2>1, <3>1, <1>4, <1>5, <1>3, RankAssumption DEF Digits
    <3> QED BY <3>2, <1>3
  <2>2. CASE n \notin DOMAIN lo
    <3>1. Len(hi) \in DOMAIN hi /\ Len(hi) \notin DOMAIN lo
      BY <2>2, <1>1, <1>2, <1>3
    <3>2. Digit(lo, Len(hi)) = 0 /\ Digit(hi, Len(hi)) # 0
      BY <3>1, <1>1 DEF Digit
    <3> QED BY <3>1, <3>2
  <2> QED BY <2>1, <2>2
<1>7. PICK f \in T : \A k \in T : f <= k
  <2>1. T \in SUBSET Nat
    BY <1>1
  <2> QED BY <2>1, <1>6, LeastNumber
<1>8. \A k \in 1..(f - 1) : Digit(lo, k) = Digit(hi, k)
  <2>1. ASSUME NEW k \in 1..(f - 1)
        PROVE  Digit(lo, k) = Digit(hi, k)
    <3>1. k \in DOMAIN hi /\ ~(f <= k)
      BY <1>1, <1>7
    <3> QED BY <3>1, <1>7
  <2> QED BY <2>1
<1>9. /\ Fork(lo, hi) \in DOMAIN hi
      /\ Digit(lo, Fork(lo, hi)) # Digit(hi, Fork(lo, hi))
      /\ \A k \in 1..(Fork(lo, hi) - 1) : Digit(lo, k) = Digit(hi, k)
  <2>1. \E g \in DOMAIN hi :
          Digit(lo, g) # Digit(hi, g) /\ \A k \in 1..(g - 1) : Digit(lo, k) = Digit(hi, k)
    BY <1>7, <1>8
  <2> QED BY <2>1 DEF Fork
<1> DEFINE g == Fork(lo, hi)
<1>10. Digit(lo, g) < Digit(hi, g)
  <2> HIDE DEF g
  <2>0. g \in 1..Len(hi) /\ n \in 1..Len(hi)
    BY <1>1, <1>3, <1>9 DEF g
  <2>1. Digit(lo, g) \in Digits /\ Digit(hi, g) \in Digits
    BY <1>1, <2>0, DigitType
  <2>2. CASE g < n
    <3>1. g \in 1..(n - 1)
      BY <2>0, <2>2
    <3>2. g \in DOMAIN lo /\ lo[g] = hi[g]
      BY <1>3, <3>1
    <3>3. Digit(lo, g) = Digit(hi, g)
      BY <3>2, <1>1, <1>4, <1>5, <2>0
    <3> QED BY <3>3, <1>9 DEF g
  <2>3. CASE g = n /\ n \in DOMAIN lo
    BY <2>3, <1>3, <1>4, <1>5
  <2>4. CASE g >= n /\ g \notin DOMAIN lo
    <3>1. Digit(lo, g) = 0
      BY <2>4 DEF Digit
    <3> QED BY <3>1, <2>1, <1>9, RankAssumption DEF Digits, g
  <2>5. CASE g > n /\ g \in DOMAIN lo
    <3>1. n \in DOMAIN lo /\ n \in 1..(g - 1)
      BY <2>0, <2>5, <1>2
    <3>2. Digit(lo, n) = Digit(hi, n)
      BY <3>1, <1>9 DEF g
    <3>3. lo[n] < hi[n] /\ lo[n] \in Digits /\ hi[n] \in Digits
      BY <3>1, <1>3, <1>5
    <3> QED BY <3>1, <3>2, <3>3, <1>3, <1>4, <1>5, RankAssumption DEF Digits
  <2> QED BY <2>0, <2>2, <2>3, <2>4, <2>5
<1> QED BY <1>9, <1>10

\* rank_between returns a rank strictly between its bounds, that can itself be a
\* bound: there is always room for another card.
THEOREM RankBetweenIsBetween ==
  ASSUME NEW lo \in Rank \cup {Open}, NEW hi \in Rank \cup {Open},
         hi # Open => Less(lo, hi)
  PROVE  /\ RankBetween(lo, hi) \in Rank
         /\ Less(lo, RankBetween(lo, hi))
         /\ hi # Open => Less(RankBetween(lo, hi), hi)
<1>0. lo \in Seq(Digits)
  <2>1. CASE lo \in Rank
    BY <2>1 DEF Rank
  <2>2. CASE lo = Open
    <3>1. <<>> \in Seq(Digits)
      OBVIOUS
    <3> QED BY <3>1, <2>2 DEF Open
  <2> QED BY <2>1, <2>2
<1>1. CASE hi = Open
  BY <1>0, <1>1, PlacedAbove DEF RankBetween
<1>2. CASE hi # Open
  <2>0. hi \in Rank /\ Less(lo, hi) /\ hi \in Seq(Digits) /\ DOMAIN hi \subseteq Nat \ {0}
    BY <1>2 DEF Rank, Open
  <2> DEFINE n == Fork(lo, hi)
             mid == (Digit(lo, n) + Digit(hi, n)) \div 2
  <2>1. /\ n \in DOMAIN hi /\ n \in Nat \ {0}
        /\ Digit(lo, n) < Digit(hi, n)
        /\ \A k \in 1..(n - 1) : Digit(lo, k) = Digit(hi, k)
    BY <1>0, <2>0, ForkIsBelow
  <2>2. Digit(lo, n) \in Digits /\ Digit(hi, n) \in Digits /\ Digit(hi, n) = hi[n]
    BY <1>0, <2>0, <2>1, DigitType DEF Digit
  <2>3. \A k \in 1..(n - 1) : k \in DOMAIN hi /\ Digit(hi, k) = hi[k]
    BY <2>0, <2>1 DEF Digit
  <2>4. RankBetween(lo, hi) = IF mid # Digit(lo, n) THEN CutAt(lo, n, mid)
                              ELSE PlaceAbove(lo, n + 1)
    BY <1>2 DEF RankBetween
  <2>5. mid \in Digits /\ mid >= Digit(lo, n) /\ mid < Digit(hi, n)
    BY <2>1, <2>2, RankAssumption DEF Digits
  <2> HIDE DEF mid, n
  <2>6. CASE mid # Digit(lo, n)
    <3>1. mid # 0 /\ Digit(lo, n) < mid
      BY <2>2, <2>5, <2>6, RankAssumption DEF Digits
    <3>2. /\ CutAt(lo, n, mid) \in Rank
          /\ DOMAIN CutAt(lo, n, mid) = 1..n
          /\ CutAt(lo, n, mid)[n] = mid
          /\ \A k \in 1..(n - 1) : CutAt(lo, n, mid)[k] = Digit(lo, k)
      BY <1>0, <2>1, <2>5, <3>1, CutIsRank
    <3>3. Less(lo, CutAt(lo, n, mid))
      BY <1>0, <2>1, <2>5, <3>1, CutIsAbove
    <3>4. Less(CutAt(lo, n, mid), hi)
      <4>1. \A m \in 1..(n - 1) : m \in 1..n /\ CutAt(lo, n, mid)[m] = hi[m]
        BY <2>1, <2>3, <3>2
      <4> QED BY <4>1, <3>2, <2>1, <2>2, <2>5 DEF Less
    <3> QED BY <2>4, <2>6, <3>2, <3>3, <3>4
  <2>7. CASE mid = Digit(lo, n)
    <3> DEFINE r == PlaceAbove(lo, n + 1)
    <3>0. n + 1 \in Nat \ {0}
      BY <2>1
    <3>1. /\ r \in Rank /\ Less(lo, r)
          /\ n + 1 \in DOMAIN r
          /\ \A k \in 1..((n + 1) - 1) : r[k] = Digit(lo, k)
      BY <1>0, <3>0, PlacedAbove
    <3> HIDE DEF r
    <3>2. \A k \in 1..n : k \in DOMAIN r /\ r[k] = Digit(lo, k)
      <4>1. DOMAIN r = 1..Len(r) /\ Len(r) \in Nat
        BY <3>1 DEF Rank
      <4> QED BY <2>1, <3>1, <4>1
    <3>3. Less(r, hi)
      <4>1. \A m \in 1..(n - 1) : m \in DOMAIN r /\ r[m] = hi[m]
        BY <2>1, <2>3, <3>2
      <4>2. r[n] < hi[n]
        BY <2>1, <2>2, <3>2
      <4> QED BY <4>1, <4>2, <2>1 DEF Less
    <3> QED BY <2>4, <2>7, <3>1, <3>3 DEF r
  <2> QED BY <2>6, <2>7
<1> QED BY <1>1, <1>2

-----------------------------------------------------------------------------
(* The order of strings *)

\* The strings of the rank column: those of digits, and the temporary ones, whose first
\* character is above every digit.
String == Seq(Nat)

LEMMA RankIsString == Digits \subseteq Nat /\ Rank \subseteq String /\ Open \in String
<1>1. Digits \subseteq Nat BY RankAssumption DEF Digits
<1>2. Rank \subseteq String
  <2> SUFFICES ASSUME NEW s \in Rank PROVE s \in Seq(Nat) BY DEF String
  <2>1. s \in Seq(Digits) BY DEF Rank
  <2>2. s \in [1..Len(s) -> Digits] /\ Len(s) \in Nat BY <2>1
  <2>3. s \in [1..Len(s) -> Nat] BY <1>1, <2>2
  <2> QED BY <2>2, <2>3
<1>3. Open \in String BY DEF Open, String
<1> QED BY <1>1, <1>2, <1>3

LEMMA StringShape ==
  ASSUME NEW s \in String
  PROVE  Len(s) \in Nat /\ DOMAIN s = 1..Len(s) /\ \A n \in DOMAIN s : s[n] \in Nat
BY DEF String

LEMMA LessIrreflexive == ASSUME NEW a \in String PROVE ~Less(a, a)
<1>1. \A n \in DOMAIN a : a[n] \in Nat BY StringShape
<1> QED BY <1>1 DEF Less

\* The order of strings is transitive ...
LEMMA LessTransitive ==
  ASSUME NEW a \in String, NEW b \in String, NEW c \in String, Less(a, b), Less(b, c)
  PROVE  Less(a, c)
<1>1. /\ DOMAIN a = 1..Len(a) /\ DOMAIN b = 1..Len(b) /\ DOMAIN c = 1..Len(c)
      /\ Len(a) \in Nat /\ Len(b) \in Nat /\ Len(c) \in Nat
  BY StringShape
<1>2. PICK n \in DOMAIN b : /\ \A m \in 1..(n - 1) : m \in DOMAIN a /\ a[m] = b[m]
                            /\ n \in DOMAIN a => a[n] < b[n]
  BY DEF Less
<1>3. PICK k \in DOMAIN c : /\ \A m \in 1..(k - 1) : m \in DOMAIN b /\ b[m] = c[m]
                            /\ k \in DOMAIN b => b[k] < c[k]
  BY DEF Less
<1>4. /\ \A m \in DOMAIN a : a[m] \in Int
      /\ \A m \in DOMAIN b : b[m] \in Int
      /\ \A m \in DOMAIN c : c[m] \in Int
  BY StringShape
<1>5. n \in Nat /\ k \in Nat
  BY <1>1
<1>6. CASE n <= k
  <2>1. n \in DOMAIN c
    BY <1>1, <1>3, <1>5, <1>6
  <2>2. \A m \in 1..(n - 1) : m \in DOMAIN a /\ a[m] = c[m]
    BY <1>2, <1>3, <1>5, <1>6
  <2>3. n \in DOMAIN a => a[n] < c[n]
    <3>1. CASE n = k
      BY <3>1, <1>2, <1>3, <1>4, <2>1
    <3>2. CASE n < k
      <4>1. b[n] = c[n]
        BY <3>2, <1>1, <1>3, <1>5
      <4> QED BY <4>1, <1>2
    <3> QED BY <3>1, <3>2, <1>5, <1>6
  <2> QED BY <2>1, <2>2, <2>3 DEF Less
<1>7. CASE k < n
  <2>1. \A m \in 1..(k - 1) : m \in DOMAIN a /\ a[m] = c[m]
    BY <1>2, <1>3, <1>5, <1>7
  <2>2. k \in DOMAIN b /\ k \in DOMAIN a /\ a[k] = b[k]
    BY <1>1, <1>2, <1>3, <1>5, <1>7
  <2>3. a[k] < c[k]
    BY <2>2, <1>3
  <2> QED BY <2>1, <2>3 DEF Less
<1> QED BY <1>5, <1>6, <1>7

\* ... and total: two strings differ at a first position, at which one of them has ended
\* or the digits differ.
LEMMA LessTotal ==
  ASSUME NEW a \in String, NEW b \in String, a # b
  PROVE  Less(a, b) \/ Less(b, a)
<1>1. /\ Len(a) \in Nat /\ DOMAIN a = 1..Len(a) /\ \A n \in DOMAIN a : a[n] \in Nat
      /\ Len(b) \in Nat /\ DOMAIN b = 1..Len(b) /\ \A n \in DOMAIN b : b[n] \in Nat
  BY StringShape
<1> DEFINE same(n) == n \in DOMAIN a /\ n \in DOMAIN b /\ a[n] = b[n]
           T == {n \in Nat \ {0} : ~same(n)}
<1>2. T \subseteq Nat /\ Len(a) + 1 \in T BY <1>1
<1>3. PICK n \in T : \A k \in T : n <= k BY <1>2, LeastNumber
<1>4. n \in Nat \ {0} /\ ~same(n) /\ \A k \in 1..(n - 1) : same(k)
  <2>1. n \in Nat \ {0} /\ ~same(n) BY <1>3
  <2>2. ASSUME NEW k \in 1..(n - 1) PROVE same(k)
    <3>1. k \in Nat \ {0} /\ ~(n <= k) BY <2>1
    <3>2. k \notin T BY <3>1, <1>3
    <3> QED BY <3>1, <3>2
  <2> QED BY <2>1, <2>2
<1> HIDE DEF T
<1>5. CASE n \in DOMAIN a /\ n \in DOMAIN b
  <2>1. a[n] < b[n] \/ b[n] < a[n] BY <1>1, <1>4, <1>5
  <2> QED BY <1>4, <1>5, <2>1 DEF Less
<1>6. CASE n \in DOMAIN a /\ n \notin DOMAIN b BY <1>4, <1>6 DEF Less
<1>7. CASE n \notin DOMAIN a /\ n \in DOMAIN b BY <1>4, <1>7 DEF Less
<1>8. CASE n \notin DOMAIN a /\ n \notin DOMAIN b
  <2>1. \A k \in 1..(n - 1) : k \in DOMAIN a /\ k \in DOMAIN b /\ a[k] = b[k] BY <1>4
  <2>2. Len(a) = n - 1
    <3>1. Len(a) < n BY <1>1, <1>4, <1>8
    <3>2. n - 1 = 0 \/ n - 1 \in DOMAIN a BY <1>4, <2>1
    <3> QED BY <3>1, <3>2, <1>1, <1>4
  <2>3. Len(b) = n - 1
    <3>1. Len(b) < n BY <1>1, <1>4, <1>8
    <3>2. n - 1 = 0 \/ n - 1 \in DOMAIN b BY <1>4, <2>1
    <3> QED BY <3>1, <3>2, <1>1, <1>4
  <2>4. \A k \in 1..Len(a) : a[k] = b[k] BY <2>1, <2>2
  <2>5. a = b BY <2>2, <2>3, <2>4 DEF String
  <2> QED BY <2>5
<1> QED BY <1>5, <1>6, <1>7, <1>8

\* Nothing is below Open, and every other string is above.
LEMMA OpenIsLowest ==
  ASSUME NEW a \in String, a # Open PROVE Less(Open, a)
<1>1. Len(a) \in Nat /\ DOMAIN a = 1..Len(a) BY StringShape
<1>2. Len(a) # 0 BY DEF Open, String
<1>3. 1 \in DOMAIN a /\ DOMAIN Open = {} /\ 1..(1 - 1) = {} BY <1>1, <1>2 DEF Open
<1> QED BY <1>3 DEF Less

=============================================================================
