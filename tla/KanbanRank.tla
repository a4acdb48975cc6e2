----------------------------- MODULE KanbanRank -----------------------------
(***************************************************************************)
(* Fractional ranks (hub/app/services/kanban_rank.py): the position of a   *)
(* card in its column is a string, and a card is placed by computing a     *)
(* string between those of its neighbours.  A string is the sequence of    *)
(* the indexes of its characters in ALPHABET, whose order is that of the   *)
(* characters; the loop of rank_between is the position it returns from.   *)
(***************************************************************************)
EXTENDS Naturals, Sequences

CONSTANTS
  Base,          \* number of digits (62)
  RankLenMax     \* a longer rank makes the service rebalance the column (48)

ASSUME RankAssumption ==
  /\ Base \in Nat /\ Base >= 2
  /\ RankLenMax \in Nat /\ RankLenMax >= 1

Digits == 0 .. (Base - 1)

\* No bound: None and "" on either side of rank_between.
Open == <<>>

\* Strings that rank_between returns: not empty, not ending in the lowest digit.
Rank == {s \in Seq(Digits) : s # <<>> /\ s[Len(s)] # 0}

\* The code of position n; a string that has ended reads as the lowest digit.
Digit(s, n) == IF n \in DOMAIN s THEN s[n] ELSE 0

\* String order, the order of the rank column of the database.
Less(a, b) ==
  \E n \in DOMAIN b :
    /\ \A m \in 1..(n - 1) : m \in DOMAIN a /\ a[m] = b[m]
    /\ n \in DOMAIN a => a[n] < b[n]

\* lo's digits up to position n, with d in position n.
CutAt(lo, n, d) == [k \in 1..n |-> IF k = n THEN d ELSE Digit(lo, k)]

\* From position n on without an upper bound: the first digit with room above.
RoomFrom(lo, n) ==
  CHOOSE m \in n..(n + Len(lo)) :
    Digit(lo, m) # Base - 1 /\ \A k \in n..(m - 1) : Digit(lo, k) = Base - 1

PlaceAbove(lo, n) ==
  LET m == RoomFrom(lo, n) IN CutAt(lo, m, (Digit(lo, m) + Base) \div 2)

\* The first position at which lo and hi differ.
Fork(lo, hi) ==
  CHOOSE n \in DOMAIN hi :
    Digit(lo, n) # Digit(hi, n) /\ \A k \in 1..(n - 1) : Digit(lo, k) = Digit(hi, k)

\* Bug variant: stays on the digit of lo, so the rank may end in the lowest one.
RankBetweenLow(lo, hi) ==
  IF hi = Open THEN PlaceAbove(lo, 1)
  ELSE LET n == Fork(lo, hi)
       IN  CutAt(lo, n + 1, (Digit(lo, n + 1) + Digit(hi, n + 1)) \div 2)

\* rank_between: the middle of the first pair of digits that differ or, when
\* they are adjacent, lo's digit and then a place above the rest of lo.
RankBetween(lo, hi) ==
  IF hi = Open THEN PlaceAbove(lo, 1)
  ELSE LET n   == Fork(lo, hi)
           mid == (Digit(lo, n) + Digit(hi, n)) \div 2
       IN  IF mid # Digit(lo, n) THEN CutAt(lo, n, mid) ELSE PlaceAbove(lo, n + 1)

=============================================================================
