----------------------------- MODULE RankColumn -----------------------------
(***************************************************************************)
(* One Kanban column over a long life, one request at a time: cards are    *)
(* appended, moved in between two neighbours, moved out and reordered, and *)
(* when a rank grows past RankLenMax the column is re-spread.  The         *)
(* sequence `column` is the order its users intend; what the panel shows   *)
(* is the order of the ranks.                                              *)
(***************************************************************************)
EXTENDS KanbanRank

CONSTANTS
  MaxCards,      \* bound on the cards of the column
  MaxRankLen     \* bound on the length that creations reach

ASSUME ColumnAssumption == MaxCards \in Nat /\ MaxRankLen \in Nat

VARIABLES
  column,   \* ranks of the cards, in the intended order
  spread,   \* rebalance_ranks under way: the ranks it has produced
  gap       \* the move that waits for it: its place, and the card it moves

vars == <<column, spread, gap>>

NoGap == [card |-> 0, behind |-> 0, waiting |-> FALSE]

\* Types; a column that is not being re-spread has no ranks in reserve, and the
\* place of the waiting move exists.
TypeOK ==
  /\ column \in Seq(Rank)
  /\ spread \in Seq(Rank) /\ Len(spread) <= Len(column)
  /\ gap \in [card : Nat, behind : Nat, waiting : BOOLEAN]
  /\ gap.card <= Len(column) /\ gap.behind <= Len(column)
  /\ ~gap.waiting => spread = <<>> /\ gap = NoGap

Init == column = <<>> /\ spread = <<>> /\ gap = NoGap

-----------------------------------------------------------------------------
\* The neighbours that a client names for the gap behind card k of s.
Lower(s, k) == IF k = 0 THEN Open ELSE s[k]
Upper(s, k) == IF k = Len(s) THEN Open ELSE s[k + 1]

RankIn(s, k) == RankBetween(Lower(s, k), Upper(s, k))

\* s with r behind its k-th element, and s without its i-th element.
InsertBehind(s, k, r) ==
  [j \in 1..(Len(s) + 1) |-> IF j <= k THEN s[j] ELSE IF j = k + 1 THEN r ELSE s[j - 1]]

Without(s, i) == [j \in 1..(Len(s) - 1) |-> IF j < i THEN s[j] ELSE s[j + 1]]

\* s after its card i, or a card of another column (i = 0), went behind card k.
Moved(s, i, k) ==
  LET t == InsertBehind(s, k, RankIn(s, k))
  IN  IF i = 0 THEN t ELSE IF i <= k THEN Without(t, i) ELSE Without(t, i + 1)

-----------------------------------------------------------------------------
\* _insert_card: behind the greatest rank, however long the new one gets.
Create ==
  /\ ~gap.waiting /\ Len(column) < MaxCards
  /\ Len(RankIn(column, Len(column))) <= MaxRankLen
  /\ column' = Append(column, RankIn(column, Len(column)))
  /\ UNCHANGED <<spread, gap>>

\* A card is not its own neighbour.
Movable(i, k) ==
  /\ ~gap.waiting
  /\ i \in 0..Len(column) /\ k \in 0..Len(column)
  /\ i = 0 => Len(column) < MaxCards
  /\ i # 0 => k # i /\ k + 1 # i

\* _move: a rank between the neighbours, if it is short enough ...
Move(i, k) ==
  /\ Movable(i, k)
  /\ Len(RankIn(column, k)) <= RankLenMax
  /\ column' = Moved(column, i, k)
  /\ UNCHANGED <<spread, gap>>

\* ... else the column is rebalanced first, the card to move included ...
MoveMustWait(i, k) ==
  /\ Movable(i, k)
  /\ Len(RankIn(column, k)) > RankLenMax
  /\ gap' = [card |-> i, behind |-> k, waiting |-> TRUE]
  /\ UNCHANGED <<column, spread>>

\* Bug variant: every rank from the same anchor.
SpreadFromFirst ==
  /\ gap.waiting /\ Len(spread) < Len(column)
  /\ spread' = Append(spread, RankBetween(IF spread = <<>> THEN Open ELSE spread[1], Open))
  /\ UNCHANGED <<column, gap>>

\* ... (one turn of the loop of rebalance_ranks) ...
Spread ==
  /\ gap.waiting /\ Len(spread) < Len(column)
  /\ spread' = Append(spread, RankIn(spread, Len(spread)))
  /\ UNCHANGED <<column, gap>>

\* ... and rebalance_column hands the ranks out in order; the move is computed
\* again from them, without another look at its length.
MoveRebalanced ==
  /\ gap.waiting /\ Len(spread) = Len(column)
  /\ column' = Moved(spread, gap.card, gap.behind)
  /\ spread' = <<>>
  /\ gap' = NoGap

\* A card leaves the column: deleted, or moved to another one.
Leave(i) ==
  /\ ~gap.waiting
  /\ column' = Without(column, i)
  /\ UNCHANGED <<spread, gap>>

Next ==
  \/ Create \/ Spread \/ MoveRebalanced
  \/ \E i, k \in 0..Len(column) : Move(i, k) \/ MoveMustWait(i, k)
  \/ \E i \in DOMAIN column : Leave(i)

Spec == Init /\ [][Next]_vars

-----------------------------------------------------------------------------
(* Properties *)

Ascending(s) == \A i, j \in DOMAIN s : i < j => Less(s[i], s[j])

\* Whatever was created, moved, reordered, removed and re-spread before, the
\* order of the ranks is the order that the users intend, without ties
\* (rank_between is strictly between, rebalance_ranks ascending).
ShownAsIntended == Ascending(column)

=============================================================================
