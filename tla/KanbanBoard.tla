----------------------------- MODULE KanbanBoard -----------------------------
(***************************************************************************)
(* What a Kanban board promises: columns are sequences of cards, a card is *)
(* put in one place at a time and nothing else moves, limits hold, a card  *)
(* is finished after what it waits for, and waiting is never circular.     *)
(***************************************************************************)
EXTENDS Naturals, Sequences, SequencesExt, FiniteSets

CONSTANTS Ids, Columns, Wip, DoneColumns, Entry

VARIABLES
  order,   \* the cards of each column, from top to bottom
  deps     \* pairs of a card and a card that it waits for

boardVars == <<order, deps>>

\* s, in which no card is twice, without card c.
Without(s, c) ==
  IF c \in ToSet(s) THEN RemoveAt(s, CHOOSE i \in DOMAIN s : s[i] = c) ELSE s

Cards(k) == ToSet(order[k])
Done == UNION {Cards(k) : k \in DoneColumns}
OnBoard == UNION {Cards(k) : k \in Columns}

\* Some card waits, directly or not, for itself.
Circular(E) ==
  \E S \in (SUBSET Ids) \ {{}} : \A c \in S : \E d \in S : <<c, d>> \in E

Init ==
  /\ order \in [Columns -> Seq(Ids)]
  /\ deps = {}

\* A new card is the last of its column.
Add(c, k) ==
  /\ k \in Entry /\ c \notin OnBoard
  /\ order' = [order EXCEPT ![k] = Append(@, c)]
  /\ UNCHANGED deps

\* Card c goes to place i of column k.
Put(c, k, i) ==
  /\ c \notin Cards(k) /\ Wip[k] # 0 => Len(order[k]) < Wip[k]
  /\ k \in DoneColumns => \A d \in Ids : <<c, d>> \in deps => d \in Done
  /\ order' = [j \in Columns |-> IF j = k THEN InsertAt(Without(order[j], c), i, c)
                                 ELSE Without(order[j], c)]
  /\ UNCHANGED deps

Drop(c) ==
  /\ \A d \in Ids : {<<c, d>>, <<d, c>>} \cap deps = {}
  /\ order' = [k \in Columns |-> Without(order[k], c)]
  /\ UNCHANGED deps

Link(c, d) ==
  /\ {c, d} \subseteq OnBoard
  /\ deps' = deps \cup {<<c, d>>}
  /\ ~Circular(deps')
  /\ UNCHANGED order

Unlink(c, d) ==
  /\ deps' = deps \ {<<c, d>>}
  /\ UNCHANGED order

Next ==
  \/ \E c \in OnBoard, k \in Columns : \E i \in 1..(Len(Without(order[k], c)) + 1) : Put(c, k, i)
  \/ \E c \in Ids, k \in Columns : Add(c, k)
  \/ \E c \in OnBoard : Drop(c)
  \/ \E c, d \in Ids : Link(c, d) \/ Unlink(c, d)

Spec == Init /\ [][Next]_boardVars

=============================================================================
