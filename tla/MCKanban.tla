------------------------------ MODULE MCKanban ------------------------------
(* Small boards for TLC.  A third column, if any, is a done one. *)
EXTENDS Kanban

CONSTANTS todo, doing, done, r1, r2

NoLimit == [k \in Columns |-> 0]
DoingOne == [k \in Columns |-> IF k = doing THEN 1 ELSE 0]

Board == INSTANCE KanbanBoard WITH order <- [k \in Columns |-> Order(k)]

\* With one request at a time the program keeps the promises of KanbanBoard: a
\* rebalance is invisible, a move displaces one card, limits and gates hold.
ImplementsBoard == Board!Spec

=============================================================================
