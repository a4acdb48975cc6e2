--------------------------- MODULE KanbanColumns ---------------------------
(* The columns of one board, from its creation to its deletion, under        *)
(* concurrent requests (services/kanban_service.py).  A request reads in one *)
(* await and writes in another; SQLite checks the foreign keys at the write. *)
(* Cards stand in a column; their order is in Kanban.                        *)
EXTENDS Naturals, Sequences, FiniteSets, FiniteSetsExt

CONSTANTS DefaultColumns, \* is_landing of each column a new board is seeded with
          Clients,        \* requests the hub serves at a time
          Slips,          \* cards, those to come included
          MaxColumns, MaxAsked \* bounds of the exploration
ASSUME ColumnsAssumption ==
  /\ DefaultColumns \in Seq(BOOLEAN) /\ {MaxColumns, MaxAsked} \subseteq Nat
  /\ Cardinality({i \in DOMAIN DefaultColumns : DefaultColumns[i]}) = 1

VARIABLES board,    \* absent, bare (committed without columns), ready, gone
          columns,  \* its columns by id: place in the order, and is_landing
          slips,    \* column of each card, or Nowhere
          serving,  \* the requests
          clashed,  \* history: a choice of the landing column overlapped another
                    \* one or the deletion of a column, or the seeding either
          torn,     \* history: the hub stopped within such a choice, or the seeding
          remarked, \* history: the landing column was chosen again
          tied,     \* history: two creations of columns overlapped
          asked
columnVars == <<board, columns, slips, serving, clashed, torn, remarked, tied, asked>>

Nowhere == 0
Quiet == [at |-> "quiet"]
Landings == {k \in DOMAIN columns : columns[k].landing}
InUse(k) == \E c \in Slips : slips[c] = k
Stands(k) == k \in DOMAIN columns
AnyAt(stages) == \E r \in Clients : serving[r].at \in stages

\* Bug variant: places are counted.
NextPlaceCounted == 1 + Cardinality(DOMAIN columns)

\* create_column: behind the last one.
NextPlace == 1 + Max({0} \cup {columns[k].place : k \in DOMAIN columns})

ColumnsInit ==
  /\ board = "absent" /\ columns = <<>> /\ slips = [c \in Slips |-> Nowhere]
  /\ serving = [r \in Clients |-> Quiet]
  /\ clashed = FALSE /\ torn = FALSE /\ remarked = FALSE /\ tied = FALSE /\ asked = 0

Asks(r, request) ==
  /\ serving[r] = Quiet /\ asked < MaxAsked /\ asked' = asked + 1
  /\ serving' = [serving EXCEPT ![r] = request]
Proceeds(r, stage) == serving' = [serving EXCEPT ![r].at = stage]
Returns(r) == serving' = [serving EXCEPT ![r] = Quiet]

-----------------------------------------------------------------------------
(* The board.                                                                *)

\* create_board commits the board first, then its columns.
CreateBoard(r) ==
  /\ board = "absent" /\ Asks(r, [at |-> "seed"]) /\ board' = "bare"
  /\ UNCHANGED <<columns, slips, clashed, torn, remarked, tied>>

SeedColumns(r) ==
  /\ serving[r].at = "seed" /\ Returns(r)
  /\ IF board = "gone" THEN UNCHANGED <<board, columns>>
     ELSE /\ board' = "ready"
          /\ LET last == Max({0} \cup DOMAIN columns) IN
             /\ last + Len(DefaultColumns) <= MaxColumns
             /\ columns' = [k \in DOMAIN columns \cup (last + 1) .. (last + Len(DefaultColumns)) |->
                  IF Stands(k) THEN columns[k] ELSE [place |-> k - last, landing |-> DefaultColumns[k - last]]]
  /\ tied' = (tied \/ columns # <<>>)
  /\ UNCHANGED <<slips, clashed, torn, remarked, asked>>

\* Bug variant: the columns are left behind.
ClearedButColumns == slips' = [c \in Slips |-> Nowhere] /\ UNCHANGED columns

Cleared == slips' = [c \in Slips |-> Nowhere] /\ columns' = <<>>

\* delete_board: the children first, all in one transaction.
DeleteBoard ==
  /\ board \in {"bare", "ready"} /\ asked < MaxAsked /\ asked' = asked + 1
  /\ board' = "gone" /\ Cleared
  /\ UNCHANGED <<serving, clashed, torn, remarked, tied>>

-----------------------------------------------------------------------------
(* Columns.                                                                  *)

AddColumnLooks(r) ==
  /\ board \in {"bare", "ready"} /\ Asks(r, [at |-> "add", place |-> NextPlace])
  /\ tied' = (tied \/ AnyAt({"add", "seed"}))
  /\ UNCHANGED <<board, columns, slips, clashed, torn, remarked>>

\* SQLite gives it the greatest id plus one.
AddColumn(r) ==
  /\ serving[r].at = "add" /\ Returns(r)
  /\ LET id == 1 + Max({0} \cup DOMAIN columns) IN
     /\ id <= MaxColumns
     /\ columns' = IF board = "gone" THEN columns
                   ELSE [k \in DOMAIN columns \cup {id} |->
                     IF Stands(k) THEN columns[k] ELSE [place |-> serving[r].place, landing |-> FALSE]]
  /\ UNCHANGED <<board, slips, clashed, torn, remarked, tied, asked>>

\* update_column with is_landing: the column is loaded, every flag is cleared
\* and committed, and the flag is set on the loaded object.
MarkLoads(r, k) ==
  /\ Stands(k) /\ Asks(r, [at |-> "clear", col |-> k, landing |-> columns[k].landing])
  /\ clashed' = (clashed \/ AnyAt({"seed", "clear", "mark", "count", "drop"}))
  /\ UNCHANGED <<board, columns, slips, torn, remarked, tied>>

ClearLanding(r) ==
  /\ serving[r].at = "clear" /\ Proceeds(r, "mark")
  /\ columns' = [k \in DOMAIN columns |-> [columns[k] EXCEPT !.landing = FALSE]]
  /\ UNCHANGED <<board, slips, clashed, torn, remarked, tied, asked>>

\* The flag is written only if it differs from the loaded one; a column that is
\* gone fails the request.
Mark(r) ==
  /\ serving[r].at = "mark" /\ Returns(r)
  /\ LET k == serving[r].col IN
     columns' = IF Stands(k) /\ ~serving[r].landing THEN [columns EXCEPT ![k].landing = TRUE]
                ELSE columns
  /\ remarked' = (remarked \/ serving[r].landing)
  /\ UNCHANGED <<board, slips, clashed, torn, tied, asked>>

DropLoads(r, k) ==
  /\ Stands(k) /\ Asks(r, [at |-> "count", col |-> k, landing |-> columns[k].landing])
  /\ clashed' = (clashed \/ AnyAt({"seed", "clear", "mark"}))
  /\ UNCHANGED <<board, columns, slips, torn, remarked, tied>>

\* Bug variant: the landing column may go as well.
DeletableIfEmpty(r) == ~InUse(serving[r].col)

Deletable(r) == ~InUse(serving[r].col) /\ ~serving[r].landing

DropCounts(r) ==
  /\ serving[r].at = "count" /\ IF Deletable(r) THEN Proceeds(r, "drop") ELSE Returns(r)
  /\ UNCHANGED <<board, columns, slips, clashed, torn, remarked, tied, asked>>

\* Bug variant: foreign keys are not enforced.
ReferencedNever(k) == FALSE

\* The foreign key of the cards refuses the DELETE.
Referenced(k) == InUse(k)

Drop(r) ==
  /\ serving[r].at = "drop" /\ Returns(r)
  /\ LET k == serving[r].col IN
     columns' = IF Referenced(k) THEN columns ELSE [j \in DOMAIN columns \ {k} |-> columns[j]]
  /\ UNCHANGED <<board, slips, clashed, torn, remarked, tied, asked>>

-----------------------------------------------------------------------------
(* Cards.                                                                    *)

First(S) == CHOOSE k \in S : \A j \in S : columns[k].place <= columns[j].place

\* _resolve_landing: the column named, the landing column, or the first one.
Resolve(named) == IF named # Nowhere THEN named
                  ELSE IF Landings # {} THEN First(Landings) ELSE First(DOMAIN columns)

\* A new card, or one that is moved to a column it is told.
PlaceLooks(r, c, named) ==
  /\ columns # <<>> /\ (named # Nowhere => Stands(named)) /\ (slips[c] # Nowhere => named # Nowhere)
  /\ \A q \in Clients : serving[q].at = "put" => serving[q].card # c
  /\ Asks(r, [at |-> "put", card |-> c, col |-> Resolve(named), new |-> slips[c] = Nowhere])
  /\ UNCHANGED <<board, columns, slips, clashed, torn, remarked, tied>>

\* The foreign key of the card refuses a column that is gone.
PlaceCard(r) ==
  /\ serving[r].at = "put" /\ Returns(r)
  /\ LET c == serving[r].card  k == serving[r].col IN
     slips' = IF Stands(k) /\ (serving[r].new \/ slips[c] # Nowhere) THEN [slips EXCEPT ![c] = k] ELSE slips
  /\ UNCHANGED <<board, columns, clashed, torn, remarked, tied, asked>>

RemoveCard(c) ==
  /\ slips[c] # Nowhere /\ slips' = [slips EXCEPT ![c] = Nowhere]
  /\ UNCHANGED <<board, columns, serving, clashed, torn, remarked, tied, asked>>

HubDies ==
  /\ AnyAt({"seed", "add", "clear", "mark", "count", "drop", "put"})
  /\ serving' = [r \in Clients |-> Quiet] /\ torn' = (torn \/ AnyAt({"mark", "seed"}))
  /\ UNCHANGED <<board, columns, slips, clashed, remarked, tied, asked>>

ColumnsNext ==
  \/ \E r \in Clients :
       \/ CreateBoard(r) \/ SeedColumns(r) \/ AddColumnLooks(r) \/ AddColumn(r)
       \/ ClearLanding(r) \/ Mark(r) \/ DropCounts(r) \/ Drop(r) \/ PlaceCard(r)
       \/ \E k \in DOMAIN columns : MarkLoads(r, k) \/ DropLoads(r, k)
       \/ \E c \in Slips, named \in DOMAIN columns \cup {Nowhere} : PlaceLooks(r, c, named)
  \/ DeleteBoard \/ HubDies \/ \E c \in Slips : RemoveCard(c)

ColumnsSpec == ColumnsInit /\ [][ColumnsNext]_columnVars

-----------------------------------------------------------------------------
\* Every variable has its type, and nothing is left of a deleted board, whatever
\* was in progress.
ColumnsTypeOK ==
  /\ board \in {"absent", "bare", "ready", "gone"} /\ DOMAIN columns \subseteq 1 .. MaxColumns
  /\ \A k \in DOMAIN columns : columns[k] \in [place : Nat, landing : BOOLEAN]
  /\ board = "gone" => columns = <<>>

\* A card always stands in a column that exists, although the count of cards and
\* the deletion are two steps, and so are the choice of a column and the insert.
CardsHaveColumn == \A c \in Slips : slips[c] # Nowhere => Stands(slips[c])

Chosen == board = "ready" /\ ~AnyAt({"mark"})

\* A board has exactly one landing column, unless requests about it overlapped,
\* the hub stopped in the middle of one, or the landing column was chosen again.
OneLanding ==
  Chosen /\ ~(clashed \/ torn \/ remarked) => Cardinality(Landings) = 1

\* The comment in update_column ("Exactly one landing column per board"): one
\* request at a time, none of them cut short, leaves one landing column.
LandingExists == Chosen /\ ~(clashed \/ torn) => Cardinality(Landings) = 1

\* The columns have an order, unless two were added at once.
ColumnOrder ==
  tied \/ \A j, k \in DOMAIN columns : columns[j].place = columns[k].place => j = k

\* Cards have a column, new ones have one to land in, and columns an order.
ColumnsHold == CardsHaveColumn /\ OneLanding /\ ColumnOrder
=============================================================================
