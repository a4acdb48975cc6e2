------------------------------- MODULE Kanban -------------------------------
(***************************************************************************)
(* The cards of one board under concurrent HTTP requests (services/        *)
(* kanban_service.py, repositories/kanban_repo.py).  A request is one      *)
(* coroutine with a database session of its own.  Every await gives the    *)
(* other requests a turn, so an action is what happens between two awaits: *)
(* one SELECT, or one transaction that writes.  SELECTs run outside of a   *)
(* transaction (the sqlite3 driver opens one at the first write), hence    *)
(* each sees the latest commit, while the loaded card keeps the values it  *)
(* was loaded with.  With a single request slot the model is sequential.   *)
(*                                                                         *)
(* A request that ends with 2xx or 4xx frees its slot; one that ends with  *)
(* an unexpected exception, a 500, is "failed".                            *)
(***************************************************************************)
EXTENDS KanbanRank, FiniteSets

CONSTANTS
  Reqs,         \* request slots: how many requests may be in progress
  MaxId,        \* bound on card ids
  Columns,      \* columns of the board; their settings do not change here
  Wip,          \* WIP limit of a column, 0 = none
  DoneColumns,  \* terminal columns
  Entry,        \* columns in which cards are created
  Ops,          \* kinds of request that are made
  AnyAnchors,   \* TRUE: anchors from any view of the board; FALSE: from the latest
  MaxVersion,   \* bound on card versions
  MaxRankLen    \* bound on the ranks that creations reach

Ids == 1..MaxId
None == 0

ASSUME BoardAssumption ==
  /\ IsFiniteSet(Reqs)
  /\ MaxId \in Nat /\ MaxVersion \in Nat /\ MaxRankLen \in Nat
  /\ Wip \in [Columns -> Nat]
  /\ DoneColumns \subseteq Columns /\ Entry \subseteq Columns
  /\ AnyAnchors \in BOOLEAN
  /\ None \notin Columns

VARIABLES
  cards,   \* the card table: NoCard, or a column, a rank and a version
  deps,    \* the dependency table: <<c, d>> says that c waits for d
  req      \* the requests

vars == <<cards, deps, req>>

-----------------------------------------------------------------------------
(* The table *)

NoCard == [col |-> None, rank |-> Open, version |-> 0]

Exists(c) == c # None /\ cards[c] # NoCard
InColumn(k) == {c \in Ids : Exists(c) /\ cards[c].col = k}

\* ORDER BY rank; the unique index leaves no ties.
Order(k) ==
  LET S == InColumn(k)
  IN  [i \in 1..Cardinality(S) |->
         CHOOSE c \in S : Cardinality({d \in S : Less(cards[d].rank, cards[c].rank)}) = i - 1]

LastRank(S) ==
  IF S = {} THEN Open
  ELSE cards[CHOOSE c \in S : \A d \in S \ {c} : Less(cards[d].rank, cards[c].rank)].rank

\* The rank of the i-th card during a rebalance, above every digit of a rank.
Temp(i) == <<Base, i>>
IsTemp(r) == r # Open /\ r[1] = Base

\* rebalance_ranks
RebalanceRanks[n \in Nat] ==
  IF n = 0 THEN <<>>
  ELSE LET before == RebalanceRanks[n - 1]
       IN  Append(before, RankBetween(IF n = 1 THEN Open ELSE before[n - 1], Open))

\* The unique index on (column, rank), checked at each row that one flush
\* updates; rows are updated in the order of their keys.
Clash(old, new, updated) ==
  \E c \in updated : \E d \in Ids \ {c} :
    LET other == IF d \in updated /\ d < c THEN new[d] ELSE old[d]
    IN  other # NoCard /\ other.col = new[c].col /\ other.rank = new[c].rank

-----------------------------------------------------------------------------
(* The requests *)

Free == [pc |-> "free", op |-> "none", card |-> None, to |-> None, before |-> None,
         after |-> None, expected |-> 0, mine |-> NoCard, todo |-> {}, lo |-> Open,
         hi |-> Open, rank |-> Open, count |-> 0, listed |-> <<>>, again |-> FALSE]

Step(r, next) == req' = [req EXCEPT ![r] = next]
\* The request is answered, with 2xx or 4xx.
End(r) == Step(r, Free)
\* The request dies of an exception that nobody catches.
Fail(r) == Step(r, [Free EXCEPT !.pc = "failed", !.op = req[r].op])

At(r, op, pc) == req[r].op = op /\ req[r].pc = pc

OrderedAt(c, d) == Exists(c) /\ Exists(d) /\ cards[c].col = cards[d].col
                     /\ Less(cards[c].rank, cards[d].rank)

\* b and a are neighbours in column k for somebody who moves card c.
Adjacent(c, k, b, a) ==
  LET others == InColumn(k) \ {c}
  IN  /\ {b, a} \subseteq others \cup {None}
      /\ b = None => \A x \in others : a # None /\ ~OrderedAt(x, a)
      /\ a = None => \A x \in others : b # None /\ ~OrderedAt(b, x)
      /\ b # None /\ a # None =>
           OrderedAt(b, a) /\ \A x \in others : ~(OrderedAt(b, x) /\ OrderedAt(x, a))

Init ==
  /\ cards = [c \in Ids |-> NoCard]
  /\ deps = {}
  /\ req = [r \in Reqs |-> Free]

\* A client asks; what it asks for may be out of date when it is served.
Submit(r) ==
  /\ req[r].pc \in {"free", "failed"}
  /\ \E op \in Ops, c \in Ids :
       \/ /\ op = "move" /\ Exists(c) /\ cards[c].version < MaxVersion
          /\ \A d \in Ids : cards[d].version <= MaxVersion
          /\ \E k \in Columns, b, a \in Ids \cup {None}, v \in 1..cards[c].version :
               /\ AnyAnchors \/ Adjacent(c, k, b, a)
               /\ Step(r, [Free EXCEPT !.pc = "load", !.op = op, !.card = c, !.to = k,
                                       !.before = b, !.after = a, !.expected = v])
       \/ /\ op = "create" /\ c = 1 /\ ~Exists(MaxId)
          /\ \E k \in Entry :
               Step(r, [Free EXCEPT !.pc = "tail", !.op = op, !.to = k])
       \/ /\ op = "edit" /\ Exists(c) /\ cards[c].version < MaxVersion
          /\ \E v \in {0, cards[c].version} :
               Step(r, [Free EXCEPT !.pc = "load", !.op = op, !.card = c, !.expected = v])
       \/ /\ op = "delete" /\ Exists(c)
          /\ Step(r, [Free EXCEPT !.pc = "load", !.op = op, !.card = c])
       \/ /\ op = "link" /\ Exists(c)
          /\ \E d \in Ids \ {c} : Exists(d) /\
               Step(r, [Free EXCEPT !.pc = "load", !.op = op, !.card = c, !.to = d])
       \/ /\ op = "unlink"
          /\ \E d \in Ids : <<c, d>> \in deps /\
               Step(r, [Free EXCEPT !.pc = "load", !.op = op, !.card = c, !.to = d])
  /\ UNCHANGED <<cards, deps>>

-----------------------------------------------------------------------------
(* Moving a card *)

\* The await that follows: an anchor that is to be read, or the end of the column.
Bounds(m) == IF m.before # None THEN "before" ELSE IF m.after # None THEN "after" ELSE "end"

\* get_card and the version check; into a done column the dependencies come next.
LoadMove(r) ==
  LET m == [req[r] EXCEPT !.mine = cards[req[r].card]]
  IN  /\ At(r, "move", "load")
      /\ IF ~Exists(m.card) \/ m.mine.version # m.expected THEN End(r)
         ELSE IF m.to \in DoneColumns THEN Step(r, [m EXCEPT !.pc = "gate"])
         ELSE Step(r, [m EXCEPT !.pc = Bounds(m)])
      /\ UNCHANGED <<cards, deps>>

\* _is_blocked: the ids of the dependencies ...
ReadDeps(r) ==
  LET m == [req[r] EXCEPT !.todo = {d \in Ids : <<req[r].card, d>> \in deps}]
  IN  /\ At(r, "move", "gate")
      /\ Step(r, [m EXCEPT !.pc = IF m.todo = {} THEN Bounds(m) ELSE "gating"])
      /\ UNCHANGED <<cards, deps>>

\* Bug variant: dependencies are looked at, and nothing follows from it.
CheckDepIgnored(r) ==
  /\ At(r, "move", "gating")
  /\ Step(r, [req[r] EXCEPT !.todo = {}, !.pc = Bounds(req[r])])
  /\ UNCHANGED <<cards, deps>>

\* ... and then one after the other; a dependency that is gone does not block.
CheckDep(r) ==
  /\ At(r, "move", "gating")
  /\ \E d \in req[r].todo :
       LET m == [req[r] EXCEPT !.todo = @ \ {d}]
       IN  IF Exists(d) /\ cards[d].col \notin DoneColumns THEN End(r)
           ELSE Step(r, IF m.todo = {} THEN [m EXCEPT !.pc = Bounds(m)] ELSE m)
  /\ UNCHANGED <<cards, deps>>

\* A limited column that the card is not in is counted before the write.
Limited(m) == m.to # m.mine.col /\ Wip[m.to] # 0

\* The rank between the bounds, once they are read; a long one costs a rebalance.
Placed(r, m) ==
  IF m.lo # Open /\ m.hi # Open /\ ~Less(m.lo, m.hi) THEN End(r)
  ELSE IF IsTemp(m.lo) \/ IsTemp(m.hi) THEN Fail(r)
  ELSE LET rank == RankBetween(m.lo, m.hi)
       IN  IF Len(rank) > RankLenMax /\ ~m.again
           THEN Step(r, [m EXCEPT !.pc = "count", !.lo = Open, !.hi = Open])
           ELSE Step(r, [m EXCEPT !.pc = IF Limited(m) THEN "wip" ELSE "write",
                                  !.rank = rank, !.lo = Open, !.hi = Open])

\* _anchor_rank: an anchor has to be another card, and in the destination.
Anchors(m, a) == a # m.card /\ Exists(a) /\ cards[a].col = m.to

\* Bug variant: the bounds the wrong way round.
ReadBeforeSwapped(r) ==
  LET m == req[r]
      n == [m EXCEPT !.hi = cards[m.before].rank]
  IN  /\ At(r, "move", "before")
      /\ IF ~Anchors(m, m.before) THEN End(r)
         ELSE IF m.after # None THEN Step(r, [n EXCEPT !.pc = "after"])
         ELSE Placed(r, n)
      /\ UNCHANGED <<cards, deps>>

ReadBefore(r) ==
  LET m == req[r]
      n == [m EXCEPT !.lo = cards[m.before].rank]
  IN  /\ At(r, "move", "before")
      /\ IF ~Anchors(m, m.before) THEN End(r)
         ELSE IF m.after # None THEN Step(r, [n EXCEPT !.pc = "after"])
         ELSE Placed(r, n)
      /\ UNCHANGED <<cards, deps>>

ReadAfter(r) ==
  LET m == req[r]
  IN  /\ At(r, "move", "after")
      /\ IF ~Anchors(m, m.after) THEN End(r)
         ELSE Placed(r, [m EXCEPT !.hi = cards[m.after].rank])
      /\ UNCHANGED <<cards, deps>>

\* No anchors: behind the last of the other cards.
ReadEnd(r) ==
  LET m == req[r]
  IN  /\ At(r, "move", "end")
      /\ Placed(r, [m EXCEPT !.lo = LastRank(InColumn(m.to) \ {m.card})])
      /\ UNCHANGED <<cards, deps>>

\* Bug variant: the card that is to move is not counted.
CountOthers(r) ==
  LET m == req[r]
  IN  /\ At(r, "move", "count")
      /\ Step(r, [m EXCEPT !.pc = "list", !.count = Cardinality(InColumn(m.to) \ {m.card})])
      /\ UNCHANGED <<cards, deps>>

\* _rebalance: the cards are counted ...
CountCards(r) ==
  LET m == req[r]
  IN  /\ At(r, "move", "count")
      /\ Step(r, [m EXCEPT !.pc = "list", !.count = Cardinality(InColumn(m.to))])
      /\ UNCHANGED <<cards, deps>>

\* ... then listed; the card to move is the object that was loaded before ...
ListCards(r) ==
  LET m == req[r]
  IN  /\ At(r, "move", "list")
      /\ Step(r, [m EXCEPT !.pc = "respread",
           !.listed = [i \in DOMAIN Order(m.to) |->
              LET c == Order(m.to)[i]
              IN  <<c, IF c = m.card THEN m.mine.version ELSE cards[c].version>>]])
      /\ UNCHANGED <<cards, deps>>

\* Bug variant: a single pass, straight to the new ranks.
RespreadInPlace(r) ==
  LET m      == req[r]
      listed == {m.listed[i][1] : i \in DOMAIN m.listed}
      pos(c) == CHOOSE i \in DOMAIN m.listed : m.listed[i][1] = c
      fresh(c, row) == [row EXCEPT !.rank = RebalanceRanks[m.count][pos(c)], !.version = @ + 1]
      new    == [c \in Ids |-> IF c \in listed THEN fresh(c, cards[c]) ELSE cards[c]]
  IN  /\ At(r, "move", "respread")
      /\ IF Clash(cards, new, listed) THEN Fail(r) /\ UNCHANGED cards
         ELSE /\ cards' = new
              /\ Step(r, [m EXCEPT !.pc = Bounds(m), !.again = TRUE, !.count = 0, !.listed = <<>>,
                   !.mine = IF m.card \in listed THEN fresh(m.card, @) ELSE @])
      /\ UNCHANGED deps

\* ... and written twice in one transaction, through temporary ranks; cards
\* beyond the count keep the temporary one.
Respread(r) ==
  LET m      == req[r]
      listed == {m.listed[i][1] : i \in DOMAIN m.listed}
      pos(c) == CHOOSE i \in DOMAIN m.listed : m.listed[i][1] = c
      ranked == {c \in listed : pos(c) <= m.count}
      fresh(c, row) == [row EXCEPT !.rank = RebalanceRanks[m.count][pos(c)],
                                   !.version = m.listed[pos(c)][2] + 1]
      pass1  == [c \in Ids |-> IF c \in listed
                               THEN [cards[c] EXCEPT !.rank = Temp(pos(c))] ELSE cards[c]]
      pass2  == [c \in Ids |-> IF c \in ranked THEN fresh(c, pass1[c]) ELSE pass1[c]]
      mine   == IF m.card \in ranked THEN fresh(m.card, m.mine)
                ELSE IF m.card \in listed THEN [m.mine EXCEPT !.rank = Temp(pos(m.card))]
                ELSE m.mine
  IN  /\ At(r, "move", "respread")
      /\ IF \/ \E c \in listed : ~Exists(c)
            \/ Clash(cards, pass1, listed) \/ Clash(pass1, pass2, ranked)
         THEN Fail(r) /\ UNCHANGED cards
         ELSE /\ cards' = pass2
              /\ Step(r, [m EXCEPT !.pc = Bounds(m), !.mine = mine, !.again = TRUE,
                                   !.count = 0, !.listed = <<>>])
      /\ UNCHANGED deps

\* Bug variant: one card more than the limit.
CountWipInclusive(r) ==
  LET m == req[r]
  IN  /\ At(r, "move", "wip")
      /\ IF Cardinality(InColumn(m.to)) > Wip[m.to] THEN End(r)
         ELSE Step(r, [m EXCEPT !.pc = "write"])
      /\ UNCHANGED <<cards, deps>>

\* commit_move: the SELECT that counts ...
CountWip(r) ==
  LET m == req[r]
  IN  /\ At(r, "move", "wip")
      /\ IF Cardinality(InColumn(m.to)) >= Wip[m.to] THEN End(r)
         ELSE Step(r, [m EXCEPT !.pc = "write"])
      /\ UNCHANGED <<cards, deps>>

\* Bug variant: the version stays.
UpdatedUnversioned(row, mine, col, rank) ==
  [col     |-> IF col = mine.col THEN row.col ELSE col,
   rank    |-> IF rank = mine.rank THEN row.rank ELSE rank,
   version |-> mine.version]

\* The row that an UPDATE leaves: it names only the fields whose value differs
\* from the loaded one, and its WHERE clause only the id.
Updated(row, mine, col, rank) ==
  [col     |-> IF col = mine.col THEN row.col ELSE col,
   rank    |-> IF rank = mine.rank THEN row.rank ELSE rank,
   version |-> mine.version + 1]

\* Bug variant: no unique index to trip over.
WriteMoveUnchecked(r) ==
  LET m == req[r]
  IN  /\ At(r, "move", "write")
      /\ cards' = [cards EXCEPT ![m.card] = Updated(@, m.mine, m.to, m.rank)]
      /\ End(r)
      /\ UNCHANGED deps

\* ... and the UPDATE.  A collision rolls back, which expires every loaded
\* object; the retry then dies on the first use of the column's id.
WriteMove(r) ==
  LET m   == req[r]
      new == [cards EXCEPT ![m.card] = Updated(@, m.mine, m.to, m.rank)]
  IN  /\ At(r, "move", "write")
      /\ IF ~Exists(m.card) \/ Clash(cards, new, {m.card})
         THEN Fail(r) /\ UNCHANGED cards
         ELSE cards' = new /\ End(r)
      /\ UNCHANGED deps

-----------------------------------------------------------------------------
(* Creating, editing and deleting *)

\* _insert_card: the last rank is read ...
ReadTail(r) ==
  LET m    == req[r]
      last == LastRank(InColumn(m.to))
  IN  /\ At(r, "create", "tail")
      /\ IF IsTemp(last) THEN Fail(r)
         ELSE /\ Len(RankBetween(last, Open)) <= MaxRankLen
              /\ Step(r, [m EXCEPT !.pc = "insert", !.rank = RankBetween(last, Open)])
      /\ UNCHANGED <<cards, deps>>

\* ... and the card inserted; SQLite gives it the greatest id plus one.
InsertCard(r) ==
  LET m   == req[r]
      id  == CHOOSE c \in Ids : /\ \A d \in Ids : Exists(d) => d < c
                                /\ c = 1 \/ Exists(c - 1)
      new == [cards EXCEPT ![id] = [col |-> m.to, rank |-> m.rank, version |-> 1]]
  IN  /\ At(r, "create", "insert")
      /\ ~Exists(MaxId)
      /\ IF Clash(cards, new, {id}) THEN Fail(r) /\ UNCHANGED cards
         ELSE cards' = new /\ End(r)
      /\ UNCHANGED deps

\* update_card: an edit without an expected version is accepted.
LoadEdit(r) ==
  LET m == [req[r] EXCEPT !.mine = cards[req[r].card]]
  IN  /\ At(r, "edit", "load")
      /\ IF ~Exists(m.card) \/ m.expected \notin {0, m.mine.version} THEN End(r)
         ELSE Step(r, [m EXCEPT !.pc = "write"])
      /\ UNCHANGED <<cards, deps>>

WriteEdit(r) ==
  LET m == req[r]
  IN  /\ At(r, "edit", "write")
      /\ IF Exists(m.card)
         THEN cards' = [cards EXCEPT ![m.card].version = m.mine.version + 1] /\ End(r)
         ELSE Fail(r) /\ UNCHANGED cards
      /\ UNCHANGED deps

LoadDelete(r) ==
  LET m == req[r]
  IN  /\ At(r, "delete", "load")
      /\ IF Exists(m.card) THEN Step(r, [m EXCEPT !.pc = "write"]) ELSE End(r)
      /\ UNCHANGED <<cards, deps>>

\* delete_card: a dependency that names the card makes the foreign key fail.
DeleteCard(r) ==
  LET m == req[r]
  IN  /\ At(r, "delete", "write")
      /\ IF \E d \in Ids : {<<m.card, d>>, <<d, m.card>>} \cap deps # {}
         THEN Fail(r) /\ UNCHANGED cards
         ELSE cards' = [cards EXCEPT ![m.card] = NoCard] /\ End(r)
      /\ UNCHANGED deps

-----------------------------------------------------------------------------
(* Dependencies *)

\* The cards that d waits for, directly or not, in E, and d itself.
Behind(E, d) ==
  LET steps[n \in Nat] ==
        IF n = 0 THEN {d}
        ELSE steps[n - 1] \cup {y \in Ids : \E x \in steps[n - 1] : <<x, y>> \in E}
  IN  steps[MaxId]

\* add_dependency: both cards are looked up ...
LoadLink(r) ==
  LET m == req[r]
  IN  /\ At(r, "link", "load")
      /\ IF Exists(m.card) /\ Exists(m.to) THEN Step(r, [m EXCEPT !.pc = "check"]) ELSE End(r)
      /\ UNCHANGED <<cards, deps>>

\* Bug variant: only the edge back is looked for.
CheckCycleDirect(r) ==
  LET m == req[r]
  IN  /\ At(r, "link", "check")
      /\ IF {<<m.card, m.to>>, <<m.to, m.card>>} \cap deps # {} THEN End(r)
         ELSE Step(r, [m EXCEPT !.pc = "write"])
      /\ UNCHANGED <<cards, deps>>

\* ... then the edges: one that is there already, or that would close a cycle ...
CheckCycle(r) ==
  LET m == req[r]
  IN  /\ At(r, "link", "check")
      /\ IF <<m.card, m.to>> \in deps \/ m.card \in Behind(deps, m.to) THEN End(r)
         ELSE Step(r, [m EXCEPT !.pc = "write"])
      /\ UNCHANGED <<cards, deps>>

\* ... and the edge is inserted, unless a key fails.
AddDep(r) ==
  LET m == req[r]
  IN  /\ At(r, "link", "write")
      /\ IF Exists(m.card) /\ Exists(m.to) /\ <<m.card, m.to>> \notin deps
         THEN deps' = deps \cup {<<m.card, m.to>>} /\ End(r)
         ELSE Fail(r) /\ UNCHANGED deps
      /\ UNCHANGED cards

\* remove_dependency; a row that is gone is not an error.
RemoveDep(r) ==
  LET m == req[r]
  IN  /\ At(r, "unlink", "load")
      /\ deps' = deps \ {<<m.card, m.to>>}
      /\ End(r)
      /\ UNCHANGED cards

MoveStep(r) ==
  \/ LoadMove(r) \/ ReadDeps(r) \/ CheckDep(r)
  \/ ReadBefore(r) \/ ReadAfter(r) \/ ReadEnd(r)
  \/ CountCards(r) \/ ListCards(r) \/ Respread(r)
  \/ CountWip(r) \/ WriteMove(r)

OtherStep(r) ==
  \/ ReadTail(r) \/ InsertCard(r)
  \/ LoadEdit(r) \/ WriteEdit(r)
  \/ LoadDelete(r) \/ DeleteCard(r)
  \/ LoadLink(r) \/ CheckCycle(r) \/ AddDep(r) \/ RemoveDep(r)

Next == \E r \in Reqs : Submit(r) \/ MoveStep(r) \/ OtherStep(r)

Spec == Init /\ [][Next]_vars

-----------------------------------------------------------------------------
(* Properties *)

AnyRank == Rank \cup {Temp(i) : i \in Ids}
Row == [col : Columns, rank : AnyRank, version : Nat \ {0}]

\* Where a request is: free, dead, or before one of its awaits.
Places ==
  {"free", "failed", "load", "gate", "gating", "before", "after", "end", "count", "list",
   "respread", "wip", "write", "tail", "insert", "check"}

\* Cards with their versions, in the order in which a rebalance lists them.
Listing == Seq(Ids \X Nat)

Request ==
  [pc : Places,
   op : Ops \cup {"none"}, card : Ids \cup {None}, to : Columns \cup Ids \cup {None},
   before : Ids \cup {None}, after : Ids \cup {None}, expected : Nat,
   mine : Row \cup {NoCard}, todo : SUBSET Ids, lo : AnyRank \cup {Open},
   hi : AnyRank \cup {Open}, rank : Rank \cup {Open}, count : Nat,
   listed : Listing, again : BOOLEAN]

\* Types.
TypeOK ==
  /\ cards \in [Ids -> Row \cup {NoCard}]
  /\ deps \in SUBSET (Ids \X Ids)
  /\ req \in [Reqs -> Request]

\* Two cards of a column never share a rank, so its order is total (models/
\* kanban.py, "Backstop against midpoint collisions").
UniqueRanks ==
  \A c, d \in Ids :
    c # d /\ Exists(c) /\ Exists(d) /\ cards[c].col = cards[d].col
      => cards[c].rank # cards[d].rank

\* Requests that count at the same time may all find room, but no more than
\* that: a column in which nothing is created holds at most its limit and one
\* card for each other request (commit_move).
WipOvershootBounded ==
  \A k \in Columns \ Entry :
    Wip[k] # 0 => Cardinality(InColumn(k)) <= Wip[k] + Cardinality(Reqs) - 1

\* A move whose anchors are neighbours is placed or refused, whatever the board
\* went through; it never dies of a rank that is taken (_move, rebalance_column).
MoveNeverFails == \A r \in Reqs : req[r].pc = "failed" => req[r].op # "move"

\* "rejects any edge that would close a cycle" (models/kanban.py, KanbanCardDep).
NoCycle == \A c, d \in Ids : <<c, d>> \in deps => c \notin Behind(deps, d)

\* Every card has a rank, none is left with a temporary one (rebalance_column:
\* "Two passes through a disjoint temp namespace").
NoTempRank == \A c \in Ids : Exists(c) => ~IsTemp(cards[c].rank)

\* With one request at a time a rebalance neither fails a move nor leaves a
\* temporary rank behind.
RebalanceIsSafe == MoveNeverFails /\ NoTempRank

\* What changes a card raises its version: a change that was computed from an
\* older version never replaces a newer one ("the optimistic version rejects a
\* lost update", move_card).
VersionGrows ==
  [][\A c \in Ids :
       Exists(c) /\ cards'[c] \notin {NoCard, cards[c]} => cards'[c].version > cards[c].version]_vars

\* A move that succeeds leaves its card between the anchors that are still in
\* the column ("a stale client view can't silently misorder", move_card).
LandsBetween ==
  [][\A r \in Reqs :
       LET m == req[r]
           here(a) == a # None /\ cards'[a] # NoCard /\ cards'[a].col = m.to
       IN  At(r, "move", "write") /\ req'[r] = Free =>
             /\ here(m.before) => Less(cards'[m.before].rank, cards'[m.card].rank)
             /\ here(m.after) => Less(cards'[m.card].rank, cards'[m.after].rank)]_vars

=============================================================================
