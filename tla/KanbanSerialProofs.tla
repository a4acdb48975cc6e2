------------------------- MODULE KanbanSerialProofs -------------------------
(***************************************************************************)
(* Proofs about requests that are served one after the other: a move lands *)
(* between its anchors, a rebalance is invisible and fails nothing, and    *)
(* the table implements KanbanBoard.                                       *)
(*                                                                         *)
(* Alone is the invariant: what a request carries between two of its       *)
(* awaits is what the table says (Close), and no rank is a temporary one   *)
(* (Ranked).  Steady adds that a gate that let a move through is open, a   *)
(* count still below its limit, a tail still the last (Fit), and that a    *)
(* dependency joins cards that are there (Known).                          *)
(***************************************************************************)
EXTENDS KanbanProofs, MCKanban, SequenceTheorems

-----------------------------------------------------------------------------
(* One request at a time *)

\* The anchors of a move that is ready to be written are another card each, and its rank
\* is between theirs.
Landing(m) ==
  /\ m.before # None => m.before # m.card /\ Less(cards[m.before].rank, m.rank)
  /\ m.after # None => m.after # m.card /\ Less(m.rank, cards[m.after].rank)

\* The lower bound of a move that is to read the upper one.
HalfBound(m) ==
  IF m.before = None THEN m.lo = Open
  ELSE m.before # m.card /\ cards[m.before] # NoCard /\ m.lo = cards[m.before].rank

\* The cards that a rebalance counted and listed are the column.
Listed(m) ==
  /\ DOMAIN m.listed = DOMAIN Order(m.to)
  /\ \A i \in DOMAIN m.listed : m.listed[i][1] = Order(m.to)[i]

\* Anchors from the latest view of the board are still neighbours.
Aimed(m) == ~AnyAnchors => Adjacent(m.card, m.to, m.before, m.after)

\* Nothing that a move holds is out of date.
Close(m) ==
  m.op = "move" =>
    /\ m.pc \notin {"load", "failed"} => cards[m.card] # NoCard /\ m.mine = cards[m.card]
    /\ m.hi = Open
    /\ m.pc # "after" => m.lo = Open
    /\ m.pc = "after" => HalfBound(m)
    /\ m.pc = "end" => m.before = None /\ m.after = None
    /\ m.pc \in {"wip", "write"} => Landing(m)
    /\ m.pc \in {"list", "respread"} => m.count = Cardinality(InColumn(m.to))
    /\ m.pc = "respread" => Listed(m)
    /\ Aimed(m)
    /\ m.pc = "failed" => AnyAnchors

\* No card is left with a temporary rank.
Ranked == \A c \in Ids : cards[c] # NoCard => cards[c].rank \in Rank

\* Request r goes on, and what it holds is up to date.
Follow(r) == \E n : req' = [req EXCEPT ![r] = n] /\ Close(n)

LEMMA StepFollows == ASSUME NEW r, NEW n, Step(r, n), Close(n) PROVE Follow(r)
BY DEF Step, Follow

LEMMA OtherIsClose == ASSUME NEW m, m.op # "move" PROVE Close(m)
BY DEF Close

LEMMA EndFollows == ASSUME NEW r, End(r) PROVE Follow(r)
<1>1. Free.op # "move" BY DEF Free
<1> QED BY <1>1, OtherIsClose, StepFollows DEF End

LEMMA FailIsClose ==
  ASSUME NEW op, op # "move" \/ AnyAnchors
  PROVE  Close([Free EXCEPT !.pc = "failed", !.op = op])
<1> DEFINE n == [Free EXCEPT !.pc = "failed", !.op = op]
<1>1. n.op = op /\ n.pc = "failed" /\ n.lo = Open /\ n.hi = Open BY DEF Free
<1> HIDE DEF n
<1>2. Close(n) BY <1>1 DEF Close, Aimed
<1> QED BY <1>2 DEF n

LEMMA FailFollows ==
  ASSUME NEW r, Fail(r), req[r].op # "move" \/ AnyAnchors PROVE Follow(r)
<1> DEFINE n == [Free EXCEPT !.pc = "failed", !.op = req[r].op]
<1>1. Close(n) BY FailIsClose
<1>2. Step(r, n) BY DEF Fail
<1> HIDE DEF n
<1> QED BY <1>1, <1>2, StepFollows

\* Before its bounds are read a move holds its card and its anchors.
Ready(m) ==
  /\ m \in Request /\ m.op = "move"
  /\ cards[m.card] # NoCard /\ m.mine = cards[m.card]
  /\ m.lo = Open /\ m.hi = Open /\ Aimed(m)

LEMMA ReadyFollows ==
  ASSUME NEW r, NEW m, Ready(m), NEW p, p \in {"gate", "gating"} \/ p = Bounds(m),
         Step(r, [m EXCEPT !.pc = p])
  PROVE  Follow(r)
<1> DEFINE n == [m EXCEPT !.pc = p]
<1>1. /\ n.pc = p /\ n.op = m.op /\ n.card = m.card /\ n.to = m.to /\ n.mine = m.mine
      /\ n.before = m.before /\ n.after = m.after /\ n.lo = m.lo /\ n.hi = m.hi
  BY DEF Ready, Request
<1>2. Step(r, n) OBVIOUS
<1> HIDE DEF n
<1>3. /\ p \in {"gate", "gating", "before", "after", "end"}
      /\ p = "after" => m.before = None
      /\ p = "end" => m.before = None /\ m.after = None
  BY DEF Bounds
<1>4. Close(n) BY <1>1, <1>3 DEF Close, Ready, HalfBound, Aimed
<1> QED BY <1>2, <1>4, StepFollows

\* The next await but one of a move that has its bounds.
LEMMA PlacedFollows ==
  ASSUME NEW r, NEW m, m \in Request, m.op = "move", req[r].op = "move",
         cards[m.card] # NoCard, m.mine = cards[m.card], Aimed(m),
         m.lo \in Rank \cup {Open}, m.hi \in Rank \cup {Open},
         m.before # None => m.before # m.card /\ m.lo = cards[m.before].rank /\ m.lo # Open,
         m.after # None => m.after # m.card /\ m.hi = cards[m.after].rank /\ m.hi # Open,
         Placed(r, m)
  PROVE  Follow(r)
<1> DEFINE rank == RankBetween(m.lo, m.hi)
           long == [m EXCEPT !.pc = "count", !.lo = Open, !.hi = Open]
           p == IF Limited(m) THEN "wip" ELSE "write"
           short == [m EXCEPT !.pc = p, !.rank = rank, !.lo = Open, !.hi = Open]
<1>0. ~(IsTemp(m.lo) \/ IsTemp(m.hi)) BY AnyRankIsString
<1>1. \/ End(r)
      \/ /\ ~(m.lo # Open /\ m.hi # Open /\ ~Less(m.lo, m.hi))
         /\ Step(r, long) \/ Step(r, short)
  BY <1>0, Zenon DEF Placed
<1>2. CASE Step(r, long)
  <2>1. /\ long.pc = "count" /\ long.op = m.op /\ long.card = m.card /\ long.to = m.to
        /\ long.mine = m.mine /\ long.lo = Open /\ long.hi = Open
        /\ long.before = m.before /\ long.after = m.after
    BY DEF Request
  <2> HIDE DEF long
  <2>2. Close(long) BY <2>1 DEF Close, Aimed
  <2> QED BY <1>2, <2>2, StepFollows
<1>3. CASE /\ ~(m.lo # Open /\ m.hi # Open /\ ~Less(m.lo, m.hi))
           /\ Step(r, short)
  <2>1. Less(m.lo, rank) /\ (m.hi # Open => Less(rank, m.hi))
    <3>1. m.lo \in AnyRank \cup {Open} /\ m.hi \in AnyRank \cup {Open} BY DEF AnyRank
    <3> QED BY <1>0, <1>3, <3>1, PlacedRank
  <2>2. p \in {"wip", "write"} OBVIOUS
  <2> HIDE DEF rank, p
  <2>3. /\ short.pc = p /\ short.op = m.op /\ short.card = m.card /\ short.to = m.to
        /\ short.mine = m.mine
    BY DEF Request
  <2>4. /\ short.lo = Open /\ short.hi = Open /\ short.rank = rank
        /\ short.before = m.before /\ short.after = m.after
    BY DEF Request
  <2> HIDE DEF short
  <2>5. Landing(short) BY <2>1, <2>3, <2>4 DEF Landing
  <2>6. Close(short) BY <2>2, <2>3, <2>4, <2>5 DEF Close, Aimed
  <2> QED BY <1>3, <2>6, StepFollows
<1>4. CASE End(r) BY <1>4, EndFollows
<1> QED BY <1>1, <1>2, <1>3, <1>4

\* The table holds ranks of its own for all of its cards.
LEMMA RankOfCard ==
  ASSUME Typed, Ranked, NEW c \in Ids, cards[c] # NoCard
  PROVE  cards[c] \in Row /\ cards[c].rank \in Rank /\ cards[c].rank # Open
<1>1. cards[c] \in Row /\ cards[c].rank \in Rank BY DEF Typed, Ranked
<1> QED BY <1>1 DEF Rank, Open

\* No step of a move that only reads leaves it with anything out of date.
LEMMA QuietMoveFollows ==
  ASSUME Typed, UniqueIn(cards), Ranked, NEW r \in Reqs, Well(req[r]), Close(req[r]),
         LoadMove(r) \/ ReadDeps(r) \/ CheckDep(r) \/ ReadBefore(r) \/ ReadAfter(r)
           \/ ReadEnd(r) \/ CountCards(r) \/ ListCards(r) \/ CountWip(r)
  PROVE  Follow(r)
<1> DEFINE m == req[r]
<1>0. m \in Request /\ Well(m) /\ Close(m) BY DEF Well
<1>a. ASSUME m.op = "move", m.pc \in {"gate", "gating", "before", "after", "end"}
      PROVE  /\ cards[m.card] # NoCard /\ m.mine = cards[m.card] /\ m.hi = Open
             /\ m.pc # "after" => m.lo = Open
             /\ Aimed(m) /\ m.card \in Ids
  BY <1>0, <1>a DEF Close, Well
<1>1. CASE LoadMove(r)
  <2> DEFINE n == [m EXCEPT !.mine = cards[m.card]]
             g == [n EXCEPT !.pc = "gate"]
             b == [n EXCEPT !.pc = Bounds(n)]
  <2>1. /\ m.op = "move" /\ m.pc = "load"
        /\ End(r) \/ (Exists(n.card) /\ (Step(r, g) \/ Step(r, b)))
    BY <1>1, Zenon DEF LoadMove, At
  <2>2. ASSUME Exists(n.card) PROVE Ready(n)
    <3>1. m.card \in Ids /\ n.card = m.card BY <1>0, <2>1 DEF Well, Request
    <3>2. cards[m.card] # NoCard /\ cards[m.card] \in Row BY <2>2, <3>1 DEF Exists, Typed
    <3>3. n \in Request BY <1>0, <3>2 DEF Request
    <3>4. /\ n.op = m.op /\ n.to = m.to /\ n.before = m.before /\ n.after = m.after
          /\ n.lo = m.lo /\ n.hi = m.hi /\ n.mine = cards[m.card]
      BY <1>0 DEF Request
    <3> HIDE DEF n
    <3> QED BY <1>0, <2>1, <3>1, <3>2, <3>3, <3>4 DEF Ready, Close, Aimed
  <2> HIDE DEF n
  <2>4. CASE Exists(n.card) /\ Step(r, g)
    <3>1. PICK p : p = "gate" OBVIOUS
    <3> QED BY <3>1, <2>2, <2>4, ReadyFollows
  <2>5. CASE Exists(n.card) /\ Step(r, b)
    <3>1. PICK p : p = Bounds(n) OBVIOUS
    <3> QED BY <3>1, <2>2, <2>5, ReadyFollows
  <2> QED BY <2>1, <2>4, <2>5, EndFollows
<1>2. CASE ReadDeps(r)
  <2> DEFINE D == {d \in Ids : <<m.card, d>> \in deps}
             n == [m EXCEPT !.todo = D]
             p == IF n.todo = {} THEN Bounds(n) ELSE "gating"
  <2>1. m.op = "move" /\ m.pc = "gate" /\ Step(r, [n EXCEPT !.pc = p])
    BY <1>2, Zenon DEF ReadDeps, At
  <2>2. D \in SUBSET Ids OBVIOUS
  <2> HIDE DEF D
  <2>3. n \in Request BY <1>0, <2>2 DEF Request
  <2>4. /\ n.op = m.op /\ n.card = m.card /\ n.to = m.to /\ n.mine = m.mine
        /\ n.before = m.before /\ n.after = m.after /\ n.lo = m.lo /\ n.hi = m.hi
    BY <1>0 DEF Request
  <2>5. p = "gating" \/ p = Bounds(n) OBVIOUS
  <2> HIDE DEF n, p
  <2>6. Ready(n) BY <1>a, <2>1, <2>3, <2>4 DEF Ready, Aimed
  <2> QED BY <2>1, <2>5, <2>6, ReadyFollows
<1>3. CASE CheckDep(r)
  <2>1. m.op = "move" /\ m.pc = "gating" BY <1>3 DEF CheckDep, At
  <2>2. PICK d \in m.todo :
          LET n == [m EXCEPT !.todo = @ \ {d}]
          IN  IF Exists(d) /\ cards[d].col \notin DoneColumns THEN End(r)
              ELSE Step(r, IF n.todo = {} THEN [n EXCEPT !.pc = Bounds(n)] ELSE n)
    BY <1>3 DEF CheckDep
  <2> DEFINE D == m.todo \ {d}
             n == [m EXCEPT !.todo = D]
             p == Bounds(n)
  <2>3. End(r) \/ Step(r, n) \/ Step(r, [n EXCEPT !.pc = p]) BY <2>2, Zenon
  <2>4. D \in SUBSET Ids BY <1>0 DEF Request
  <2> HIDE DEF D
  <2>5. n \in Request BY <1>0, <2>4 DEF Request
  <2>6. /\ n.op = m.op /\ n.card = m.card /\ n.to = m.to /\ n.mine = m.mine
        /\ n.before = m.before /\ n.after = m.after /\ n.lo = m.lo /\ n.hi = m.hi
        /\ n.pc = m.pc
    BY <1>0 DEF Request
  <2>7. p = Bounds(n) OBVIOUS
  <2> HIDE DEF n, p
  <2>8. Ready(n) BY <1>a, <2>1, <2>5, <2>6 DEF Ready, Aimed
  <2>9. Close(n) BY <2>1, <2>6, <2>8 DEF Ready, Close
  <2> QED BY <2>3, <2>7, <2>8, <2>9, ReadyFollows, EndFollows, StepFollows
<1>4. CASE ReadBefore(r)
  <2> DEFINE x == cards[m.before].rank
             n == [m EXCEPT !.lo = x]
             w == [n EXCEPT !.pc = "after"]
  <2>1. /\ m.op = "move" /\ m.pc = "before"
        /\ \/ End(r)
           \/ Anchors(m, m.before) /\ m.after # None /\ Step(r, w)
           \/ Anchors(m, m.before) /\ m.after = None /\ Placed(r, n)
    BY <1>4, Zenon DEF ReadBefore, At
  <2>2. CASE \/ Anchors(m, m.before) /\ m.after # None /\ Step(r, w)
             \/ Anchors(m, m.before) /\ m.after = None /\ Placed(r, n)
    <3>1. m.before \in Ids /\ m.before # None /\ m.before # m.card /\ cards[m.before] # NoCard
      BY <1>0, <2>2 DEF Request, Anchors, Exists
    <3>2. x \in Rank /\ x # Open BY <3>1, RankOfCard
    <3>x. x = cards[m.before].rank OBVIOUS
    <3> HIDE DEF x
    <3>4. n \in Request BY <1>0, <3>2 DEF Request, AnyRank
    <3>5. /\ n.op = m.op /\ n.card = m.card /\ n.to = m.to /\ n.mine = m.mine
          /\ n.before = m.before /\ n.after = m.after /\ n.lo = x /\ n.hi = m.hi
      BY <1>0 DEF Request
    <3> HIDE DEF n
    <3>6. CASE Step(r, w)
      <4>1. /\ w.op = m.op /\ w.card = m.card /\ w.to = m.to /\ w.mine = m.mine
            /\ w.before = m.before /\ w.after = m.after /\ w.lo = x /\ w.hi = m.hi
            /\ w.pc = "after"
        BY <3>4, <3>5 DEF Request
      <4> HIDE DEF w
      <4>2. Close(w) BY <1>a, <2>1, <3>1, <3>x, <4>1 DEF Close, HalfBound, Aimed
      <4> QED BY <3>6, <4>2, StepFollows
    <3>7. CASE m.after = None /\ Placed(r, n)
      BY <1>a, <2>1, <3>1, <3>2, <3>x, <3>4, <3>5, <3>7, PlacedFollows DEF Aimed
    <3> QED BY <2>2, <3>6, <3>7
  <2>3. CASE End(r) BY <2>3, EndFollows
  <2> HIDE DEF n, w, x
  <2> QED BY <2>1, <2>2, <2>3
<1>5. CASE ReadAfter(r)
  <2> DEFINE x == cards[m.after].rank
             n == [m EXCEPT !.hi = x]
  <2>1. /\ m.op = "move" /\ m.pc = "after"
        /\ End(r) \/ (Anchors(m, m.after) /\ Placed(r, n))
    BY <1>5, Zenon DEF ReadAfter, At
  <2>2. CASE Anchors(m, m.after) /\ Placed(r, n)
    <3>1. m.after \in Ids /\ m.after # None /\ m.after # m.card /\ cards[m.after] # NoCard
      BY <1>0, <2>2 DEF Request, Anchors, Exists
    <3>2. x \in Rank /\ x # Open BY <3>1, RankOfCard
    <3>x. x = cards[m.after].rank OBVIOUS
    <3> HIDE DEF x
    <3>4. n \in Request BY <1>0, <3>2 DEF Request, AnyRank
    <3>5. /\ n.op = m.op /\ n.card = m.card /\ n.to = m.to /\ n.mine = m.mine
          /\ n.before = m.before /\ n.after = m.after /\ n.lo = m.lo /\ n.hi = x
      BY <1>0 DEF Request
    <3> HIDE DEF n
    <3>6. HalfBound(m) BY <1>0, <2>1 DEF Close
    <3>7. /\ m.lo \in Rank \cup {Open}
          /\ m.before # None => m.before # m.card /\ m.lo = cards[m.before].rank /\ m.lo # Open
      <4>1. CASE m.before = None BY <3>6, <4>1 DEF HalfBound
      <4>2. CASE m.before # None
        <5>1. m.before \in Ids BY <1>0, <4>2 DEF Request
        <5> QED BY <3>6, <4>2, <5>1, RankOfCard DEF HalfBound
      <4> QED BY <4>1, <4>2
    <3> QED BY <1>a, <2>1, <2>2, <3>1, <3>2, <3>x, <3>4, <3>5, <3>7, PlacedFollows DEF Aimed
  <2> QED BY <2>1, <2>2, EndFollows
<1>6. CASE ReadEnd(r)
  <2> DEFINE x == LastRank(InColumn(m.to) \ {m.card})
             n == [m EXCEPT !.lo = x]
  <2>1. m.op = "move" /\ m.pc = "end" /\ Placed(r, n)
    BY <1>6, Zenon DEF ReadEnd, At
  <2>2. x \in Rank \cup {Open}
    <3> DEFINE S == InColumn(m.to) \ {m.card}
    <3>1. Sortable(S) BY ColumnSortable DEF Sortable
    <3>2. \A c \in S : cards[c].rank \in Rank BY DEF InColumn, Exists, Ranked
    <3> QED BY <3>1, <3>2, LastRankIs
  <2>3. m.before = None /\ m.after = None BY <1>0, <2>1 DEF Close
  <2> HIDE DEF x
  <2>4. n \in Request BY <1>0, <2>2 DEF Request, AnyRank
  <2>5. /\ n.op = m.op /\ n.card = m.card /\ n.to = m.to /\ n.mine = m.mine
        /\ n.before = m.before /\ n.after = m.after /\ n.lo = x /\ n.hi = m.hi
    BY <1>0 DEF Request
  <2> HIDE DEF n
  <2> QED BY <1>a, <2>1, <2>2, <2>3, <2>4, <2>5, PlacedFollows DEF Aimed
<1>7. CASE CountCards(r)
  <2> DEFINE x == Cardinality(InColumn(m.to))
             n == [m EXCEPT !.pc = "list", !.count = x]
  <2>1. m.op = "move" /\ m.pc = "count" /\ Step(r, n) BY <1>7, Zenon DEF CountCards, At
  <2>2. /\ n.pc = "list" /\ n.op = m.op /\ n.card = m.card /\ n.to = m.to /\ n.mine = m.mine
        /\ n.before = m.before /\ n.after = m.after /\ n.lo = m.lo /\ n.hi = m.hi
        /\ n.count = Cardinality(InColumn(m.to))
    BY <1>0 DEF Request
  <2> HIDE DEF n, x
  <2>3. Close(n) BY <1>0, <2>1, <2>2 DEF Close, Aimed
  <2> QED BY <2>1, <2>3, StepFollows
<1>8. CASE ListCards(r)
  <2> DEFINE v(c) == IF c = m.card THEN m.mine.version ELSE cards[c].version
             l == [i \in DOMAIN Order(m.to) |-> <<Order(m.to)[i], v(Order(m.to)[i])>>]
             n == [m EXCEPT !.pc = "respread", !.listed = l]
  <2>1. m.op = "move" /\ m.pc = "list" /\ Step(r, n) BY <1>8, Zenon DEF ListCards, At
  <2>2. DOMAIN l = DOMAIN Order(m.to) /\ \A i \in DOMAIN l : l[i][1] = Order(m.to)[i] OBVIOUS
  <2> HIDE DEF v, l
  <2>3. /\ n.pc = "respread" /\ n.op = m.op /\ n.card = m.card /\ n.to = m.to
        /\ n.mine = m.mine /\ n.before = m.before /\ n.after = m.after /\ n.lo = m.lo
        /\ n.hi = m.hi /\ n.count = m.count /\ n.listed = l
    BY <1>0 DEF Request
  <2> HIDE DEF n
  <2>4. Close(n) BY <1>0, <2>1, <2>2, <2>3 DEF Close, Aimed, Listed
  <2> QED BY <2>1, <2>4, StepFollows
<1>9. CASE CountWip(r)
  <2> DEFINE n == [m EXCEPT !.pc = "write"]
  <2>1. m.op = "move" /\ m.pc = "wip" /\ (End(r) \/ Step(r, n)) BY <1>9, Zenon DEF CountWip, At
  <2>2. /\ n.pc = "write" /\ n.op = m.op /\ n.card = m.card /\ n.to = m.to /\ n.mine = m.mine
        /\ n.before = m.before /\ n.after = m.after /\ n.lo = m.lo /\ n.hi = m.hi
        /\ n.rank = m.rank
    BY <1>0 DEF Request
  <2> HIDE DEF n
  <2>3. Close(n) BY <1>0, <2>1, <2>2 DEF Close, Aimed, Landing
  <2> QED BY <2>1, <2>3, StepFollows, EndFollows
<1> QED BY <1>1, <1>2, <1>3, <1>4, <1>5, <1>6, <1>7, <1>8, <1>9

\* What a request is about to move, and where.
LEMMA SubmitFollows ==
  ASSUME NEW r \in Reqs, Submit(r) PROVE Follow(r)
<1>1. PICK op \in Ops, c \in Ids :
       \/ /\ op = "move" /\ Exists(c) /\ cards[c].version < MaxVersion
          /\ \A d \in Ids : cards[d].version <= MaxVersion
          /\ \E k \in Columns, b, a \in Ids \cup {None}, v \in 1..cards[c].version :
               /\ AnyAnchors \/ Adjacent(c, k, b, a)
               /\ Step(r, [Free EXCEPT !.pc = "load", !.op = op, !.card = c, !.to = k,
                                       !.before = b, !.after = a, !.expected = v])
       \/ /\ op = "create" /\ c = 1 /\ ~Exists(MaxId)
          /\ \E k \in Entry :
               Step(r, [Free EXCEPT !.pc = "tail", !.op = op, !.to = k])
       \/ /\ op = "edit" /\ Exists(c) /\ cards[c].version < MaxVersion
          /\ \E v \in {0, cards[c].version} :
               Step(r, [Free EXCEPT !.pc = "load", !.op = op, !.card = c, !.expected = v])
       \/ /\ op = "delete" /\ Exists(c)
          /\ Step(r, [Free EXCEPT !.pc = "load", !.op = op, !.card = c])
       \/ /\ op = "link" /\ Exists(c)
          /\ \E d \in Ids \ {c} : Exists(d) /\
               Step(r, [Free EXCEPT !.pc = "load", !.op = op, !.card = c, !.to = d])
       \/ /\ op = "unlink"
          /\ \E d \in Ids : <<c, d>> \in deps /\
               Step(r, [Free EXCEPT !.pc = "load", !.op = op, !.card = c, !.to = d])
  BY Zenon DEF Submit
<1>2. CASE op = "move"
  <2>1. PICK k \in Columns, b \in Ids \cup {None}, a \in Ids \cup {None},
             v \in 1..cards[c].version :
          /\ AnyAnchors \/ Adjacent(c, k, b, a)
          /\ Step(r, [Free EXCEPT !.pc = "load", !.op = op, !.card = c, !.to = k,
                                  !.before = b, !.after = a, !.expected = v])
    BY <1>1, <1>2, Zenon
  <2> DEFINE n == [Free EXCEPT !.pc = "load", !.op = op, !.card = c, !.to = k,
                               !.before = b, !.after = a, !.expected = v]
  <2>2. /\ n.pc = "load" /\ n.op = op /\ n.card = c /\ n.to = k /\ n.before = b /\ n.after = a
        /\ n.lo = Open /\ n.hi = Open
    BY DEF Free
  <2>3. Step(r, n) BY <2>1
  <2> HIDE DEF n
  <2>4. Close(n) BY <2>1, <2>2 DEF Close, Aimed
  <2> QED BY <2>3, <2>4, StepFollows
<1>3. CASE op # "move"
  <2>1. PICK n : Step(r, n) /\ n.op = op
    <3>1. PICK k, v, p :
            \/ Step(r, [Free EXCEPT !.pc = p, !.op = op, !.to = k])
            \/ Step(r, [Free EXCEPT !.pc = p, !.op = op, !.card = c, !.expected = v])
            \/ Step(r, [Free EXCEPT !.pc = p, !.op = op, !.card = c])
            \/ Step(r, [Free EXCEPT !.pc = p, !.op = op, !.card = c, !.to = k])
      BY <1>1, <1>3, Zenon
    <3>2. /\ [Free EXCEPT !.pc = p, !.op = op, !.to = k].op = op
          /\ [Free EXCEPT !.pc = p, !.op = op, !.card = c, !.expected = v].op = op
          /\ [Free EXCEPT !.pc = p, !.op = op, !.card = c].op = op
          /\ [Free EXCEPT !.pc = p, !.op = op, !.card = c, !.to = k].op = op
      BY DEF Free
    <3> QED BY <3>1, <3>2, Zenon
  <2> QED BY <1>3, <2>1, OtherIsClose, StepFollows
<1> QED BY <1>2, <1>3

\* The cards stay where they are, in the same order.
SameOrder ==
  /\ \A c \in Ids : cards'[c] = NoCard <=> cards[c] = NoCard
  /\ \A c \in Ids : cards[c] # NoCard => cards'[c].col = cards[c].col
  /\ \A c, d \in Ids :
       cards[c] # NoCard /\ cards[d] # NoCard /\ cards[c].col = cards[d].col =>
         (Less(cards'[c].rank, cards'[d].rank) <=> Less(cards[c].rank, cards[d].rank))

LEMMA SameOrderAims ==
  ASSUME SameOrder, NEW c, NEW k, NEW b, NEW a, Adjacent(c, k, b, a)
  PROVE  Adjacent(c, k, b, a)'
<1>1. InColumn(k)' = InColumn(k) BY DEF SameOrder, InColumn, Exists
<1>2. \A x, y \in InColumn(k) : OrderedAt(x, y)' <=> OrderedAt(x, y)
  BY DEF SameOrder, InColumn, OrderedAt, Exists
<1>3. {b, a} \subseteq (InColumn(k) \ {c}) \cup {None} BY Zenon DEF Adjacent
<1> QED BY <1>1, <1>2, <1>3 DEF Adjacent

\* With the whole column listed a rebalance spreads it, and nothing else: each of its
\* cards gets one of the fresh ranks, in the order that they had.
LEMMA SpreadsColumn ==
  ASSUME Typed, UniqueIn(cards), Ranked, NEW m, m \in Request,
         m.count = Cardinality(InColumn(m.to)), Listed(m)
  PROVE  LET listed == {m.listed[i][1] : i \in DOMAIN m.listed}
             pos(c) == CHOOSE i \in DOMAIN m.listed : m.listed[i][1] = c
             R == RebalanceRanks[m.count]
         IN  /\ listed = InColumn(m.to) /\ m.count \in Nat
             /\ \A c \in listed :
                  /\ pos(c) \in 1..m.count /\ pos(c) \in Ids /\ R[pos(c)] \in Rank
                  /\ m.listed[pos(c)] \in Ids \X Nat
             /\ \A c, d \in listed : pos(c) = pos(d) => c = d
             /\ \A c, d \in listed : R[pos(c)] = R[pos(d)] => c = d
             /\ \A c, d \in listed : Less(R[pos(c)], R[pos(d)]) <=> Before(c, d)
<1> DEFINE k == m.to
           N == Cardinality(InColumn(k))
           listed == {m.listed[i][1] : i \in DOMAIN m.listed}
           pos(c) == CHOOSE i \in DOMAIN m.listed : m.listed[i][1] = c
           R == RebalanceRanks[m.count]
<1>1. /\ N \in Nat /\ DOMAIN Order(k) = 1..N
      /\ \A i \in DOMAIN Order(k) : Order(k)[i] \in InColumn(k)
      /\ \A c \in InColumn(k) : \E i \in DOMAIN Order(k) : Order(k)[i] = c
      /\ \A i, j \in DOMAIN Order(k) : i < j => Before(Order(k)[i], Order(k)[j])
  BY ColumnSortable, OrderLists
<1>2. DOMAIN m.listed = 1..N /\ \A i \in 1..N : m.listed[i][1] = Order(k)[i]
  BY <1>1 DEF Listed
<1>3. listed = InColumn(k) BY <1>1, <1>2
<1>4. R \in Seq(Rank) /\ Len(R) = N /\ \A i, j \in 1..N : i < j => Less(R[i], R[j])
  BY <1>1, SpreadAscends DEF Ascends
<1>5. N <= MaxId /\ MaxId \in Nat BY CardinalityOfColumn, BoardAssumption
<1>6. ASSUME NEW c \in listed PROVE pos(c) \in 1..N /\ Order(k)[pos(c)] = c
  <2>1. \E i \in DOMAIN m.listed : m.listed[i][1] = c BY <1>6
  <2>2. pos(c) \in DOMAIN m.listed /\ m.listed[pos(c)][1] = c BY <2>1, Zenon
  <2> HIDE DEF pos
  <2> QED BY <1>2, <2>2
<1> HIDE DEF pos, listed, R
<1>7. ASSUME NEW c \in listed
      PROVE  pos(c) \in Ids /\ R[pos(c)] \in Rank /\ m.listed[pos(c)] \in Ids \X Nat
  <2>1. pos(c) \in 1..N BY <1>6
  <2>2. pos(c) \in Ids BY <2>1, <1>1, <1>5 DEF Ids
  <2>3. R[pos(c)] \in Rank BY <2>1, <1>4
  <2>4. m.listed[pos(c)] \in Ids \X Nat
    <3>1. PICK l \in Seq(Ids \X Nat) : l = m.listed BY DEF Listing, Request
    <3>2. pos(c) \in DOMAIN l BY <2>1, <1>2, <3>1
    <3>3. DOMAIN l = 1..Len(l) /\ Len(l) \in Nat BY <3>1
    <3>4. l[pos(c)] \in Ids \X Nat BY <3>2, <3>3
    <3> QED BY <3>1, <3>4
  <2> QED BY <2>2, <2>3, <2>4
<1>8. ASSUME NEW c \in listed, NEW d \in listed PROVE pos(c) = pos(d) => c = d BY <1>6
<1>9. ASSUME NEW c \in listed, NEW d \in listed, pos(c) < pos(d)
      PROVE  Less(R[pos(c)], R[pos(d)]) /\ Before(c, d)
  <2>1. pos(c) \in 1..N /\ pos(d) \in 1..N BY <1>6
  <2>2. Less(R[pos(c)], R[pos(d)]) BY <2>1, <1>4, <1>9
  <2>3. Before(Order(k)[pos(c)], Order(k)[pos(d)]) BY <2>1, <1>1, <1>9
  <2> QED BY <2>2, <2>3, <1>6
<1>10. ASSUME NEW c \in listed, NEW d \in listed
       PROVE  /\ R[pos(c)] = R[pos(d)] => c = d
              /\ Less(R[pos(c)], R[pos(d)]) <=> Before(c, d)
  <2>1. R[pos(c)] \in String /\ R[pos(d)] \in String BY <1>7, RankIsString
  <2>2. pos(c) \in 1..N /\ pos(d) \in 1..N BY <1>6
  <2>3. pos(c) < pos(d) \/ pos(d) < pos(c) \/ c = d BY <2>2, <1>8, <1>1
  <2>4. Sortable(InColumn(k)) BY ColumnSortable
  <2>5. /\ ~Before(c, c) /\ (Before(c, d) => ~Before(d, c)) BY <2>4, <1>3, BeforeIsOrder
  <2>6. ~Less(R[pos(c)], R[pos(c)]) /\ ~(Less(R[pos(c)], R[pos(d)]) /\ Less(R[pos(d)], R[pos(c)]))
    BY <2>1, LessIrreflexive, LessTransitive
  <2>7. CASE pos(c) < pos(d)
    <3>1. Less(R[pos(c)], R[pos(d)]) /\ Before(c, d) BY <2>7, <1>9
    <3> QED BY <3>1, <2>6
  <2>8. CASE pos(d) < pos(c)
    <3>1. Less(R[pos(d)], R[pos(c)]) /\ Before(d, c) BY <2>8, <1>9
    <3> QED BY <3>1, <2>5, <2>6
  <2>9. CASE c = d BY <2>9, <2>5, <2>6
  <2> QED BY <2>3, <2>7, <2>8, <2>9
<1>11. m.count = N OBVIOUS
<1> HIDE DEF N
<1>12. /\ listed = InColumn(m.to) /\ m.count \in Nat
       /\ \A c \in listed : /\ pos(c) \in 1..m.count /\ pos(c) \in Ids /\ R[pos(c)] \in Rank
                            /\ m.listed[pos(c)] \in Ids \X Nat
       /\ \A c, d \in listed : pos(c) = pos(d) => c = d
       /\ \A c, d \in listed : R[pos(c)] = R[pos(d)] => c = d
       /\ \A c, d \in listed : Less(R[pos(c)], R[pos(d)]) <=> Before(c, d)
  BY <1>1, <1>3, <1>6, <1>7, <1>8, <1>10, <1>11
<1> QED BY <1>12, Zenon DEF listed, pos, R

\* Request r goes on, and what it holds agrees with the table that the step leaves.
Lead(r) == \E n : req' = [req EXCEPT ![r] = n] /\ Close(n)'

\* No rank is taken: a rebalance neither fails nor moves a card.
LEMMA RespreadLeads ==
  ASSUME Typed, UniqueIn(cards), Ranked, NEW r \in Reqs, Well(req[r]), Close(req[r]), Respread(r)
  PROVE  Lead(r) /\ Ranked' /\ SameOrder
<1> DEFINE m      == req[r]
           listed == {m.listed[i][1] : i \in DOMAIN m.listed}
           pos(c) == CHOOSE i \in DOMAIN m.listed : m.listed[i][1] = c
           R      == RebalanceRanks[m.count]
           ranked == {c \in listed : pos(c) <= m.count}
           fresh(c, row) == [row EXCEPT !.rank = R[pos(c)],
                                        !.version = m.listed[pos(c)][2] + 1]
           pass1  == [c \in Ids |-> IF c \in listed
                                    THEN [cards[c] EXCEPT !.rank = Temp(pos(c))] ELSE cards[c]]
           pass2  == [c \in Ids |-> IF c \in ranked THEN fresh(c, pass1[c]) ELSE pass1[c]]
           mine   == IF m.card \in ranked THEN fresh(m.card, m.mine)
                     ELSE IF m.card \in listed THEN [m.mine EXCEPT !.rank = Temp(pos(m.card))]
                     ELSE m.mine
           p      == Bounds(m)
           n      == [m EXCEPT !.pc = p, !.mine = mine, !.again = TRUE,
                               !.count = 0, !.listed = <<>>]
<1>1. /\ m.op = "move" /\ m.pc = "respread" /\ deps' = deps
      /\ \/ \/ \E c \in listed : ~Exists(c)
            \/ Clash(cards, pass1, listed) \/ Clash(pass1, pass2, ranked)
         \/ cards' = pass2 /\ Step(r, n)
  BY Zenon DEF Respread, At
<1>2. /\ m \in Request /\ m.card \in Ids /\ cards[m.card] # NoCard /\ m.mine = cards[m.card]
      /\ m.lo = Open /\ m.hi = Open /\ m.count = Cardinality(InColumn(m.to)) /\ Listed(m)
      /\ Aimed(m)
  BY <1>1 DEF Well, Close
<1>3. /\ listed = InColumn(m.to) /\ m.count \in Nat
      /\ \A c \in listed : /\ pos(c) \in 1..m.count /\ pos(c) \in Ids /\ R[pos(c)] \in Rank
                           /\ m.listed[pos(c)] \in Ids \X Nat
      /\ \A c, d \in listed : pos(c) = pos(d) => c = d
      /\ \A c, d \in listed : R[pos(c)] = R[pos(d)] => c = d
      /\ \A c, d \in listed : Less(R[pos(c)], R[pos(d)]) <=> Before(c, d)
  <2> HIDE DEF m
  <2> QED BY <1>2, SpreadsColumn, Zenon
<1>4. ranked = listed
  <2> HIDE DEF pos, listed
  <2> QED BY <1>3
<1> HIDE DEF pos, listed, R, ranked
<1>5. ASSUME NEW c \in listed
      PROVE  /\ c \in Ids /\ Exists(c) /\ cards[c] # NoCard /\ cards[c].col = m.to
             /\ cards[c] \in Row /\ cards[c].rank \in Rank
  <2>1. c \in Ids /\ Exists(c) /\ cards[c] # NoCard /\ cards[c].col = m.to
    BY <1>3 DEF InColumn, Exists
  <2> QED BY <2>1, RankOfCard
<1>6. ASSUME NEW c \in listed
      PROVE  pass1[c].rank = Temp(pos(c)) /\ pass1[c].col = m.to /\ pass1[c] \in Row
  <2>1. pass1[c] = [cards[c] EXCEPT !.rank = Temp(pos(c))] BY <1>5
  <2>2. Temp(pos(c)) \in AnyRank BY <1>3 DEF AnyRank
  <2> HIDE DEF pass1
  <2> QED BY <2>1, <2>2, <1>5 DEF Row
<1>7. \A c \in Ids \ listed : pass1[c] = cards[c] OBVIOUS
<1> HIDE DEF pass1
<1>8. ASSUME NEW c \in listed, NEW row \in Row
      PROVE  fresh(c, row).rank = R[pos(c)] /\ fresh(c, row).col = row.col /\ fresh(c, row) # NoCard
  <2> DEFINE v == m.listed[pos(c)][2] + 1
  <2>1. v # 0 BY <1>3
  <2>2. fresh(c, row).rank = R[pos(c)] /\ fresh(c, row).col = row.col /\ fresh(c, row).version = v
    BY DEF Row
  <2>3. NoCard.version = 0 BY DEF NoCard
  <2> HIDE DEF fresh, v
  <2> QED BY <2>1, <2>2, <2>3
<1>9. ASSUME NEW c \in listed
      PROVE  pass2[c] = fresh(c, pass1[c]) /\ fresh(c, pass1[c]) = fresh(c, cards[c])
  <2>1. c \in Ids /\ c \in ranked BY <1>4, <1>5
  <2>2. pass1[c] = [cards[c] EXCEPT !.rank = Temp(pos(c))] BY <2>1, <1>4 DEF pass1
  <2>3. fresh(c, pass1[c]) = fresh(c, cards[c]) BY <1>5, <2>2 DEF Row
  <2> HIDE DEF fresh
  <2> QED BY <2>1, <2>3
<1>10. \A c \in Ids \ listed : pass2[c] = cards[c] BY <1>4, <1>7
<1> HIDE DEF fresh, pass2
<1>11. ASSUME NEW c \in listed
       PROVE  pass2[c].rank = R[pos(c)] /\ pass2[c].col = m.to /\ pass2[c] # NoCard
  BY <1>6, <1>8, <1>9
<1>12. ~Clash(cards, pass1, listed)
  <2> SUFFICES ASSUME NEW c \in listed, NEW d \in Ids \ {c}, NEW other,
                      (other = pass1[d] /\ d \in listed) \/ other = cards[d],
                      other # NoCard, other.rank = pass1[c].rank
               PROVE  FALSE
    BY Zenon DEF Clash
  <2>1. pass1[c].rank = Temp(pos(c)) /\ pos(c) \in Ids BY <1>3, <1>6
  <2>2. CASE other = cards[d]
    <3>1. other.rank \in Rank BY <2>2, RankOfCard
    <3> QED BY <3>1, <2>1, AnyRankIsString
  <2>3. CASE other = pass1[d] /\ d \in listed
    <3>1. other.rank = Temp(pos(d)) /\ pos(d) \in Ids BY <2>3, <1>3, <1>6
    <3>2. pos(c) = pos(d) BY <2>1, <3>1, AnyRankIsString
    <3> QED BY <3>2, <1>3, <2>3
  <2> QED BY <2>2, <2>3
<1>13. ~Clash(pass1, pass2, ranked)
  <2> SUFFICES ASSUME NEW c \in listed, NEW d \in Ids \ {c}, NEW other,
                      (other = pass2[d] /\ d \in listed) \/ other = pass1[d],
                      other # NoCard, other.col = pass2[c].col, other.rank = pass2[c].rank
               PROVE  FALSE
    BY <1>4 DEF Clash
  <2>1. pass2[c].rank = R[pos(c)] /\ R[pos(c)] \in Rank /\ pass2[c].col = m.to BY <1>3, <1>11
  <2>2. CASE other = pass2[d] /\ d \in listed
    <3>1. other.rank = R[pos(d)] BY <2>2, <1>11
    <3> QED BY <2>1, <3>1, <1>3, <2>2
  <2>3. CASE other = pass1[d] /\ d \in listed
    <3>1. other.rank = Temp(pos(d)) /\ pos(d) \in Ids BY <2>3, <1>3, <1>6
    <3> QED BY <2>1, <3>1, AnyRankIsString
  <2>4. CASE other = pass1[d] /\ d \notin listed
    <3>1. other = cards[d] BY <2>4, <1>7
    <3>2. d \in InColumn(m.to) BY <3>1, <2>1, BoardAssumption DEF InColumn, Exists, Ids, None
    <3> QED BY <3>2, <2>4, <1>3
  <2> QED BY <2>2, <2>3, <2>4
<1>14. cards' = pass2 /\ Step(r, n) BY <1>1, <1>5, <1>12, <1>13
<1>15. SameOrder
  <2>1. ASSUME NEW c \in Ids
        PROVE  /\ cards'[c] = NoCard <=> cards[c] = NoCard
               /\ cards[c] # NoCard => cards'[c].col = cards[c].col
    <3>1. CASE c \in listed BY <3>1, <1>5, <1>11, <1>14
    <3>2. CASE c \notin listed BY <3>2, <1>10, <1>14
    <3> QED BY <3>1, <3>2
  <2>2. ASSUME NEW c \in Ids, NEW d \in Ids, cards[c] # NoCard, cards[d] # NoCard,
               cards[c].col = cards[d].col
        PROVE  Less(cards'[c].rank, cards'[d].rank) <=> Less(cards[c].rank, cards[d].rank)
    <3>1. c \in listed <=> d \in listed
      BY <1>3, <2>2, BoardAssumption DEF InColumn, Exists, Ids, None
    <3>2. CASE c \in listed
      <4>1. cards'[c].rank = R[pos(c)] /\ cards'[d].rank = R[pos(d)] BY <3>1, <3>2, <1>11, <1>14
      <4> QED BY <4>1, <3>1, <3>2, <1>3 DEF Before
    <3>3. CASE c \notin listed BY <3>1, <3>3, <1>10, <1>14
    <3> QED BY <3>2, <3>3
  <2> QED BY <2>1, <2>2 DEF SameOrder
<1>16. Ranked'
  <2> SUFFICES ASSUME NEW c \in Ids, cards'[c] # NoCard PROVE cards'[c].rank \in Rank
    BY DEF Ranked
  <2>1. CASE c \in listed BY <2>1, <1>3, <1>11, <1>14
  <2>2. CASE c \notin listed BY <2>2, <1>10, <1>14, RankOfCard
  <2> QED BY <2>1, <2>2
<1>17. mine = cards'[m.card] /\ cards'[m.card] # NoCard
  <2>1. CASE m.card \in listed
    <3>1. mine = fresh(m.card, m.mine) BY <2>1, <1>4
    <3> HIDE DEF mine
    <3> QED BY <2>1, <3>1, <1>2, <1>9, <1>11, <1>14
  <2>2. CASE m.card \notin listed
    <3>1. mine = m.mine BY <2>2, <1>4
    <3> HIDE DEF mine
    <3> QED BY <2>2, <3>1, <1>2, <1>10, <1>14
  <2> QED BY <2>1, <2>2
<1> HIDE DEF mine
<1>18. /\ p \in {"before", "after", "end"}
       /\ p = "after" => m.before = None
       /\ p = "end" => m.before = None /\ m.after = None
  BY DEF Bounds
<1> HIDE DEF p
<1>19. n.pc = p /\ n.op = m.op /\ n.card = m.card /\ n.to = m.to /\ n.mine = mine
  BY <1>2 DEF Request
<1>20. n.lo = m.lo /\ n.hi = m.hi /\ n.before = m.before /\ n.after = m.after
  BY <1>2 DEF Request
<1>21. PICK x : x = n OBVIOUS
<1> HIDE DEF n
<1>22. Aimed(x)'
  <2>1. SUFFICES ASSUME ~AnyAnchors PROVE Adjacent(x.card, x.to, x.before, x.after)'
    BY DEF Aimed
  <2>2. Adjacent(m.card, m.to, m.before, m.after) BY <2>1, <1>2 DEF Aimed
  <2>3. Adjacent(x.card, x.to, x.before, x.after) BY <2>2, <1>19, <1>20, <1>21
  <2> QED BY <2>3, <1>15, SameOrderAims
<1>23. Close(x)'
  BY <1>2, <1>17, <1>18, <1>19, <1>20, <1>21, <1>22 DEF Close, HalfBound
<1> QED BY <1>14, <1>15, <1>16, <1>21, <1>23 DEF Lead, Step

\* A step with the table as it was, or one that leaves no move in progress.
LEMMA FollowLeads ==
  ASSUME NEW r, Follow(r), UNCHANGED cards PROVE Lead(r) /\ (Ranked => Ranked')
<1>1. PICK n : req' = [req EXCEPT ![r] = n] /\ Close(n) BY DEF Follow
<1>2. Close(n)'
  <2>1. \A k : InColumn(k)' = InColumn(k) BY DEF InColumn, Exists
  <2>2. \A k : Order(k)' = Order(k)
    <3> SUFFICES ASSUME NEW k PROVE Order(k)' = Order(k) OBVIOUS
    <3>1. PICK S : S = InColumn(k) OBVIOUS
    <3>2. PICK t : t = cards OBVIOUS
    <3>3. InColumn(k)' = S /\ cards' = t BY <2>1, <3>1, <3>2
    <3> QED BY <3>1, <3>2, <3>3 DEF Order
  <2>3. Aimed(n)' = Aimed(n) BY <2>1 DEF Aimed, Adjacent, OrderedAt, Exists
  <2>4. /\ Landing(n)' = Landing(n) /\ HalfBound(n)' = HalfBound(n)
        /\ Listed(n)' = Listed(n)
    BY <2>2 DEF Landing, HalfBound, Listed
  <2> QED BY <1>1, <2>1, <2>3, <2>4 DEF Close
<1>3. Ranked => Ranked' BY DEF Ranked
<1> QED BY <1>1, <1>2, <1>3 DEF Lead

LEMMA OtherLeads == ASSUME NEW r, NEW n, Step(r, n), n.op # "move" PROVE Lead(r)
<1>1. Close(n)' BY DEF Close
<1> QED BY <1>1 DEF Lead, Step

LEMMA EndLeads == ASSUME NEW r, End(r) PROVE Lead(r)
<1>1. Free.op # "move" BY DEF Free
<1> QED BY <1>1, OtherLeads DEF End

LEMMA FailLeads == ASSUME NEW r, Fail(r), UNCHANGED cards, req[r].op # "move" \/ AnyAnchors
                   PROVE  Lead(r) /\ (Ranked => Ranked')
BY FailFollows, FollowLeads

\* The row that a move writes is the loaded one, with another place.
LEMMA WrittenRow ==
  ASSUME Typed, NEW m, m \in Request, m.op = "move", m.card \in Ids, m.rank \in Rank,
         m.to \in Columns, cards[m.card] # NoCard, m.mine = cards[m.card]
  PROVE  LET row == Updated(cards[m.card], m.mine, m.to, m.rank)
         IN  row.col = m.to /\ row.rank = m.rank
BY DEF Updated

\* Between neighbours there is room for a rank: the unique index lets the move through.
LEMMA LandingIsFree ==
  ASSUME NEW m, Landing(m), Adjacent(m.card, m.to, m.before, m.after), NEW d \in Ids,
         d # m.card, cards[d] # NoCard, cards[d].col = m.to, cards[d].rank = m.rank
  PROVE  FALSE
<1> DEFINE others == InColumn(m.to) \ {m.card}
<1>1. d \in others /\ Exists(d) /\ \A x \in others : Exists(x) /\ cards[x].col = m.to
  BY BoardAssumption DEF InColumn, Exists, Ids, None
<1>2. {m.before, m.after} \subseteq others \cup {None} BY Zenon DEF Adjacent
<1>3. m.before # None => OrderedAt(m.before, d) BY <1>1, <1>2 DEF Landing, OrderedAt
<1>4. m.after # None => OrderedAt(d, m.after) BY <1>1, <1>2 DEF Landing, OrderedAt
<1>5. /\ m.before = None => \A x \in others : m.after # None /\ ~OrderedAt(x, m.after)
      /\ m.after = None => \A x \in others : m.before # None /\ ~OrderedAt(m.before, x)
      /\ m.before # None /\ m.after # None =>
           \A x \in others : ~(OrderedAt(m.before, x) /\ OrderedAt(x, m.after))
  BY Zenon DEF Adjacent
<1> HIDE DEF others
<1> QED BY <1>1, <1>3, <1>4, <1>5

LEMMA WriteLeads ==
  ASSUME Typed, Ranked, NEW r \in Reqs, Well(req[r]), Close(req[r]), WriteMove(r)
  PROVE  /\ Lead(r) /\ Ranked'
         /\ \/ UNCHANGED cards /\ Fail(r)
            \/ LET m == req[r]
               IN  /\ m.op = "move" /\ m.pc = "write" /\ Landing(m) /\ m.card \in Ids
                   /\ \A c \in Ids \ {m.card} : cards'[c] = cards[c]
                   /\ cards'[m.card].rank = m.rank /\ cards'[m.card].col = m.to
                   /\ DOMAIN cards' = Ids
<1> DEFINE m   == req[r]
           row == Updated(cards[m.card], m.mine, m.to, m.rank)
           new == [cards EXCEPT ![m.card] = row]
<1>1. /\ m.op = "move" /\ m.pc = "write"
      /\ \/ /\ ~Exists(m.card) \/ Clash(cards, new, {m.card})
            /\ Fail(r) /\ UNCHANGED cards
         \/ cards' = new /\ End(r)
  BY Zenon DEF WriteMove, At
<1>2. /\ m \in Request /\ m.card \in Ids /\ m.rank \in Rank /\ m.to \in Columns
      /\ cards[m.card] # NoCard /\ m.mine = cards[m.card] /\ Landing(m) /\ Aimed(m)
  BY <1>1 DEF Well, Close
<1>3. row.col = m.to /\ row.rank = m.rank BY <1>1, <1>2, WrittenRow
<1> HIDE DEF row
<1>4. /\ new[m.card] = row /\ DOMAIN new = Ids /\ \A c \in Ids \ {m.card} : new[c] = cards[c]
  BY <1>2 DEF Typed
<1> HIDE DEF new
<1>5. CASE cards' = new /\ End(r)
  <2>1. Lead(r) BY <1>5, EndLeads
  <2>2. Ranked' BY <1>2, <1>3, <1>4, <1>5 DEF Ranked
  <2> QED BY <1>1, <1>2, <1>3, <1>4, <1>5, <2>1, <2>2
<1>6. CASE /\ ~Exists(m.card) \/ Clash(cards, new, {m.card})
           /\ Fail(r) /\ UNCHANGED cards
  <2>1. Exists(m.card) BY <1>2, BoardAssumption DEF Exists, Ids, None
  <2>2. AnyAnchors
    <3> SUFFICES ASSUME ~AnyAnchors PROVE FALSE OBVIOUS
    <3>1. PICK d \in Ids \ {m.card} :
            cards[d] # NoCard /\ cards[d].col = new[m.card].col /\ cards[d].rank = new[m.card].rank
      BY <1>6, <2>1 DEF Clash
    <3>2. Adjacent(m.card, m.to, m.before, m.after) BY <1>2 DEF Aimed
    <3>3. cards[d].col = m.to /\ cards[d].rank = m.rank BY <3>1, <1>3, <1>4
    <3> HIDE DEF m
    <3> QED BY <1>2, <3>1, <3>2, <3>3, LandingIsFree
  <2> QED BY <1>6, <2>1, <2>2, FailLeads
<1> QED BY <1>1, <1>5, <1>6

\* What the other requests write has a rank of its own, too.
LEMMA OtherWritesLead ==
  ASSUME Typed, Ranked, NEW r \in Reqs, Well(req[r]),
         InsertCard(r) \/ WriteEdit(r) \/ DeleteCard(r)
  PROVE  Lead(r) /\ Ranked'
<1> DEFINE m == req[r]
<1>1. CASE InsertCard(r)
  <2> DEFINE id  == CHOOSE c \in Ids : /\ \A d \in Ids : Exists(d) => d < c
                                       /\ c = 1 \/ Exists(c - 1)
             row == [col |-> m.to, rank |-> m.rank, version |-> 1]
             new == [cards EXCEPT ![id] = row]
  <2>1. /\ m.op = "create" /\ m.pc = "insert"
        /\ (Fail(r) /\ UNCHANGED cards) \/ (cards' = new /\ End(r))
    BY <1>1, Zenon DEF InsertCard, At
  <2>2. row.rank \in Rank BY <2>1 DEF Well
  <2> HIDE DEF id, row
  <2>3. \A c \in Ids : new[c] = cards[c] \/ new[c] = row BY DEF Typed
  <2> HIDE DEF new
  <2>4. CASE Fail(r) /\ UNCHANGED cards BY <2>1, <2>4, FailLeads
  <2>5. CASE cards' = new /\ End(r) BY <2>2, <2>3, <2>5, EndLeads DEF Ranked
  <2> QED BY <2>1, <2>4, <2>5
<1>2. CASE WriteEdit(r)
  <2> DEFINE v == m.mine.version + 1
             row == [cards[m.card] EXCEPT !.version = v]
  <2>1. /\ m.op = "edit" /\ m.pc = "write"
        /\ \/ Fail(r) /\ UNCHANGED cards
           \/ /\ End(r) /\ Exists(m.card)
              /\ cards' = [cards EXCEPT ![m.card] = [cards[m.card] EXCEPT !.version = v]]
    BY <1>2, Zenon DEF WriteEdit, At
  <2>2. CASE Fail(r) /\ UNCHANGED cards BY <2>1, <2>2, FailLeads
  <2>3. CASE End(r) /\ Exists(m.card) /\ cards' = [cards EXCEPT ![m.card] = row]
    <3>1. m.card \in Ids BY <2>1 DEF Well
    <3>2. cards[m.card] \in Row /\ cards[m.card].rank \in Rank
      BY <3>1, <2>3, RankOfCard DEF Exists
    <3>3. row.rank = cards[m.card].rank BY <3>2 DEF Row
    <3> HIDE DEF row
    <3>4. Ranked' BY <2>3, <3>1, <3>2, <3>3 DEF Ranked, Typed
    <3> QED BY <2>3, <3>4, EndLeads
  <2> QED BY <2>1, <2>2, <2>3
<1>3. CASE DeleteCard(r)
  <2>1. /\ m.op = "delete" /\ m.pc = "write"
        /\ \/ Fail(r) /\ UNCHANGED cards
           \/ End(r) /\ cards' = [cards EXCEPT ![m.card] = NoCard]
    BY <1>3, Zenon DEF DeleteCard, At
  <2>2. CASE Fail(r) /\ UNCHANGED cards BY <2>1, <2>2, FailLeads
  <2>3. CASE End(r) /\ cards' = [cards EXCEPT ![m.card] = NoCard]
    <3>1. Ranked' BY <2>3 DEF Ranked, Typed
    <3> QED BY <2>3, <3>1, EndLeads
  <2> QED BY <2>1, <2>2, <2>3
<1> QED BY <1>1, <1>2, <1>3

LEMMA QuietOtherLeads ==
  ASSUME NEW r \in Reqs, Well(req[r]),
         ReadTail(r) \/ LoadEdit(r) \/ LoadDelete(r) \/ LoadLink(r) \/ CheckCycle(r)
           \/ AddDep(r) \/ RemoveDep(r)
  PROVE  Lead(r) /\ UNCHANGED cards
<1> DEFINE m == req[r]
<1>0. m \in Request BY DEF Well
<1>1. /\ m.op \in {"create", "edit", "delete", "link", "unlink"} /\ UNCHANGED cards
      /\ \/ End(r) \/ Fail(r)
         \/ \E p, x : Step(r, [m EXCEPT !.pc = p, !.rank = x])
         \/ \E p, x : Step(r, [[m EXCEPT !.mine = x] EXCEPT !.pc = p])
         \/ \E p : Step(r, [m EXCEPT !.pc = p])
  BY Zenon DEF ReadTail, LoadEdit, LoadDelete, LoadLink, CheckCycle, AddDep, RemoveDep, At
<1>2. \A p, x : /\ [m EXCEPT !.pc = p, !.rank = x].op = m.op
                /\ [[m EXCEPT !.mine = x] EXCEPT !.pc = p].op = m.op
                /\ [m EXCEPT !.pc = p].op = m.op
  BY <1>0 DEF Request
<1>3. CASE End(r) \/ Fail(r) BY <1>1, <1>3, EndLeads, FailLeads
<1>4. CASE \E n : Step(r, n) /\ n.op = m.op BY <1>1, <1>4, OtherLeads
<1>5. End(r) \/ Fail(r) \/ \E n : Step(r, n) /\ n.op = m.op
  <2>1. PICK p, x :
          \/ End(r) \/ Fail(r)
          \/ Step(r, [m EXCEPT !.pc = p, !.rank = x])
          \/ Step(r, [[m EXCEPT !.mine = x] EXCEPT !.pc = p])
          \/ Step(r, [m EXCEPT !.pc = p])
    BY <1>1, Zenon
  <2> DEFINE a == [m EXCEPT !.pc = p, !.rank = x]
             b == [[m EXCEPT !.mine = x] EXCEPT !.pc = p]
             c == [m EXCEPT !.pc = p]
  <2>2. a.op = m.op /\ b.op = m.op /\ c.op = m.op BY <1>2
  <2>3. End(r) \/ Fail(r) \/ Step(r, a) \/ Step(r, b) \/ Step(r, c) BY <2>1
  <2> HIDE DEF a, b, c
  <2> QED BY <2>2, <2>3
<1> QED BY <1>1, <1>3, <1>4, <1>5

AllClose == \A r \in Reqs : Close(req[r])

\* What a request that is served alone does to the table.
LEMMA StepIsClose ==
  ASSUME TypesHold, Ranked, NEW r \in Reqs, Close(req[r]),
         Submit(r) \/ MoveStep(r) \/ OtherStep(r)
  PROVE  Lead(r) /\ Ranked'
<1>1. /\ Typed /\ UniqueIn(cards) /\ Well(req[r])
  BY DEF TypesHold, AllWell
<1>2. CASE Submit(r)
  <2>1. UNCHANGED cards BY <1>2 DEF Submit
  <2> QED BY <1>2, <2>1, SubmitFollows, FollowLeads
<1>3. CASE \/ LoadMove(r) \/ ReadDeps(r) \/ CheckDep(r) \/ ReadBefore(r) \/ ReadAfter(r)
           \/ ReadEnd(r) \/ CountCards(r) \/ ListCards(r) \/ CountWip(r)
  <2>1. UNCHANGED cards
    BY <1>3, Zenon DEF LoadMove, ReadDeps, CheckDep, ReadBefore, ReadAfter, ReadEnd, CountCards,
                ListCards, CountWip
  <2> QED BY <1>1, <1>3, <2>1, QuietMoveFollows, FollowLeads
<1>4. CASE \/ ReadTail(r) \/ LoadEdit(r) \/ LoadDelete(r) \/ LoadLink(r) \/ CheckCycle(r)
           \/ AddDep(r) \/ RemoveDep(r)
  <2>1. Lead(r) /\ UNCHANGED cards BY <1>1, <1>4, QuietOtherLeads
  <2>2. Ranked' BY <2>1 DEF Ranked
  <2> QED BY <2>1, <2>2
<1>5. CASE InsertCard(r) \/ WriteEdit(r) \/ DeleteCard(r) BY <1>1, <1>5, OtherWritesLead
<1>6. CASE WriteMove(r) BY <1>1, <1>6, WriteLeads
<1>7. CASE Respread(r) BY <1>1, <1>7, RespreadLeads
<1> QED BY <1>2, <1>3, <1>4, <1>5, <1>6, <1>7, Zenon DEF MoveStep, OtherStep

\* Served one after the other, requests work on the table as it is.
Alone == TypesHold /\ AllClose /\ Ranked

LEMMA AloneFirst == ASSUME Init PROVE Alone
<1>1. AllClose
  <2>1. \A r \in Reqs : req[r] = Free BY DEF Init
  <2>2. Close(Free) BY OtherIsClose DEF Free
  <2> QED BY <2>1, <2>2 DEF AllClose
<1>2. Ranked BY DEF Init, Ranked
<1> QED BY <1>1, <1>2, TypesHoldFirst DEF Alone

LEMMA AloneNext ==
  ASSUME \A q, r \in Reqs : q = r, Alone, [Next]_vars PROVE Alone'
<1>1. TypesHold' BY TypesHoldNext DEF Alone
<1>2. CASE Next
  <2>1. PICK r \in Reqs : Submit(r) \/ MoveStep(r) \/ OtherStep(r) BY <1>2 DEF Next
  <2>2. Lead(r) /\ Ranked' BY <2>1, StepIsClose DEF Alone, AllClose
  <2>3. PICK n : req' = [req EXCEPT ![r] = n] /\ Close(n)' BY <2>2 DEF Lead
  <2>4. \A q \in Reqs : req'[q] = n BY <2>3 DEF Alone, TypesHold, AllWell
  <2>5. \A q \in Reqs : Close(req[q])' BY <2>3, <2>4 DEF Close, Landing, HalfBound, Listed, Aimed
  <2>6. AllClose' BY <2>5 DEF AllClose
  <2> QED BY <1>1, <2>2, <2>6 DEF Alone
<1>3. CASE UNCHANGED vars
  <2>1. UNCHANGED cards /\ UNCHANGED req BY <1>3 DEF vars
  <2>2. \A q \in Reqs : Close(req[q])'
    <3> SUFFICES ASSUME NEW q \in Reqs PROVE Close(req[q])' OBVIOUS
    <3>1. Follow(q)
      <4>1. req' = [req EXCEPT ![q] = req[q]] BY <2>1 DEF Alone, TypesHold, AllWell
      <4> QED BY <4>1 DEF Follow, Alone, AllClose
    <3>2. PICK n : req' = [req EXCEPT ![q] = n] /\ Close(n)' BY <2>1, <3>1, FollowLeads DEF Lead
    <3>3. req'[q] = n BY <3>2 DEF Alone, TypesHold, AllWell
    <3> QED BY <3>2, <3>3 DEF Close, Landing, HalfBound, Listed, Aimed
  <2>3. AllClose' BY <2>2 DEF AllClose
  <2>4. Ranked' BY <2>1 DEF Alone, Ranked
  <2> QED BY <1>1, <2>3, <2>4 DEF Alone
<1> QED BY <1>2, <1>3

\* RebalanceIsSafe: with one request at a time and anchors from the latest view of the
\* board no move dies of a rank that is taken, and no rebalance leaves a temporary one.
THEOREM RebalanceIsSafeAlways ==
  ASSUME \A q, r \in Reqs : q = r, ~AnyAnchors
  PROVE  Spec => []RebalanceIsSafe
<1>1. Init => Alone BY AloneFirst
<1>2. Alone /\ [Next]_vars => Alone' BY AloneNext
<1>3. Alone => RebalanceIsSafe
  <2> SUFFICES ASSUME Alone PROVE RebalanceIsSafe OBVIOUS
  <2>1. MoveNeverFails BY DEF Alone, AllClose, Close, MoveNeverFails
  <2>2. NoTempRank BY AnyRankIsString DEF Alone, Ranked, NoTempRank, Exists
  <2> QED BY <2>1, <2>2 DEF RebalanceIsSafe
<1> QED BY <1>1, <1>2, <1>3, PTL DEF Spec

\* A move is answered by the step that writes it.
LEMMA LandsWhereAimed ==
  ASSUME Alone, Next, \A q, r \in Reqs : q = r, NEW r \in Reqs,
         At(r, "move", "write"), req'[r] = Free
  PROVE  LET m == req[r]
             here(a) == a # None /\ cards'[a] # NoCard /\ cards'[a].col = m.to
         IN  /\ here(m.before) => Less(cards'[m.before].rank, cards'[m.card].rank)
             /\ here(m.after) => Less(cards'[m.card].rank, cards'[m.after].rank)
<1> DEFINE m == req[r]
<1>1. Submit(r) \/ MoveStep(r) \/ OtherStep(r) BY DEF Next
<1>2. m.op = "move" /\ m.pc = "write" BY DEF At
<1>3. WriteMove(r)
  BY <1>1, <1>2, Zenon DEF Submit, MoveStep, OtherStep, LoadMove, ReadDeps, CheckDep, ReadBefore,
       ReadAfter, ReadEnd, CountCards, ListCards, Respread, CountWip, ReadTail, InsertCard,
       LoadEdit, WriteEdit, LoadDelete, DeleteCard, LoadLink, CheckCycle, AddDep, RemoveDep, At
<1>4. Typed /\ Ranked /\ Well(req[r]) /\ Close(req[r])
  BY DEF Alone, TypesHold, AllWell, AllClose
<1>5. ~Fail(r)
  <2>1. [Free EXCEPT !.pc = "failed", !.op = m.op].pc = "failed" /\ Free.pc = "free" BY DEF Free
  <2>2. r \in DOMAIN req BY DEF Alone, TypesHold, AllWell
  <2> QED BY <2>1, <2>2 DEF Fail, Step
<1>6. /\ Landing(m) /\ \A c \in Ids \ {m.card} : cards'[c] = cards[c]
      /\ cards'[m.card].rank = m.rank
  BY <1>3, <1>4, <1>5, WriteLeads
<1>7. m.before \in Ids \cup {None} /\ m.after \in Ids \cup {None} BY <1>4 DEF Well, Request
<1> QED BY <1>6, <1>7 DEF Landing

\* LandsBetween: whatever anchors a client names, a move that succeeds leaves its card
\* between those that are in the column, as long as requests come one at a time.
THEOREM LandsBetweenAlways ==
  ASSUME \A q, r \in Reqs : q = r
  PROVE  Spec => LandsBetween
<1> DEFINE Lands ==
             \A r \in Reqs :
               LET m == req[r]
                   here(a) == a # None /\ cards'[a] # NoCard /\ cards'[a].col = m.to
               IN  At(r, "move", "write") /\ req'[r] = Free =>
                     /\ here(m.before) => Less(cards'[m.before].rank, cards'[m.card].rank)
                     /\ here(m.after) => Less(cards'[m.card].rank, cards'[m.after].rank)
<1>1. Init => Alone BY AloneFirst
<1>2. Alone /\ [Next]_vars => Alone' BY AloneNext
<1>3. Alone /\ [Next]_vars => [Lands]_vars
  <2> SUFFICES ASSUME Alone, Next PROVE Lands OBVIOUS
  <2> QED BY LandsWhereAimed
<1>4. Spec => [][Lands]_vars BY <1>1, <1>2, <1>3, PTL DEF Spec
<1> QED BY <1>4 DEF LandsBetween

-----------------------------------------------------------------------------
(* Columns as sequences *)

\* s lists the cards of S in the order of their ranks.
Lists(s, S) ==
  /\ s \in Seq(Ids)
  /\ \A i \in 1..Len(s) : s[i] \in S
  /\ \A c \in S : \E i \in 1..Len(s) : s[i] = c
  /\ \A i, j \in 1..Len(s) : i < j => Before(s[i], s[j])

\* There is one such list.
LEMMA SameFirst ==
  ASSUME NEW S, Sortable(S), NEW s, NEW t, Lists(s, S), Lists(t, S)
  PROVE  \A n \in 1..Len(s) : n \in 1..Len(t) /\ s[n] = t[n]
<1> DEFINE T == {n \in Nat : \A i \in 1..Len(s) : i <= n => i \in 1..Len(t) /\ s[i] = t[i]}
<1>0. Len(s) \in Nat /\ Len(t) \in Nat BY DEF Lists
<1>1. 0 \in T BY <1>0
<1>2. ASSUME NEW n \in Nat, n \in T PROVE n + 1 \in T
  <2> DEFINE i == n + 1
  <2>1. CASE i \notin 1..Len(s)
    <3>1. \A j \in 1..Len(s) : j <= n + 1 => j <= n BY <1>0, <2>1
    <3> QED BY <1>2, <3>1
  <2>2. CASE i \in 1..Len(s)
    <3>1. PICK l \in 1..Len(t) : t[l] = s[i] BY <2>2 DEF Lists
    <3>2. ASSUME l < i PROVE FALSE
      <4>1. l \in 1..Len(s) /\ l <= n BY <1>0, <2>2, <3>1, <3>2
      <4>2. s[l] = t[l] BY <1>2, <4>1
      <4>3. Before(s[l], s[i]) /\ s[i] \in S BY <2>2, <3>2, <4>1 DEF Lists
      <4> QED BY <3>1, <4>2, <4>3, BeforeIsOrder
    <3>3. i \in 1..Len(t) BY <1>0, <2>2, <3>1, <3>2
    <3>4. ASSUME i < l PROVE FALSE
      <4>1. Before(t[i], t[l]) /\ t[i] \in S /\ t[l] \in S BY <3>1, <3>3, <3>4 DEF Lists
      <4>2. PICK j \in 1..Len(s) : s[j] = t[i] BY <4>1 DEF Lists
      <4>3. CASE j < i
        <5>1. j <= n BY <4>2, <4>3, <1>0
        <5>2. j \in 1..Len(t) /\ s[j] = t[j] BY <1>2, <4>2, <5>1
        <5>3. Before(t[j], t[i]) BY <3>3, <4>3, <5>2 DEF Lists
        <5> QED BY <4>1, <4>2, <5>2, <5>3, BeforeIsOrder
      <4>4. CASE j = i BY <4>1, <4>2, <4>4, <3>1, BeforeIsOrder
      <4>5. CASE i < j
        <5>1. Before(s[i], s[j]) BY <2>2, <4>2, <4>5 DEF Lists
        <5> QED BY <5>1, <4>1, <4>2, <3>1, BeforeIsOrder
      <4> QED BY <4>2, <4>3, <4>4, <4>5, <1>0
    <3>5. s[i] = t[i] BY <1>0, <3>1, <3>2, <3>4
    <3>6. ASSUME NEW j \in 1..Len(s), j <= n + 1 PROVE j \in 1..Len(t) /\ s[j] = t[j]
      <4>1. j <= n \/ j = i BY <1>0, <3>6
      <4> HIDE DEF i
      <4> QED BY <4>1, <3>3, <3>5, <3>6, <1>2
    <3> QED BY <3>6
  <2> QED BY <2>1, <2>2
<1> HIDE DEF T
<1>3. \A n \in Nat : n \in T BY <1>1, <1>2, SetInduction
<1> QED BY <1>0, <1>3 DEF T

LEMMA ListIsUnique ==
  ASSUME NEW S, Sortable(S), NEW s, NEW t, Lists(s, S), Lists(t, S)
  PROVE  s = t
<1>1. s \in Seq(Ids) /\ t \in Seq(Ids) BY DEF Lists
<1>2. /\ \A n \in 1..Len(s) : n \in 1..Len(t) /\ s[n] = t[n]
      /\ \A n \in 1..Len(t) : n \in 1..Len(s) /\ s[n] = t[n]
  BY SameFirst
<1>3. Len(s) \in Nat /\ Len(t) \in Nat BY <1>1
<1>4. Len(s) = Len(t)
  <2>1. Len(s) # 0 => Len(s) \in 1..Len(t) BY <1>2, <1>3
  <2>2. Len(t) # 0 => Len(t) \in 1..Len(s) BY <1>2, <1>3
  <2> QED BY <2>1, <2>2, <1>3
<1> QED BY <1>1, <1>2, <1>4

\* Order lists the column, and nothing else does.
Sorted ==
  \A k : /\ Sortable(InColumn(k)) /\ Lists(Order(k), InColumn(k))
         /\ Len(Order(k)) = Cardinality(InColumn(k))
         /\ \A s : Lists(s, InColumn(k)) => s = Order(k)

LEMMA ColumnsSorted == Typed /\ UniqueIn(cards) => Sorted
<1> SUFFICES ASSUME Typed, UniqueIn(cards), NEW k
             PROVE  /\ Sortable(InColumn(k)) /\ Lists(Order(k), InColumn(k))
                    /\ Len(Order(k)) = Cardinality(InColumn(k))
                    /\ \A s : Lists(s, InColumn(k)) => s = Order(k)
  BY DEF Sorted
<1> DEFINE n == Cardinality(InColumn(k))
<1>1. Sortable(InColumn(k)) BY ColumnSortable
<1>2. /\ n \in Nat /\ DOMAIN Order(k) = 1..n
      /\ \A i \in DOMAIN Order(k) : Order(k)[i] \in InColumn(k)
      /\ \A c \in InColumn(k) : \E i \in DOMAIN Order(k) : Order(k)[i] = c
      /\ \A i, j \in DOMAIN Order(k) : i < j => Before(Order(k)[i], Order(k)[j])
  BY <1>1, OrderLists
<1>3. PICK f : Order(k) = [i \in 1..n |-> f[i]]
  <2> DEFINE at(i) == CHOOSE c \in InColumn(k) :
                        Cardinality({d \in InColumn(k) : Less(cards[d].rank, cards[c].rank)}) = i - 1
             g == [i \in 1..n |-> at(i)]
  <2>1. Order(k) = g BY Zenon DEF Order
  <2> HIDE DEF at
  <2>2. g = [i \in 1..n |-> g[i]] OBVIOUS
  <2> QED BY <2>1, <2>2
<1>4. InColumn(k) \subseteq Ids BY DEF InColumn
<1> HIDE DEF n
<1>5. Order(k) \in [1..n -> Ids] BY <1>2, <1>3, <1>4
<1>6. Order(k) \in Seq(Ids) /\ Len(Order(k)) = n BY <1>2, <1>5
<1>7. Lists(Order(k), InColumn(k)) BY <1>2, <1>6 DEF Lists
<1> QED BY <1>1, <1>6, <1>7, ListIsUnique DEF n

\* After a step, too.
LEMMA ColumnsSortedNext == (Typed /\ UniqueIn(cards))' => Sorted'
BY ColumnsSorted, PTL

\* u is s without c: the other elements, in the same order.
Thins(u, s, c) ==
  /\ u \in Seq(Ids)
  /\ \A i \in 1..Len(u) : \E p \in 1..Len(s) : u[i] = s[p] /\ s[p] # c
  /\ \A p \in 1..Len(s) : s[p] # c => \E i \in 1..Len(u) : u[i] = s[p]
  /\ \A i, j \in 1..Len(u) : i < j =>
       \E p, q \in 1..Len(s) : p < q /\ u[i] = s[p] /\ u[j] = s[q]

LEMMA WithoutThins ==
  ASSUME NEW s \in Seq(Ids), NEW c, \A i, j \in 1..Len(s) : s[i] = s[j] => i = j
  PROVE  Thins(Board!Without(s, c), s, c)
<1> DEFINE p == CHOOSE i \in DOMAIN s : s[i] = c
           u == Board!Without(s, c)
           n == Len(s)
<1>0. n \in Nat /\ DOMAIN s = 1..n /\ \A i \in 1..n : s[i] \in Ids OBVIOUS
<1> SUFFICES Thins(u, s, c) OBVIOUS
<1>1. CASE ~\E i \in 1..n : s[i] = c
  <2>1. u = s BY <1>0, <1>1 DEF Board!Without, Board!ToSet
  <2> HIDE DEF u
  <2> QED BY <1>1, <2>1 DEF Thins
<1>2. CASE \E i \in 1..n : s[i] = c
  <2>1. p \in 1..n /\ s[p] = c BY <1>0, <1>2, Zenon
  <2>2. u = SubSeq(s, 1, p - 1) \o SubSeq(s, p + 1, n)
    BY <1>0, <1>2 DEF Board!Without, Board!ToSet, Board!RemoveAt
  <2> HIDE DEF p, u
  <2> DEFINE a == SubSeq(s, 1, p - 1)
             b == SubSeq(s, p + 1, n)
  <2>3. /\ a \in Seq(Ids) /\ Len(a) = p - 1 /\ \A i \in 1..(p - 1) : a[i] = s[i]
    <3>1. \A i \in 1..(p - 1) : s[i] \in Ids BY <1>0, <2>1
    <3>2. /\ a \in Seq(Ids) /\ Len(a) = IF 1 <= p - 1 THEN (p - 1) - 1 + 1 ELSE 0
          /\ \A i \in 1..((p - 1) - 1 + 1) : a[i] = s[1 + i - 1]
      BY <1>0, <2>1, <3>1, SubSeqProperties
    <3> HIDE DEF a
    <3> QED BY <1>0, <2>1, <3>2
  <2>4. /\ b \in Seq(Ids) /\ Len(b) = n - p /\ \A i \in 1..(n - p) : b[i] = s[p + i]
    <3>1. \A i \in (p + 1)..n : s[i] \in Ids BY <1>0, <2>1
    <3>2. /\ b \in Seq(Ids) /\ Len(b) = IF p + 1 <= n THEN n - (p + 1) + 1 ELSE 0
          /\ \A i \in 1..(n - (p + 1) + 1) : b[i] = s[(p + 1) + i - 1]
      BY <1>0, <2>1, <3>1, SubSeqProperties
    <3> HIDE DEF b, n
    <3>3. Len(b) = n - p BY <1>0, <2>1, <3>2
    <3>4. ASSUME NEW i \in 1..(n - p) PROVE b[i] = s[p + i]
      <4>1. i \in 1..(n - (p + 1) + 1) /\ (p + 1) + i - 1 = p + i BY <1>0, <2>1
      <4> QED BY <3>2, <4>1
    <3> QED BY <3>2, <3>3, <3>4
  <2> HIDE DEF a, b, n
  <2>5. /\ u \in Seq(Ids) /\ Len(u) = Len(a) + Len(b)
        /\ \A i \in 1..(Len(a) + Len(b)) : u[i] = IF i <= Len(a) THEN a[i] ELSE b[i - Len(a)]
    BY <2>2, <2>3, <2>4, ConcatProperties DEF a, b, n
  <2> DEFINE at(i) == IF i < p THEN i ELSE i + 1
  <2>6. /\ Len(u) = n - 1
        /\ \A i \in 1..(n - 1) : u[i] = s[at(i)] /\ at(i) \in 1..n /\ at(i) # p
    <3>1. Len(u) = n - 1 BY <1>0, <2>1, <2>3, <2>4, <2>5
    <3>2. ASSUME NEW i \in 1..(n - 1) PROVE u[i] = s[at(i)] /\ at(i) \in 1..n /\ at(i) # p
      <4>1. CASE i < p
        <5>1. i \in 1..(Len(a) + Len(b)) /\ i <= Len(a) BY <1>0, <2>1, <2>3, <2>4, <4>1
        <5>2. u[i] = a[i] /\ a[i] = s[i] BY <5>1, <2>1, <2>3, <2>5, <4>1
        <5> QED BY <5>2, <1>0, <2>1, <4>1
      <4>2. CASE ~(i < p)
        <5>1. i \in 1..(Len(a) + Len(b)) /\ ~(i <= Len(a)) BY <1>0, <2>1, <2>3, <2>4, <4>2
        <5>2. u[i] = b[i - Len(a)] BY <5>1, <2>5
        <5>3. i - Len(a) \in 1..(n - p) /\ p + (i - Len(a)) = i + 1
          BY <1>0, <2>1, <2>3, <4>2
        <5>4. u[i] = s[i + 1] BY <5>2, <5>3, <2>4
        <5> QED BY <5>4, <1>0, <2>1, <4>2
      <4> QED BY <4>1, <4>2
    <3> QED BY <3>1, <3>2
  <2>7. \A i \in 1..Len(u) : \E q \in 1..n : u[i] = s[q] /\ s[q] # c
    <3> SUFFICES ASSUME NEW i \in 1..(n - 1) PROVE s[at(i)] # c BY <2>6
    <3>1. at(i) \in 1..n /\ at(i) # p BY <2>6
    <3> HIDE DEF at
    <3> QED BY <3>1, <2>1 DEF n
  <2>8. ASSUME NEW q \in 1..n, s[q] # c PROVE \E i \in 1..Len(u) : u[i] = s[q]
    <3>1. q # p BY <2>1, <2>8
    <3>2. CASE q < p
      <4>1. q \in 1..(n - 1) /\ at(q) = q BY <1>0, <2>1, <3>2
      <4> QED BY <4>1, <2>6
    <3>3. CASE p < q
      <4>1. q - 1 \in 1..(n - 1) /\ at(q - 1) = q BY <1>0, <2>1, <3>3
      <4> QED BY <4>1, <2>6
    <3> QED BY <1>0, <2>1, <3>1, <3>2, <3>3
  <2>9. ASSUME NEW i \in 1..Len(u), NEW j \in 1..Len(u), i < j
        PROVE  \E q, r \in 1..n : q < r /\ u[i] = s[q] /\ u[j] = s[r]
    <3>1. at(i) < at(j) BY <1>0, <2>1, <2>6, <2>9
    <3>2. at(i) \in 1..n /\ at(j) \in 1..n /\ u[i] = s[at(i)] /\ u[j] = s[at(j)] BY <2>6
    <3> HIDE DEF at
    <3> QED BY <3>1, <3>2
  <2> QED BY <2>5, <2>7, <2>8, <2>9 DEF Thins, n
<1> QED BY <1>1, <1>2

LEMMA InsertAtIs ==
  ASSUME NEW u \in Seq(Ids), NEW c \in Ids, NEW i \in 1..(Len(u) + 1)
  PROVE  LET t == Board!InsertAt(u, i, c)
         IN  /\ t \in Seq(Ids) /\ Len(t) = Len(u) + 1
             /\ \A j \in 1..(Len(u) + 1) :
                  t[j] = IF j < i THEN u[j] ELSE IF j = i THEN c ELSE u[j - 1]
<1> DEFINE t == Board!InsertAt(u, i, c)
           n == Len(u)
           a == SubSeq(u, 1, i - 1)
           b == SubSeq(u, i, n)
           m == a \o <<c>>
<1>0. n \in Nat /\ i \in 1..(n + 1) /\ \A j \in 1..n : u[j] \in Ids OBVIOUS
<1>1. t = m \o b BY DEF Board!InsertAt
<1>2. a \in Seq(Ids) /\ Len(a) = i - 1 /\ \A j \in 1..(i - 1) : a[j] = u[j]
  <2>1. \A j \in 1..(i - 1) : u[j] \in Ids BY <1>0
  <2>2. /\ a \in Seq(Ids) /\ Len(a) = IF 1 <= i - 1 THEN (i - 1) - 1 + 1 ELSE 0
        /\ \A j \in 1..((i - 1) - 1 + 1) : a[j] = u[1 + j - 1]
    BY <1>0, <2>1, SubSeqProperties
  <2> HIDE DEF a
  <2> QED BY <1>0, <2>2
<1>3. b \in Seq(Ids) /\ Len(b) = n - i + 1 /\ \A j \in 1..(n - i + 1) : b[j] = u[i + j - 1]
  <2>1. \A j \in i..n : u[j] \in Ids BY <1>0
  <2>2. /\ b \in Seq(Ids) /\ Len(b) = IF i <= n THEN n - i + 1 ELSE 0
        /\ \A j \in 1..(n - i + 1) : b[j] = u[i + j - 1]
    BY <1>0, <2>1, SubSeqProperties
  <2> HIDE DEF b
  <2> QED BY <1>0, <2>2
<1> HIDE DEF a, b, n
<1>4. /\ m \in Seq(Ids) /\ Len(m) = i
      /\ \A j \in 1..i : m[j] = IF j < i THEN u[j] ELSE c
  <2>1. <<c>> \in Seq(Ids) /\ Len(<<c>>) = 1 /\ <<c>>[1] = c OBVIOUS
  <2>2. /\ m \in Seq(Ids) /\ Len(m) = Len(a) + Len(<<c>>)
        /\ \A j \in 1..(Len(a) + Len(<<c>>)) :
             m[j] = IF j <= Len(a) THEN a[j] ELSE <<c>>[j - Len(a)]
    BY <1>2, <2>1, ConcatProperties
  <2> HIDE DEF m
  <2>3. Len(m) = i BY <1>0, <1>2, <2>1, <2>2
  <2>4. ASSUME NEW j \in 1..i PROVE m[j] = IF j < i THEN u[j] ELSE c
    <3>1. j \in 1..(Len(a) + Len(<<c>>)) BY <1>0, <1>2, <2>1
    <3>2. CASE j < i
      <4>1. j <= Len(a) /\ j \in 1..(i - 1) BY <1>0, <1>2, <3>2
      <4> QED BY <3>1, <3>2, <4>1, <1>2, <2>2
    <3>3. CASE j = i
      <4>1. ~(j <= Len(a)) /\ j - Len(a) = 1 BY <1>0, <1>2, <3>3
      <4>2. m[j] = <<c>>[j - Len(a)] BY <3>1, <4>1, <2>2
      <4> QED BY <4>1, <4>2, <2>1, <3>3, <1>0
    <3> QED BY <1>0, <3>2, <3>3
  <2> QED BY <2>2, <2>3, <2>4
<1> HIDE DEF m, t
<1>5. /\ t \in Seq(Ids) /\ Len(t) = Len(m) + Len(b)
      /\ \A j \in 1..(Len(m) + Len(b)) : t[j] = IF j <= Len(m) THEN m[j] ELSE b[j - Len(m)]
  BY <1>1, <1>3, <1>4, ConcatProperties
<1>6. Len(t) = n + 1 BY <1>0, <1>3, <1>4, <1>5
<1>7. ASSUME NEW j \in 1..(n + 1)
      PROVE  t[j] = IF j < i THEN u[j] ELSE IF j = i THEN c ELSE u[j - 1]
  <2>1. j \in 1..(Len(m) + Len(b)) BY <1>0, <1>3, <1>4
  <2>2. CASE j <= i
    <3>1. t[j] = m[j] /\ j \in 1..i BY <1>0, <1>4, <1>5, <2>1, <2>2
    <3> QED BY <3>1, <1>4, <1>0, <2>2
  <2>3. CASE i < j
    <3>1. ~(j <= Len(m)) BY <1>0, <1>4, <2>3
    <3>2. t[j] = b[j - Len(m)] BY <1>5, <2>1, <3>1
    <3>3. j - Len(m) \in 1..(n - i + 1) /\ i + (j - Len(m)) - 1 = j - 1
      BY <1>0, <1>4, <2>3
    <3>4. t[j] = u[j - 1] BY <3>2, <3>3, <1>3
    <3> QED BY <3>4, <2>3, <1>0
  <2> QED BY <1>0, <2>2, <2>3
<1>8. /\ t \in Seq(Ids) /\ Len(t) = n + 1
      /\ \A j \in 1..(n + 1) :
           t[j] = IF j < i THEN u[j] ELSE IF j = i THEN c ELSE u[j - 1]
  BY <1>5, <1>6, <1>7
<1> QED BY <1>8 DEF t, n

\* A list without a card lists the others.
LEMMA WithoutLists ==
  ASSUME NEW S, Sortable(S), NEW s, Lists(s, S), NEW c
  PROVE  Lists(Board!Without(s, c), S \ {c})
<1> DEFINE u == Board!Without(s, c)
<1>1. s \in Seq(Ids) /\ Len(s) \in Nat BY DEF Lists
<1>2. ASSUME NEW i \in 1..Len(s), NEW j \in 1..Len(s), s[i] = s[j] PROVE i = j
  <2>1. s[i] \in S /\ s[j] \in S BY DEF Lists
  <2>2. ~Before(s[i], s[i]) /\ ~Before(s[j], s[j]) BY <2>1, BeforeIsOrder
  <2>3. ~(i < j) /\ ~(j < i) BY <1>2, <2>2 DEF Lists
  <2> QED BY <1>1, <2>3
<1>3. Thins(u, s, c) BY <1>1, <1>2, WithoutThins
<1> HIDE DEF u
<1>4. \A i \in 1..Len(u) : u[i] \in S \ {c} BY <1>3 DEF Thins, Lists
<1>5. \A x \in S \ {c} : \E i \in 1..Len(u) : u[i] = x
  <2> SUFFICES ASSUME NEW x \in S \ {c} PROVE \E i \in 1..Len(u) : u[i] = x OBVIOUS
  <2>1. PICK p \in 1..Len(s) : s[p] = x BY DEF Lists
  <2> QED BY <2>1, <1>3 DEF Thins
<1>6. ASSUME NEW i \in 1..Len(u), NEW j \in 1..Len(u), i < j PROVE Before(u[i], u[j])
  <2>1. PICK p \in 1..Len(s), q \in 1..Len(s) : p < q /\ u[i] = s[p] /\ u[j] = s[q]
    BY <1>3, <1>6 DEF Thins
  <2> QED BY <2>1 DEF Lists
<1>7. Lists(u, S \ {c}) BY <1>3, <1>4, <1>5, <1>6 DEF Lists, Thins
<1> QED BY <1>7 DEF u

\* A card has its place among others.
LEMMA PlaceExists ==
  ASSUME NEW S, NEW c \in Ids \ S, Sortable(S \cup {c}), NEW u, Lists(u, S)
  PROVE  \E i \in 1..(Len(u) + 1) : Lists(Board!InsertAt(u, i, c), S \cup {c})
<1> DEFINE n == Len(u)
           T == {i \in 1..(n + 1) : i = n + 1 \/ Before(c, u[i])}
<1>1. u \in Seq(Ids) /\ n \in Nat /\ \A i \in 1..n : u[i] \in S BY DEF Lists
<1>2. n + 1 \in T /\ T \subseteq Nat BY <1>1
<1>3. PICK i \in T : \A j \in T : i <= j BY <1>2, LeastNumber
<1>4. i \in 1..(n + 1) OBVIOUS
<1>5. ASSUME NEW j \in 1..n, j < i PROVE Before(u[j], c)
  <2>1. j \in 1..(n + 1) /\ j # n + 1 /\ ~(i <= j) BY <1>1, <1>4, <1>5
  <2>2. ~Before(c, u[j]) BY <1>3, <2>1
  <2>3. u[j] \in S /\ u[j] # c BY <1>1
  <2> HIDE DEF n, T
  <2> QED BY <2>2, <2>3, BeforeIsOrder
<1>6. ASSUME NEW j \in 1..n, i <= j PROVE Before(c, u[j])
  <2>1. i # n + 1 /\ i \in 1..n BY <1>1, <1>4, <1>6
  <2>2. Before(c, u[i]) BY <2>1
  <2>3. u[i] \in S /\ u[j] \in S BY <1>1, <2>1
  <2>4. i = j \/ Before(u[i], u[j]) BY <1>1, <2>1, <1>6 DEF Lists
  <2> HIDE DEF n, T
  <2>5. CASE i = j BY <2>2, <2>5
  <2>6. CASE Before(u[i], u[j])
    <3> DEFINE A == S \cup {c}
    <3>1. c \in A /\ u[i] \in A /\ u[j] \in A BY <2>3
    <3>2. Sortable(A) OBVIOUS
    <3> HIDE DEF A
    <3> QED BY <2>2, <2>6, <3>1, <3>2, BeforeIsOrder
  <2> QED BY <2>4, <2>5, <2>6
<1> DEFINE t == Board!InsertAt(u, i, c)
<1>7. /\ t \in Seq(Ids) /\ Len(t) = n + 1
      /\ \A j \in 1..(n + 1) : t[j] = IF j < i THEN u[j] ELSE IF j = i THEN c ELSE u[j - 1]
  BY <1>1, <1>4, InsertAtIs
<1> HIDE DEF t, T, n
<1>8. ASSUME NEW j \in 1..(n + 1)
      PROVE  /\ j < i => j \in 1..n /\ t[j] = u[j]
             /\ j = i => t[j] = c
             /\ i < j => j - 1 \in 1..n /\ t[j] = u[j - 1] /\ i <= j - 1
  BY <1>1, <1>4, <1>7
<1>9. \A j \in 1..Len(t) : t[j] \in S \cup {c} BY <1>1, <1>4, <1>7, <1>8
<1>10. \A x \in S \cup {c} : \E j \in 1..Len(t) : t[j] = x
  <2> SUFFICES ASSUME NEW x \in S \cup {c} PROVE \E j \in 1..(n + 1) : t[j] = x BY <1>7
  <2>1. CASE x = c BY <2>1, <1>4, <1>8
  <2>2. CASE x \in S
    <3>1. PICK p \in 1..n : u[p] = x BY <2>2 DEF Lists, n
    <3>2. CASE p < i
      <4>1. p \in 1..(n + 1) BY <1>1
      <4> QED BY <3>1, <3>2, <4>1, <1>8
    <3>3. CASE ~(p < i)
      <4>1. p + 1 \in 1..(n + 1) /\ i < p + 1 /\ (p + 1) - 1 = p BY <1>1, <1>4, <3>3
      <4>2. t[p + 1] = u[(p + 1) - 1] BY <4>1, <1>8
      <4> QED BY <3>1, <4>1, <4>2
    <3> QED BY <3>2, <3>3
  <2> QED BY <2>1, <2>2
<1>11. ASSUME NEW j \in 1..(n + 1), NEW k \in 1..(n + 1), j < k PROVE Before(t[j], t[k])
  <2>0. \A p, q \in 1..n : p < q => Before(u[p], u[q]) BY DEF Lists, n
  <2>1. CASE k < i
    <3>1. j < i BY <1>1, <1>4, <1>11, <2>1
    <3> QED BY <2>0, <2>1, <3>1, <1>8, <1>11
  <2>2. CASE k = i
    <3>1. j < i BY <2>2, <1>11
    <3> QED BY <3>1, <2>2, <1>5, <1>8
  <2>3. CASE i < k
    <3>1. CASE j < i
      <4>1. j < k - 1 BY <1>1, <1>4, <1>11, <2>3, <3>1
      <4>2. j \in 1..n /\ k - 1 \in 1..n /\ t[j] = u[j] /\ t[k] = u[k - 1] BY <3>1, <2>3, <1>8
      <4> QED BY <4>1, <4>2, <2>0
    <3>2. CASE j = i BY <3>2, <2>3, <1>6, <1>8
    <3>3. CASE i < j
      <4>1. j - 1 < k - 1 BY <1>11
      <4>2. j - 1 \in 1..n /\ k - 1 \in 1..n /\ t[j] = u[j - 1] /\ t[k] = u[k - 1]
        BY <3>3, <2>3, <1>8
      <4> QED BY <4>1, <4>2, <2>0
    <3> QED BY <1>1, <1>4, <3>1, <3>2, <3>3
  <2> QED BY <1>1, <1>4, <2>1, <2>2, <2>3
<1>12. Lists(t, S \cup {c}) BY <1>7, <1>9, <1>10, <1>11 DEF Lists
<1> QED BY <1>4, <1>12 DEF t, n

PlaceFacts ==
  \A S, u : \A c \in Ids \ S :
    Sortable(S \cup {c}) /\ Lists(u, S) =>
      \E i \in 1..(Len(u) + 1) : Lists(Board!InsertAt(u, i, c), S \cup {c})

LEMMA PlacesFound == PlaceFacts
BY PlaceExists DEF PlaceFacts

LEMMA PlacesFoundNext == PlaceFacts'
BY PlacesFound, PTL

\* A list of cards that stay as they are.
LEMMA ListStays ==
  ASSUME NEW S, NEW s, Lists(s, S), \A c \in S : cards'[c] = cards[c]
  PROVE  Lists(s, S)'
<1>1. \A i \in 1..Len(s) : s[i] \in S BY DEF Lists
<1> QED BY <1>1 DEF Lists, Before

\* A card behind the last.
LEMMA AppendLists ==
  ASSUME NEW S, NEW s, Lists(s, S), NEW c \in Ids, \A d \in S : Before(d, c)
  PROVE  Lists(Append(s, c), S \cup {c})
<1>1. s \in Seq(Ids) /\ Len(s) \in Nat BY DEF Lists
<1> DEFINE t == Append(s, c)
<1>2. /\ t \in Seq(Ids) /\ Len(t) = Len(s) + 1 /\ t[Len(s) + 1] = c
      /\ \A i \in 1..Len(s) : t[i] = s[i]
  BY <1>1
<1> HIDE DEF t
<1>3. \A i \in 1..Len(t) : i \in 1..Len(s) \/ i = Len(s) + 1 BY <1>1, <1>2
<1>4. ASSUME NEW i \in 1..Len(t), NEW j \in 1..Len(t), i < j PROVE Before(t[i], t[j])
  <2>1. i \in 1..Len(s) BY <1>1, <1>2, <1>4
  <2>2. CASE j \in 1..Len(s) BY <2>1, <2>2, <1>2, <1>4 DEF Lists
  <2>3. CASE j = Len(s) + 1
    <3>1. t[i] = s[i] /\ s[i] \in S BY <2>1, <1>2 DEF Lists
    <3> QED BY <3>1, <2>3, <1>2
  <2> QED BY <1>3, <2>2, <2>3
<1>5. \A x \in S \cup {c} : \E i \in 1..Len(t) : t[i] = x
  <2> SUFFICES ASSUME NEW x \in S \cup {c} PROVE \E i \in 1..Len(t) : t[i] = x OBVIOUS
  <2>1. CASE x = c
    <3>1. Len(s) + 1 \in 1..Len(t) BY <1>1, <1>2
    <3> QED BY <2>1, <3>1, <1>2
  <2>2. CASE x \in S
    <3>1. PICK i \in 1..Len(s) : s[i] = x BY <2>2 DEF Lists
    <3>2. i \in 1..Len(t) BY <1>1, <1>2
    <3> QED BY <3>1, <3>2, <1>2
  <2> QED BY <2>1, <2>2
<1>6. \A i \in 1..Len(t) : t[i] \in S \cup {c} BY <1>2, <1>3 DEF Lists
<1>7. Lists(t, S \cup {c}) BY <1>2, <1>4, <1>5, <1>6 DEF Lists
<1> QED BY <1>7 DEF t

AppendFacts ==
  \A S, s : \A c \in Ids :
    Lists(s, S) /\ (\A d \in S : Before(d, c)) => Lists(Append(s, c), S \cup {c})

LEMMA AppendFound == AppendFacts
BY AppendLists DEF AppendFacts

LEMMA AppendFoundNext == AppendFacts'
BY AppendFound, PTL

-----------------------------------------------------------------------------
(* What the reads of a request found *)

\* A dependency that is done.
Finished(d) == cards[d] # NoCard /\ cards[d].col \in DoneColumns

\* Column k takes card c as far as its dependencies go.
GateOpen(c, k) == k \in DoneColumns => \A d \in Ids : <<c, d>> \in deps => Finished(d)

\* The gate, the limit and the end of the column are as they were read.
Fit(m) ==
  /\ m.op = "move" /\ m.pc \notin {"load", "gate", "gating", "failed"} => GateOpen(m.card, m.to)
  /\ m.op = "move" /\ m.pc = "gating" =>
       \A d \in Ids : <<m.card, d>> \in deps => d \in m.todo \/ Finished(d)
  /\ m.op = "move" /\ m.pc = "write" /\ Limited(m) =>
       Cardinality(InColumn(m.to)) < Wip[m.to]
  /\ m.op = "create" /\ m.pc = "insert" =>
       \A c \in InColumn(m.to) : Less(cards[c].rank, m.rank)

\* A dependency is between cards that are there.
Known == \A c, d \in Ids : <<c, d>> \in deps => cards[c] # NoCard /\ cards[d] # NoCard

FitStep(r) == \E n : req' = [req EXCEPT ![r] = n] /\ Fit(n)

LEMMA StepFits == ASSUME NEW r, NEW n, Step(r, n), Fit(n) PROVE FitStep(r)
BY DEF Step, FitStep

LEMMA IdleFits ==
  ASSUME NEW r, NEW n, Step(r, n),
         n.op \notin {"move", "create"} \/ n.pc \in {"load", "failed", "tail", "free"},
         n.op = "move" => n.pc \in {"load", "failed"}
  PROVE  FitStep(r)
<1>1. CASE n.op \notin {"move", "create"}
  <2>1. Fit(n) BY <1>1 DEF Fit
  <2> QED BY <2>1, StepFits
<1>2. CASE n.pc \in {"load", "failed", "tail", "free"}
  <2>1. Fit(n) BY <1>2 DEF Fit
  <2> QED BY <2>1, StepFits
<1> QED BY <1>1, <1>2

LEMMA EndFits == ASSUME NEW r, End(r) PROVE FitStep(r)
<1>1. Free.op = "none" BY DEF Free
<1> QED BY <1>1, IdleFits DEF End

LEMMA FailFits == ASSUME NEW r, Fail(r) PROVE FitStep(r)
<1> DEFINE n == [Free EXCEPT !.pc = "failed", !.op = req[r].op]
<1>1. n.pc = "failed" /\ Step(r, n) BY DEF Free, Fail
<1> HIDE DEF n
<1> QED BY <1>1, IdleFits

\* A move past its gate.
LEMMA PastGateFits ==
  ASSUME NEW r, NEW n, Step(r, n), n.op = "move", n.pc # "gating", GateOpen(n.card, n.to),
         n.pc = "write" /\ Limited(n) => Cardinality(InColumn(n.to)) < Wip[n.to]
  PROVE  FitStep(r)
<1>1. Fit(n) BY DEF Fit
<1> QED BY <1>1, StepFits

LEMMA PlacedFits ==
  ASSUME NEW r, NEW m, DOMAIN m = Fields, m.op = "move", GateOpen(m.card, m.to), Placed(r, m)
  PROVE  FitStep(r)
<1> DEFINE rank == RankBetween(m.lo, m.hi)
           long == [m EXCEPT !.pc = "count", !.lo = Open, !.hi = Open]
           p == IF Limited(m) THEN "wip" ELSE "write"
           short == [m EXCEPT !.pc = p, !.rank = rank, !.lo = Open, !.hi = Open]
<1>1. End(r) \/ Fail(r) \/ Step(r, long) \/ Step(r, short) BY Zenon DEF Placed
<1>2. long.pc = "count" /\ long.op = m.op /\ long.card = m.card /\ long.to = m.to
  BY DEF Fields
<1>3. /\ short.pc = p /\ short.op = m.op /\ short.card = m.card /\ short.to = m.to
      /\ short.mine = m.mine
  BY DEF Fields
<1>4. p = "write" => ~Limited(m) OBVIOUS
<1>5. p # "gating" OBVIOUS
<1> HIDE DEF long, short, p, rank
<1>6. Limited(short) <=> Limited(m) BY <1>3 DEF Limited
<1>7. CASE Step(r, long) BY <1>2, <1>7, PastGateFits
<1>8. CASE Step(r, short)
  <2>1. ~(short.pc = "write" /\ Limited(short)) BY <1>3, <1>4, <1>6
  <2> QED BY <1>3, <1>5, <1>8, <2>1, PastGateFits
<1> QED BY <1>1, <1>7, <1>8, EndFits, FailFits

LEMMA QuietMoveFits ==
  ASSUME Known, NEW r \in Reqs, Well(req[r]), Fit(req[r]),
         LoadMove(r) \/ ReadDeps(r) \/ CheckDep(r) \/ ReadBefore(r) \/ ReadAfter(r)
           \/ ReadEnd(r) \/ CountCards(r) \/ ListCards(r) \/ CountWip(r)
  PROVE  FitStep(r)
<1> DEFINE m == req[r]
<1>0. m \in Request /\ Fit(m) /\ DOMAIN m = Fields BY DEF Well, Request, Fields
<1>1. CASE LoadMove(r)
  <2> DEFINE n == [m EXCEPT !.mine = cards[m.card]]
             g == [n EXCEPT !.pc = "gate"]
             p == Bounds(n)
             b == [n EXCEPT !.pc = p]
  <2>1. /\ m.op = "move" /\ m.pc = "load"
        /\ \/ End(r) \/ Step(r, g)
           \/ n.to \notin DoneColumns /\ Step(r, b)
    BY <1>1, Zenon DEF LoadMove, At
  <2>2. /\ g.op = m.op /\ g.pc = "gate"
        /\ b.op = m.op /\ b.pc = p /\ b.to = n.to
    BY <1>0 DEF Request
  <2>3. p \in {"before", "after", "end"} BY BoundsIsPlace
  <2> HIDE DEF n, g, b, p
  <2>4. CASE Step(r, g)
    <3>1. Fit(g) BY <2>1, <2>2 DEF Fit
    <3> QED BY <2>4, <3>1, StepFits
  <2>5. CASE n.to \notin DoneColumns /\ Step(r, b)
    <3>1. GateOpen(b.card, b.to) BY <2>2, <2>5 DEF GateOpen
    <3> QED BY <2>1, <2>2, <2>3, <2>5, <3>1, PastGateFits
  <2> QED BY <2>1, <2>4, <2>5, EndFits
<1>2. CASE ReadDeps(r)
  <2> DEFINE D == {d \in Ids : <<m.card, d>> \in deps}
             n == [m EXCEPT !.todo = D]
             p == IF n.todo = {} THEN Bounds(n) ELSE "gating"
             w == [n EXCEPT !.pc = p]
  <2>1. m.op = "move" /\ m.pc = "gate" /\ Step(r, w) BY <1>2, Zenon DEF ReadDeps, At
  <2>2. /\ w.op = m.op /\ w.pc = p /\ w.card = m.card /\ w.to = m.to /\ w.todo = D /\ n.todo = D
    BY <1>0 DEF Request
  <2>3. Bounds(n) \in {"before", "after", "end"} BY BoundsIsPlace
  <2> HIDE DEF n, w
  <2>4. CASE D = {}
    <3>1. p \in {"before", "after", "end"} BY <2>2, <2>3, <2>4
    <3>2. GateOpen(w.card, w.to) BY <2>2, <2>4 DEF GateOpen
    <3> HIDE DEF p
    <3> QED BY <2>1, <2>2, <3>1, <3>2, PastGateFits
  <2>5. CASE D # {}
    <3>1. p = "gating" BY <2>2, <2>5
    <3> HIDE DEF p
    <3>2. Fit(w) BY <2>1, <2>2, <3>1 DEF Fit
    <3> QED BY <2>1, <3>2, StepFits
  <2> QED BY <2>4, <2>5
<1>3. CASE CheckDep(r)
  <2>1. m.op = "move" /\ m.pc = "gating" BY <1>3 DEF CheckDep, At
  <2>2. PICK d \in m.todo :
          LET n == [m EXCEPT !.todo = @ \ {d}]
          IN  IF Exists(d) /\ cards[d].col \notin DoneColumns THEN End(r)
              ELSE Step(r, IF n.todo = {} THEN [n EXCEPT !.pc = Bounds(n)] ELSE n)
    BY <1>3 DEF CheckDep
  <2> DEFINE D == m.todo \ {d}
             n == [m EXCEPT !.todo = D]
             p == Bounds(n)
             b == [n EXCEPT !.pc = p]
  <2>3. \/ End(r)
        \/ /\ ~(Exists(d) /\ cards[d].col \notin DoneColumns)
           /\ \/ n.todo # {} /\ Step(r, n)
              \/ n.todo = {} /\ Step(r, b)
    BY <2>2, Zenon
  <2>4. /\ n.op = m.op /\ n.pc = m.pc /\ n.card = m.card /\ n.to = m.to /\ n.todo = D
        /\ b.op = m.op /\ b.pc = p /\ b.card = m.card /\ b.to = m.to
    BY <1>0 DEF Request
  <2>5. d \in Ids BY <1>0 DEF Request
  <2>6. p \in {"before", "after", "end"} BY BoundsIsPlace
  <2> HIDE DEF n, b, p
  <2>7. ASSUME ~(Exists(d) /\ cards[d].col \notin DoneColumns)
        PROVE  \A x \in Ids : <<m.card, x>> \in deps => x \in D \/ Finished(x)
    <3> SUFFICES ASSUME NEW x \in Ids, <<m.card, x>> \in deps, x \notin D PROVE Finished(x)
      OBVIOUS
    <3>1. CASE x = d
      <4>0. <<m.card, d>> \in deps BY <3>1
      <4>1. m.card \in Ids BY <2>1 DEF Well
      <4>2. cards[d] # NoCard BY <4>0, <4>1, <2>5 DEF Known
      <4>3. Exists(d) BY <4>2, <2>5, BoardAssumption DEF Exists, Ids, None
      <4> QED BY <3>1, <4>2, <4>3, <2>7 DEF Finished
    <3>2. CASE x # d
      <4>1. x \notin m.todo BY <3>2
      <4> QED BY <4>1, <1>0, <2>1 DEF Fit
    <3> QED BY <3>1, <3>2
  <2> HIDE DEF D
  <2>8. CASE /\ ~(Exists(d) /\ cards[d].col \notin DoneColumns)
             /\ n.todo # {} /\ Step(r, n)
    <3>1. Fit(n) BY <2>1, <2>4, <2>7, <2>8 DEF Fit
    <3> QED BY <2>8, <3>1, StepFits
  <2>9. CASE /\ ~(Exists(d) /\ cards[d].col \notin DoneColumns)
             /\ n.todo = {} /\ Step(r, b)
    <3>1. GateOpen(b.card, b.to) BY <2>4, <2>7, <2>9 DEF GateOpen
    <3> QED BY <2>1, <2>4, <2>6, <2>9, <3>1, PastGateFits
  <2> QED BY <2>3, <2>8, <2>9, EndFits
<1>4. CASE ReadBefore(r)
  <2> DEFINE x == cards[m.before].rank
             n == [m EXCEPT !.lo = x]
             w == [n EXCEPT !.pc = "after"]
  <2>1. /\ m.op = "move" /\ m.pc = "before"
        /\ End(r) \/ Step(r, w) \/ Placed(r, n)
    BY <1>4, Zenon DEF ReadBefore, At
  <2> HIDE DEF x
  <2>2. /\ DOMAIN n = Fields /\ n.op = m.op /\ n.card = m.card /\ n.to = m.to
        /\ w.op = m.op /\ w.pc = "after" /\ w.card = m.card /\ w.to = m.to
    BY <1>0 DEF Fields
  <2>3. GateOpen(m.card, m.to) BY <1>0, <2>1 DEF Fit
  <2> HIDE DEF n, w
  <2>4. CASE Step(r, w) BY <2>1, <2>2, <2>3, <2>4, PastGateFits
  <2>5. CASE Placed(r, n) BY <2>1, <2>2, <2>3, <2>5, PlacedFits
  <2> QED BY <2>1, <2>4, <2>5, EndFits
<1>5. CASE ReadAfter(r)
  <2> DEFINE x == cards[m.after].rank
             n == [m EXCEPT !.hi = x]
  <2>1. m.op = "move" /\ m.pc = "after" /\ (End(r) \/ Placed(r, n))
    BY <1>5, Zenon DEF ReadAfter, At
  <2> HIDE DEF x
  <2>2. DOMAIN n = Fields /\ n.op = m.op /\ n.card = m.card /\ n.to = m.to
    BY <1>0 DEF Fields
  <2>3. GateOpen(m.card, m.to) BY <1>0, <2>1 DEF Fit
  <2> HIDE DEF n
  <2>5. CASE Placed(r, n) BY <2>1, <2>2, <2>3, <2>5, PlacedFits
  <2> QED BY <2>1, <2>5, EndFits
<1>6. CASE ReadEnd(r)
  <2> DEFINE x == LastRank(InColumn(m.to) \ {m.card})
             n == [m EXCEPT !.lo = x]
  <2>1. m.op = "move" /\ m.pc = "end" /\ Placed(r, n)
    BY <1>6, Zenon DEF ReadEnd, At
  <2> HIDE DEF x
  <2>2. DOMAIN n = Fields /\ n.op = m.op /\ n.card = m.card /\ n.to = m.to
    BY <1>0 DEF Fields
  <2>3. GateOpen(m.card, m.to) BY <1>0, <2>1 DEF Fit
  <2> HIDE DEF n
  <2> QED BY <2>1, <2>2, <2>3, PlacedFits
<1>7. CASE CountCards(r)
  <2> DEFINE x == Cardinality(InColumn(m.to))
             n == [m EXCEPT !.pc = "list", !.count = x]
  <2>1. m.op = "move" /\ m.pc = "count" /\ Step(r, n) BY <1>7, Zenon DEF CountCards, At
  <2> HIDE DEF x
  <2>2. n.pc = "list" /\ n.op = m.op /\ n.card = m.card /\ n.to = m.to BY <1>0 DEF Fields
  <2>3. GateOpen(m.card, m.to) BY <1>0, <2>1 DEF Fit
  <2> HIDE DEF n
  <2> QED BY <2>1, <2>2, <2>3, PastGateFits
<1>8. CASE ListCards(r)
  <2> DEFINE x == [i \in DOMAIN Order(m.to) |->
                     LET c == Order(m.to)[i]
                     IN  <<c, IF c = m.card THEN m.mine.version ELSE cards[c].version>>]
             n == [m EXCEPT !.pc = "respread", !.listed = x]
  <2>1. m.op = "move" /\ m.pc = "list" /\ Step(r, n) BY <1>8, Zenon DEF ListCards, At
  <2> HIDE DEF x
  <2>2. n.pc = "respread" /\ n.op = m.op /\ n.card = m.card /\ n.to = m.to BY <1>0 DEF Fields
  <2>3. GateOpen(m.card, m.to) BY <1>0, <2>1 DEF Fit
  <2> HIDE DEF n
  <2> QED BY <2>1, <2>2, <2>3, PastGateFits
<1>9. CASE CountWip(r)
  <2> DEFINE n == [m EXCEPT !.pc = "write"]
  <2>1. /\ m.op = "move" /\ m.pc = "wip"
        /\ End(r) \/ (~(Cardinality(InColumn(m.to)) >= Wip[m.to]) /\ Step(r, n))
    BY <1>9, Zenon DEF CountWip, At
  <2>2. n.pc = "write" /\ n.op = m.op /\ n.card = m.card /\ n.to = m.to BY <1>0 DEF Fields
  <2>3. GateOpen(m.card, m.to) BY <1>0, <2>1 DEF Fit
  <2> HIDE DEF n
  <2>4. CASE ~(Cardinality(InColumn(m.to)) >= Wip[m.to]) /\ Step(r, n)
    <3>1. m.to \in Columns BY <2>1 DEF Well
    <3>2. Wip[m.to] \in Nat /\ Cardinality(InColumn(m.to)) \in Nat
      BY <3>1, BoardAssumption, CardinalityOfColumn
    <3>3. Cardinality(InColumn(m.to)) < Wip[m.to] BY <2>4, <3>2
    <3> QED BY <2>1, <2>2, <2>3, <2>4, <3>3, PastGateFits
  <2> QED BY <2>1, <2>4, EndFits
<1> QED BY <1>1, <1>2, <1>3, <1>4, <1>5, <1>6, <1>7, <1>8, <1>9

\* The last rank is above the others.
LEMMA LastIsLast ==
  ASSUME NEW S, Sortable(S), NEW c \in S
  PROVE  cards[c].rank = LastRank(S) \/ Less(cards[c].rank, LastRank(S))
<1>1. \E x \in S : \A d \in S \ {x} : Less(cards[d].rank, cards[x].rank)
  BY LastExists DEF Before
<1> DEFINE x == CHOOSE y \in S : \A d \in S \ {y} : Less(cards[d].rank, cards[y].rank)
<1>2. x \in S /\ \A d \in S \ {x} : Less(cards[d].rank, cards[x].rank) BY <1>1, Zenon
<1>3. LastRank(S) = cards[x].rank BY DEF LastRank
<1> HIDE DEF x
<1> QED BY <1>2, <1>3

LEMMA SubmitFits ==
  ASSUME NEW r \in Reqs, Submit(r) PROVE FitStep(r)
<1>1. PICK op \in Ops, c \in Ids :
       \/ /\ op = "move" /\ Exists(c) /\ cards[c].version < MaxVersion
          /\ \A d \in Ids : cards[d].version <= MaxVersion
          /\ \E k \in Columns, b, a \in Ids \cup {None}, v \in 1..cards[c].version :
               /\ AnyAnchors \/ Adjacent(c, k, b, a)
               /\ Step(r, [Free EXCEPT !.pc = "load", !.op = op, !.card = c, !.to = k,
                                       !.before = b, !.after = a, !.expected = v])
       \/ /\ op = "create" /\ c = 1 /\ ~Exists(MaxId)
          /\ \E k \in Entry :
               Step(r, [Free EXCEPT !.pc = "tail", !.op = op, !.to = k])
       \/ /\ op = "edit" /\ Exists(c) /\ cards[c].version < MaxVersion
          /\ \E v \in {0, cards[c].version} :
               Step(r, [Free EXCEPT !.pc = "load", !.op = op, !.card = c, !.expected = v])
       \/ /\ op = "delete" /\ Exists(c)
          /\ Step(r, [Free EXCEPT !.pc = "load", !.op = op, !.card = c])
       \/ /\ op = "link" /\ Exists(c)
          /\ \E d \in Ids \ {c} : Exists(d) /\
               Step(r, [Free EXCEPT !.pc = "load", !.op = op, !.card = c, !.to = d])
       \/ /\ op = "unlink"
          /\ \E d \in Ids : <<c, d>> \in deps /\
               Step(r, [Free EXCEPT !.pc = "load", !.op = op, !.card = c, !.to = d])
  BY Zenon DEF Submit
<1>2. CASE op = "move"
  <2>1. PICK k, b, a, v :
          Step(r, [Free EXCEPT !.pc = "load", !.op = op, !.card = c, !.to = k,
                               !.before = b, !.after = a, !.expected = v])
    BY <1>1, <1>2, Zenon
  <2> DEFINE n == [Free EXCEPT !.pc = "load", !.op = op, !.card = c, !.to = k,
                               !.before = b, !.after = a, !.expected = v]
  <2>2. n.pc = "load" /\ Step(r, n) BY <2>1 DEF Free
  <2> HIDE DEF n
  <2> QED BY <2>2, IdleFits
<1>3. CASE op # "move"
  <2>1. PICK k, v :
          \/ Step(r, [Free EXCEPT !.pc = "tail", !.op = op, !.to = k])
          \/ Step(r, [Free EXCEPT !.pc = "load", !.op = op, !.card = c, !.expected = v])
          \/ Step(r, [Free EXCEPT !.pc = "load", !.op = op, !.card = c])
          \/ Step(r, [Free EXCEPT !.pc = "load", !.op = op, !.card = c, !.to = k])
    BY <1>1, <1>3, Zenon
  <2> DEFINE n2 == [Free EXCEPT !.pc = "tail", !.op = op, !.to = k]
             n3 == [Free EXCEPT !.pc = "load", !.op = op, !.card = c, !.expected = v]
             n4 == [Free EXCEPT !.pc = "load", !.op = op, !.card = c]
             n5 == [Free EXCEPT !.pc = "load", !.op = op, !.card = c, !.to = k]
  <2>2. /\ n3.pc = "load" /\ n4.pc = "load" /\ n5.pc = "load"
        /\ n2.pc = "tail" /\ n2.op = op
    BY DEF Free
  <2>3. Step(r, n2) \/ Step(r, n3) \/ Step(r, n4) \/ Step(r, n5) BY <2>1
  <2> HIDE DEF n2, n3, n4, n5
  <2> QED BY <1>3, <2>2, <2>3, IdleFits
<1> QED BY <1>2, <1>3

LEMMA QuietOtherFits ==
  ASSUME Typed, UniqueIn(cards), Ranked, NEW r \in Reqs, Well(req[r]),
         ReadTail(r) \/ LoadEdit(r) \/ LoadDelete(r) \/ LoadLink(r) \/ CheckCycle(r)
  PROVE  FitStep(r)
<1> DEFINE m == req[r]
<1>0. m \in Request /\ DOMAIN m = Fields BY DEF Well, Request, Fields
<1>1. CASE ReadTail(r)
  <2> DEFINE last == LastRank(InColumn(m.to))
             rank == RankBetween(last, Open)
             n == [m EXCEPT !.pc = "insert", !.rank = rank]
  <2>1. m.op = "create" /\ m.pc = "tail" /\ (Fail(r) \/ Step(r, n))
    BY <1>1, Zenon DEF ReadTail, At
  <2>2. Sortable(InColumn(m.to)) BY ColumnSortable
  <2>3. last \in Rank \cup {Open}
    <3>1. last = Open \/ \E c \in InColumn(m.to) : last = cards[c].rank BY <2>2, LastRankIs
    <3>2. \A c \in InColumn(m.to) : cards[c].rank \in Rank BY DEF InColumn, Exists, Ranked
    <3> QED BY <3>1, <3>2
  <2>4. rank \in Rank /\ Less(last, rank) BY <2>3, RankBetweenIsBetween
  <2>5. \A c \in InColumn(m.to) : Less(cards[c].rank, rank)
    <3> SUFFICES ASSUME NEW c \in InColumn(m.to) PROVE Less(cards[c].rank, rank) OBVIOUS
    <3>1. cards[c].rank = last \/ Less(cards[c].rank, last) BY <2>2, LastIsLast
    <3>2. cards[c].rank \in Rank BY DEF InColumn, Exists, Ranked
    <3>3. cards[c].rank \in String /\ last \in String /\ rank \in String
      BY <3>2, <2>3, <2>4, RankIsString
    <3> HIDE DEF last, rank
    <3> QED BY <3>1, <3>3, <2>4, LessTransitive
  <2> HIDE DEF last, rank
  <2>6. n.pc = "insert" /\ n.op = m.op /\ n.to = m.to /\ n.rank = rank BY <1>0 DEF Fields
  <2> HIDE DEF n
  <2>7. Fit(n) BY <2>1, <2>5, <2>6 DEF Fit
  <2> QED BY <2>1, <2>7, StepFits, FailFits
<1>2. CASE LoadEdit(r) \/ LoadDelete(r) \/ LoadLink(r) \/ CheckCycle(r)
  <2>1. /\ m.op \in {"edit", "delete", "link"}
        /\ \/ End(r)
           \/ \E p, x : Step(r, [[m EXCEPT !.mine = x] EXCEPT !.pc = p])
           \/ \E p : Step(r, [m EXCEPT !.pc = p])
    BY <1>2, Zenon DEF LoadEdit, LoadDelete, LoadLink, CheckCycle, At
  <2>2. PICK p, x : \/ End(r) \/ Step(r, [[m EXCEPT !.mine = x] EXCEPT !.pc = p])
                    \/ Step(r, [m EXCEPT !.pc = p])
    BY <2>1, Zenon
  <2> DEFINE a == [[m EXCEPT !.mine = x] EXCEPT !.pc = p]
             b == [m EXCEPT !.pc = p]
  <2>3. a.op = m.op /\ b.op = m.op BY <1>0 DEF Fields
  <2>4. End(r) \/ Step(r, a) \/ Step(r, b) BY <2>2
  <2> HIDE DEF a, b
  <2> QED BY <2>1, <2>3, <2>4, IdleFits, EndFits
<1> QED BY <1>1, <1>2

\* Request r goes on, and what it read holds after the step.
FitLead(r) == \E n : req' = [req EXCEPT ![r] = n] /\ Fit(n)'

LEMMA FitLeads == ASSUME NEW r, FitStep(r), UNCHANGED <<cards, deps>> PROVE FitLead(r)
<1>1. PICK n : req' = [req EXCEPT ![r] = n] /\ Fit(n) BY DEF FitStep
<1>2. Fit(n)' BY <1>1 DEF Fit, GateOpen, Finished, InColumn, Exists
<1> QED BY <1>1, <1>2 DEF FitLead

\* A request that has been answered claims nothing.
LEMMA AnswerFits == ASSUME NEW r, End(r) \/ Fail(r) PROVE FitLead(r)
<1> DEFINE n == [Free EXCEPT !.pc = "failed", !.op = req[r].op]
<1>1. Free.op = "none" /\ n.pc = "failed" /\ (Step(r, Free) \/ Step(r, n))
  BY DEF Free, End, Fail
<1> HIDE DEF n
<1>2. PICK x : (x.op = "none" \/ x.pc = "failed") /\ Step(r, x) BY <1>1
<1>3. Fit(x)' BY <1>2 DEF Fit
<1> QED BY <1>2, <1>3 DEF FitLead, Step

\* A rebalance leaves the gate as it was.
LEMMA RespreadFits ==
  ASSUME Typed, UniqueIn(cards), Ranked, NEW r \in Reqs, Well(req[r]), Close(req[r]),
         Fit(req[r]), Known, Respread(r)
  PROVE  FitLead(r)
<1>m. PICK m : m = req[r] OBVIOUS
<1>0. m \in Request /\ DOMAIN m = Fields BY <1>m DEF Well, Request, Fields
<1>1. PICK x : /\ m.op = "move" /\ m.pc = "respread" /\ UNCHANGED deps
               /\ \/ Fail(r)
                  \/ Step(r, [m EXCEPT !.pc = Bounds(m), !.mine = x, !.again = TRUE,
                                       !.count = 0, !.listed = <<>>])
  BY <1>m, Zenon DEF Respread, At
<1>2. SameOrder BY RespreadLeads
<1>3. GateOpen(m.card, m.to)'
  <2>1. GateOpen(m.card, m.to) BY <1>m, <1>1 DEF Fit
  <2>2. \A d \in Ids : Finished(d) => Finished(d)' BY <1>2 DEF SameOrder, Finished
  <2> QED BY <1>1, <2>1, <2>2 DEF GateOpen
<1>4. PICK p : p = Bounds(m) /\ p \in {"before", "after", "end"} BY BoundsIsPlace
<1>5. PICK l : l = <<>> OBVIOUS
<1> DEFINE k == [m EXCEPT !.pc = p, !.mine = x, !.again = TRUE, !.count = 0, !.listed = l]
<1>6. Fail(r) \/ Step(r, k) BY <1>1, <1>4, <1>5
<1>7. k.pc = p /\ k.op = m.op /\ k.card = m.card /\ k.to = m.to BY <1>0 DEF Fields
<1>8. PICK n : n = k OBVIOUS
<1> HIDE DEF k
<1>9. Fit(n)' BY <1>1, <1>3, <1>4, <1>7, <1>8 DEF Fit
<1> QED BY <1>6, <1>8, <1>9, AnswerFits DEF FitLead, Step

-----------------------------------------------------------------------------
(* What the steps do to the board *)

There(c) == c \in Ids /\ cards[c] # NoCard

\* The other cards and the dependencies are left alone.
Only(c) == (\A d \in Ids \ {c} : cards'[d] = cards[d]) /\ UNCHANGED deps

Puts(c, k) ==
  /\ There(c) /\ k \in Columns /\ cards'[c].col = k /\ Only(c)
  /\ cards[c].col # k /\ Wip[k] # 0 => Cardinality(InColumn(k)) < Wip[k]
  /\ GateOpen(c, k)

Adds(c, k) ==
  /\ c \in Ids /\ ~There(c) /\ k \in Entry /\ cards'[c].col = k /\ Only(c)
  /\ \A d \in InColumn(k) : Before(d, c)'

Drops(c) ==
  /\ There(c) /\ cards'[c] = NoCard /\ Only(c)
  /\ \A d \in Ids : {<<c, d>>, <<d, c>>} \cap deps = {}

Links(c, d) == There(c) /\ There(d) /\ deps' = deps \cup {<<c, d>>} /\ UNCHANGED cards

Unlinks(c, d) == c \in Ids /\ d \in Ids /\ deps' = deps \ {<<c, d>>} /\ UNCHANGED cards

Acts ==
  \/ SameOrder /\ UNCHANGED deps
  \/ \E c, k : Puts(c, k) \/ Adds(c, k)
  \/ \E c : Drops(c)
  \/ \E c, d : Links(c, d) \/ Unlinks(c, d)

LEMMA StillIsSame == UNCHANGED cards => SameOrder
BY DEF SameOrder

LEMMA WriteMoveActs ==
  ASSUME Typed, Ranked, NEW r \in Reqs, Well(req[r]), Close(req[r]), Fit(req[r]), WriteMove(r)
  PROVE  Acts
<1> DEFINE m == req[r]
<1>1. UNCHANGED deps BY Zenon DEF WriteMove
<1>2. CASE UNCHANGED cards BY <1>1, <1>2, StillIsSame DEF Acts
<1>3. CASE ~UNCHANGED cards
  <2>1. /\ m.op = "move" /\ m.pc = "write" /\ m.card \in Ids
        /\ \A c \in Ids \ {m.card} : cards'[c] = cards[c]
        /\ cards'[m.card].col = m.to
    BY <1>3, WriteLeads
  <2>2. m.to \in Columns /\ There(m.card) /\ m.mine = cards[m.card]
    BY <2>1 DEF Well, Close, There
  <2>3. GateOpen(m.card, m.to) BY <2>1 DEF Fit
  <2>4. cards[m.card].col # m.to /\ Wip[m.to] # 0 => Cardinality(InColumn(m.to)) < Wip[m.to]
    BY <2>1, <2>2 DEF Fit, Limited
  <2>5. Puts(m.card, m.to) BY <1>1, <2>1, <2>2, <2>3, <2>4 DEF Puts, Only
  <2> QED BY <2>5 DEF Acts
<1> QED BY <1>2, <1>3

LEMMA InsertActs ==
  ASSUME Typed, Requests, NEW r \in Reqs, Well(req[r]), Fit(req[r]), InsertCard(r)
  PROVE  Acts
<1> DEFINE m == req[r]
<1>1. UNCHANGED deps BY Zenon DEF InsertCard
<1>2. CASE UNCHANGED cards BY <1>1, <1>2, StillIsSame DEF Acts
<1>3. CASE ~UNCHANGED cards
  <2> DEFINE id  == CHOOSE c \in Ids : /\ \A d \in Ids : Exists(d) => d < c
                                       /\ c = 1 \/ Exists(c - 1)
             row == [col |-> m.to, rank |-> m.rank, version |-> 1]
             new == [cards EXCEPT ![id] = row]
  <2>1. m.op = "create" /\ m.pc = "insert" /\ ~Exists(MaxId) /\ cards' = new
    BY <1>3, Zenon DEF InsertCard, At
  <2>2. MaxId # 0 => id \in Ids /\ cards[id] = NoCard BY <2>1, NewIdIsFree
  <2>3. row.col = m.to /\ row.rank = m.rank OBVIOUS
  <2> HIDE DEF id, row
  <2>4. id \in Ids /\ cards[id] = NoCard
    <3>1. id \notin Ids => new = cards BY DEF Typed
    <3>2. id \in Ids BY <3>1, <2>1, <1>3
    <3>3. MaxId # 0 BY <3>2, BoardAssumption DEF Ids
    <3> QED BY <3>3, <2>2
  <2>5. m.to \in Entry BY <2>1 DEF Requests, IsRequest
  <2>6. cards'[id] = row /\ \A d \in Ids \ {id} : cards'[d] = cards[d]
    BY <2>1, <2>4 DEF Typed
  <2> HIDE DEF new
  <2> HIDE DEF m
  <2>x. PICK c : c = id OBVIOUS
  <2>7. \A d \in InColumn(m.to) : Before(d, c)'
    <3> SUFFICES ASSUME NEW d \in InColumn(m.to) PROVE Less(cards'[d].rank, cards'[c].rank)
      BY DEF Before
    <3>1. d \in Ids \ {c} BY <2>x, <2>4 DEF InColumn, Exists
    <3>2. Less(cards[d].rank, m.rank) BY <2>1 DEF Fit, m
    <3> QED BY <3>1, <3>2, <2>x, <2>3, <2>6
  <2>8. Adds(c, m.to) BY <1>1, <2>x, <2>3, <2>4, <2>5, <2>6, <2>7 DEF Adds, Only, There
  <2> QED BY <2>8 DEF Acts
<1> QED BY <1>2, <1>3

LEMMA WriteEditActs ==
  ASSUME Typed, NEW r \in Reqs, WriteEdit(r) PROVE Acts
<1> DEFINE m == req[r]
<1>1. UNCHANGED deps BY Zenon DEF WriteEdit
<1>2. CASE UNCHANGED cards BY <1>1, <1>2, StillIsSame DEF Acts
<1>3. CASE ~UNCHANGED cards
  <2> DEFINE v == m.mine.version + 1
             row == [cards[m.card] EXCEPT !.version = v]
  <2>1. Exists(m.card) /\ cards' = [cards EXCEPT ![m.card] = [cards[m.card] EXCEPT !.version = v]]
    BY <1>3, Zenon DEF WriteEdit
  <2> HIDE DEF v
  <2>2. \A c \in Ids : cards'[c] = cards[c] \/ (c = m.card /\ cards'[c] = row) BY <2>1 DEF Typed
  <2>3. ASSUME m.card \in Ids
        PROVE  row # NoCard /\ row.col = cards[m.card].col /\ row.rank = cards[m.card].rank
    <3>1. cards[m.card] \in Row BY <2>1, <2>3 DEF Typed, Exists
    <3>2. row.col = cards[m.card].col /\ row.rank = cards[m.card].rank BY <3>1 DEF Row
    <3>3. row.col # None BY <3>1, <3>2, BoardAssumption DEF Row
    <3> HIDE DEF row
    <3> QED BY <3>2, <3>3 DEF NoCard
  <2> HIDE DEF row
  <2>4. \A c \in Ids : /\ cards'[c] = NoCard <=> cards[c] = NoCard
                       /\ cards'[c].col = cards[c].col /\ cards'[c].rank = cards[c].rank
    BY <2>1, <2>2, <2>3 DEF Exists
  <2>5. SameOrder BY <2>4 DEF SameOrder
  <2> QED BY <1>1, <2>5 DEF Acts
<1> QED BY <1>2, <1>3

LEMMA DeleteActs ==
  ASSUME Typed, NEW r \in Reqs, DeleteCard(r) PROVE Acts
<1> DEFINE m == req[r]
<1>1. /\ UNCHANGED deps
      /\ \/ UNCHANGED cards
         \/ /\ ~\E d \in Ids : {<<m.card, d>>, <<d, m.card>>} \cap deps # {}
            /\ cards' = [cards EXCEPT ![m.card] = NoCard]
  BY Zenon DEF DeleteCard
<1>2. CASE UNCHANGED cards BY <1>1, <1>2, StillIsSame DEF Acts
<1>3. CASE ~UNCHANGED cards
  <2>1. There(m.card) BY <1>1, <1>3 DEF Typed, There
  <2>2. cards'[m.card] = NoCard /\ \A d \in Ids \ {m.card} : cards'[d] = cards[d]
    BY <1>1, <1>3, <2>1 DEF Typed, There
  <2>3. Drops(m.card) BY <1>1, <1>3, <2>1, <2>2 DEF Drops, Only
  <2> QED BY <2>3 DEF Acts
<1> QED BY <1>2, <1>3

LEMMA DepActs ==
  ASSUME Requests, deps \subseteq Ids \X Ids, NEW r \in Reqs, AddDep(r) \/ RemoveDep(r) PROVE Acts
<1> DEFINE m == req[r]
<1>0. UNCHANGED cards BY Zenon DEF AddDep, RemoveDep
<1>1. CASE UNCHANGED deps BY <1>0, <1>1, StillIsSame DEF Acts
<1>2. CASE AddDep(r) /\ ~UNCHANGED deps
  <2>1. /\ m.op = "link" /\ m.pc = "write" /\ Exists(m.card) /\ Exists(m.to)
        /\ deps' = deps \cup {<<m.card, m.to>>}
    BY <1>2, Zenon DEF AddDep, At
  <2>2. m.card \in Ids /\ m.to \in Ids BY <2>1 DEF Requests, IsRequest
  <2>3. Links(m.card, m.to) BY <1>0, <2>1, <2>2 DEF Links, There, Exists
  <2> QED BY <2>3 DEF Acts
<1>3. CASE RemoveDep(r) /\ ~UNCHANGED deps
  <2>1. deps' = deps \ {<<m.card, m.to>>} BY <1>3, Zenon DEF RemoveDep
  <2>2. <<m.card, m.to>> \in deps BY <1>3, <2>1
  <2>3. m.card \in Ids /\ m.to \in Ids BY <2>2
  <2>4. Unlinks(m.card, m.to) BY <1>0, <2>1, <2>3 DEF Unlinks
  <2> QED BY <2>4 DEF Acts
<1> QED BY <1>1, <1>2, <1>3

AllFit == \A r \in Reqs : Fit(req[r])

\* Served one after the other, requests also know gates, limits and dependencies.
Steady == Alone /\ Acyclic /\ Known /\ AllFit

LEMMA StepActs ==
  ASSUME Steady, NEW r \in Reqs, Submit(r) \/ MoveStep(r) \/ OtherStep(r)
  PROVE  Acts /\ FitLead(r)
<1>1. /\ Typed /\ UniqueIn(cards) /\ Ranked /\ Requests /\ Known /\ deps \subseteq Ids \X Ids
      /\ Well(req[r]) /\ Close(req[r]) /\ Fit(req[r])
  BY DEF Steady, Alone, TypesHold, AllWell, AllClose, AllFit, Acyclic
<1>2. ASSUME UNCHANGED <<cards, deps>>, FitStep(r) PROVE Acts /\ FitLead(r)
  BY <1>2, FitLeads, StillIsSame DEF Acts
<1>3. CASE Submit(r)
  <2>1. UNCHANGED <<cards, deps>> BY <1>3 DEF Submit
  <2> QED BY <1>2, <1>3, <2>1, SubmitFits
<1>4. CASE \/ LoadMove(r) \/ ReadDeps(r) \/ CheckDep(r) \/ ReadBefore(r) \/ ReadAfter(r)
           \/ ReadEnd(r) \/ CountCards(r) \/ ListCards(r) \/ CountWip(r)
  <2>1. UNCHANGED <<cards, deps>>
    BY <1>4, Zenon DEF LoadMove, ReadDeps, CheckDep, ReadBefore, ReadAfter, ReadEnd, CountCards,
                ListCards, CountWip
  <2> QED BY <1>1, <1>2, <1>4, <2>1, QuietMoveFits
<1>5. CASE ReadTail(r) \/ LoadEdit(r) \/ LoadDelete(r) \/ LoadLink(r) \/ CheckCycle(r)
  <2>1. UNCHANGED <<cards, deps>>
    BY <1>5, Zenon DEF ReadTail, LoadEdit, LoadDelete, LoadLink, CheckCycle
  <2> QED BY <1>1, <1>2, <1>5, <2>1, QuietOtherFits
<1>6. CASE Respread(r)
  <2>1. UNCHANGED deps BY <1>6, Zenon DEF Respread
  <2> QED BY <1>1, <1>6, <2>1, RespreadLeads, RespreadFits DEF Acts
<1>7. CASE \/ WriteMove(r) \/ InsertCard(r) \/ WriteEdit(r) \/ DeleteCard(r)
           \/ AddDep(r) \/ RemoveDep(r)
  <2>1. End(r) \/ Fail(r)
    BY <1>7, Zenon DEF WriteMove, InsertCard, WriteEdit, DeleteCard, AddDep, RemoveDep
  <2>2. Acts BY <1>1, <1>7, WriteMoveActs, InsertActs, WriteEditActs, DeleteActs, DepActs
  <2> QED BY <2>1, <2>2, AnswerFits
<1> QED BY <1>3, <1>4, <1>5, <1>6, <1>7, Zenon DEF MoveStep, OtherStep

\* Cards that something waits for are not deleted.
LEMMA KnownStays == ASSUME Typed, Known, Acts PROVE Known'
<1> SUFFICES ASSUME NEW c \in Ids, NEW d \in Ids, <<c, d>> \in deps'
             PROVE  cards'[c] # NoCard /\ cards'[d] # NoCard
  BY DEF Known
<1>0. <<c, d>> \in deps => cards[c] # NoCard /\ cards[d] # NoCard BY DEF Known
<1>1. CASE SameOrder /\ UNCHANGED deps BY <1>0, <1>1 DEF SameOrder
<1>2. ASSUME NEW x, NEW k, Puts(x, k) \/ Adds(x, k)
      PROVE  cards'[c] # NoCard /\ cards'[d] # NoCard
  <2>1. k \in Columns /\ cards'[x].col = k /\ Only(x) BY <1>2, BoardAssumption DEF Puts, Adds
  <2>2. cards'[x] # NoCard BY <2>1, BoardAssumption DEF NoCard
  <2> QED BY <1>0, <2>1, <2>2 DEF Only
<1>3. ASSUME NEW x, Drops(x) PROVE cards'[c] # NoCard /\ cards'[d] # NoCard
  <2>1. <<c, d>> \in deps BY <1>3 DEF Drops, Only
  <2>2. c # x /\ d # x BY <1>3, <2>1 DEF Drops
  <2> QED BY <1>0, <1>3, <2>1, <2>2 DEF Drops, Only
<1>4. ASSUME NEW x, NEW y, Links(x, y) \/ Unlinks(x, y)
      PROVE  cards'[c] # NoCard /\ cards'[d] # NoCard
  BY <1>0, <1>4 DEF Links, Unlinks, There
<1> QED BY <1>1, <1>2, <1>3, <1>4 DEF Acts

LEMMA SteadyFirst == ASSUME Init PROVE Steady
<1>1. Alone BY AloneFirst
<1>2. Acyclic /\ Known
  <2>1. \A r \in Reqs : req[r].op = "none" BY DEF Init, Free
  <2> QED BY <2>1 DEF Init, Acyclic, Known, At
<1>3. AllFit
  <2>1. \A r \in Reqs : req[r] = Free BY DEF Init
  <2>2. Fit(Free) BY DEF Free, Fit
  <2> QED BY <2>1, <2>2 DEF AllFit
<1> QED BY <1>1, <1>2, <1>3 DEF Steady

LEMMA SteadyNext ==
  ASSUME \A q, r \in Reqs : q = r, Steady, [Next]_vars PROVE Steady'
<1>1. Alone' BY AloneNext DEF Steady
<1>2. CASE Next
  <2>1. PICK r \in Reqs : Submit(r) \/ MoveStep(r) \/ OtherStep(r) BY <1>2 DEF Next
  <2>2. Acts /\ FitLead(r) BY <2>1, StepActs
  <2>3. Acyclic' BY <1>2, AcyclicStays DEF Steady, Alone, TypesHold
  <2>4. Known' BY <2>2, KnownStays DEF Steady, Alone, TypesHold
  <2>5. AllFit'
    <3>1. PICK n : req' = [req EXCEPT ![r] = n] /\ Fit(n)' BY <2>2 DEF FitLead
    <3>2. \A q \in Reqs : req'[q] = n BY <3>1 DEF Steady, Alone, TypesHold, AllWell
    <3>3. \A q \in Reqs : Fit(req[q])' BY <3>1, <3>2 DEF Fit, GateOpen, Finished, Limited
    <3> QED BY <3>3 DEF AllFit
  <2> QED BY <1>1, <2>3, <2>4, <2>5 DEF Steady
<1>3. CASE UNCHANGED vars
  <2>1. UNCHANGED cards /\ UNCHANGED deps /\ UNCHANGED req BY <1>3 DEF vars
  <2>2. Acyclic' /\ Known' BY <2>1 DEF Steady, Acyclic, Known, At
  <2>3. AllFit'
    <3>1. \A k : InColumn(k)' = InColumn(k) BY <2>1 DEF InColumn, Exists
    <3>2. \A q \in Reqs : Fit(req[q])'
      BY <2>1, <3>1 DEF Steady, AllFit, Fit, GateOpen, Finished, Limited
    <3> QED BY <3>2 DEF AllFit
  <2> QED BY <1>1, <2>2, <2>3 DEF Steady
<1> QED BY <1>2, <1>3

-----------------------------------------------------------------------------
(* The board that the table shows *)

LEMMA ListedSet == ASSUME NEW S, NEW s, Lists(s, S) PROVE Board!ToSet(s) = S
<1>1. s \in Seq(Ids) BY DEF Lists
<1>2. DOMAIN s = 1..Len(s) BY <1>1
<1> QED BY <1>2 DEF Lists, Board!ToSet

LEMMA BoardShows ==
  ASSUME Typed, UniqueIn(cards)
  PROVE  /\ \A k \in Columns : Board!Cards(k) = InColumn(k)
         /\ \A c : c \in Board!OnBoard <=> There(c)
         /\ \A d \in Ids : Finished(d) => d \in Board!Done
<1>1. \A k \in Columns : Board!Cards(k) = InColumn(k)
  BY ColumnsSorted, ListedSet DEF Sorted, Board!Cards
<1>2. \A c : There(c) <=> c \in Ids /\ Exists(c) BY BoardAssumption DEF There, Exists, Ids, None
<1>3. \A c : There(c) => cards[c].col \in Columns BY DEF There, Typed, Row
<1>4. \A c : c \in Board!OnBoard <=> There(c)
  <2> SUFFICES ASSUME NEW c PROVE c \in Board!OnBoard <=> There(c) OBVIOUS
  <2>1. c \in Board!OnBoard <=> \E k \in Columns : c \in InColumn(k) BY <1>1 DEF Board!OnBoard
  <2> QED BY <2>1, <1>2, <1>3 DEF InColumn
<1>5. \A d \in Ids : Finished(d) => d \in Board!Done
  <2> SUFFICES ASSUME NEW d \in Ids, Finished(d) PROVE d \in Board!Done OBVIOUS
  <2>1. There(d) /\ cards[d].col \in DoneColumns BY DEF Finished, There
  <2>2. d \in InColumn(cards[d].col) BY <2>1, <1>2 DEF InColumn
  <2>3. d \in Board!Cards(cards[d].col) BY <2>1, <2>2, <1>1, <1>3
  <2> QED BY <2>1, <2>3 DEF Board!Done
<1> QED BY <1>1, <1>4, <1>5

\* In the same order: the same board.
LEMMA SameBoard ==
  ASSUME Typed, UniqueIn(cards), Sorted', SameOrder
  PROVE  \A k : Order(k)' = Order(k)
<1> SUFFICES ASSUME NEW k PROVE Order(k)' = Order(k) OBVIOUS
<1>1. InColumn(k)' = InColumn(k) BY DEF SameOrder, InColumn, Exists
<1>2. PICK s : s = Order(k) OBVIOUS
<1>3. PICK S : S = InColumn(k) OBVIOUS
<1>4. Lists(s, S) BY <1>2, <1>3, ColumnsSorted DEF Sorted
<1>5. \A c, d \in S : Before(c, d) => Before(c, d)'
  BY <1>3 DEF SameOrder, InColumn, Exists, Before
<1>6. Lists(s, S)' BY <1>4, <1>5 DEF Lists
<1> QED BY <1>1, <1>2, <1>3, <1>6 DEF Sorted

\* A column that loses at most card c.
LEMMA ColumnWithout ==
  ASSUME Typed, UniqueIn(cards), NEW c \in Ids, Only(c), NEW k
  PROVE  \E s, u, S : /\ s = Order(k) /\ u = Board!Without(s, c) /\ S = InColumn(k) \ {c}
                      /\ Lists(u, S) /\ Lists(u, S)'
<1>1. PICK s : s = Order(k) OBVIOUS
<1>2. PICK u : u = Board!Without(s, c) OBVIOUS
<1>3. PICK S : S = InColumn(k) \ {c} OBVIOUS
<1>4. Sortable(InColumn(k)) /\ Lists(s, InColumn(k)) BY <1>1, ColumnsSorted DEF Sorted
<1>5. Lists(u, S) BY <1>2, <1>3, <1>4, WithoutLists
<1>6. \A d \in S : cards'[d] = cards[d] BY <1>3 DEF Only, InColumn
<1>7. Lists(u, S)' BY <1>5, <1>6, ListStays
<1> QED BY <1>1, <1>2, <1>3, <1>5, <1>7

\* The columns that card c is not in after a step that leaves the others alone.
LEMMA LosesCard ==
  ASSUME Typed, UniqueIn(cards), Sorted', NEW c \in Ids, Only(c), NEW k,
         cards'[c] = NoCard \/ cards'[c].col # k
  PROVE  Order(k)' = Board!Without(Order(k), c)
<1>1. PICK s, u, S : /\ s = Order(k) /\ u = Board!Without(s, c) /\ S = InColumn(k) \ {c}
                     /\ Lists(u, S)'
  BY ColumnWithout
<1>2. InColumn(k)' = S BY <1>1 DEF InColumn, Exists, Only
<1>3. u = Order(k)' BY <1>1, <1>2 DEF Sorted
<1> QED BY <1>1, <1>3

\* The column that it comes to.
LEMMA GainsCard ==
  ASSUME Typed, UniqueIn(cards), Sorted', NEW c \in Ids, Only(c), NEW k,
         cards'[c] # NoCard, cards'[c].col = k
  PROVE  \E i \in 1..(Len(Board!Without(Order(k), c)) + 1) :
           Order(k)' = Board!InsertAt(Board!Without(Order(k), c), i, c)
<1>1. PICK s, u, S : /\ s = Order(k) /\ u = Board!Without(s, c) /\ S = InColumn(k) \ {c}
                     /\ Lists(u, S)'
  BY ColumnWithout
<1>2. InColumn(k)' = S \cup {c}
  <2>1. \A d \in Ids : Exists(d)' <=> cards'[d] # NoCard BY BoardAssumption DEF Exists, Ids, None
  <2>2. \A d \in Ids : Exists(d) <=> cards[d] # NoCard BY BoardAssumption DEF Exists, Ids, None
  <2> QED BY <1>1, <2>1, <2>2 DEF InColumn, Only
<1>3. c \in Ids \ S BY <1>1
<1>4. Sortable(S \cup {c})' BY <1>2 DEF Sorted
<1>5. PICK i \in 1..(Len(u) + 1) : Lists(Board!InsertAt(u, i, c), S \cup {c})'
  BY <1>1, <1>3, <1>4, PlacesFoundNext DEF PlaceFacts
<1>6. PICK t : t = Board!InsertAt(u, i, c) OBVIOUS
<1>7. Lists(t, S \cup {c})' BY <1>5, <1>6
<1>8. t = Order(k)' BY <1>2, <1>7 DEF Sorted
<1> QED BY <1>1, <1>6, <1>8

\* A column that a card is added to, behind the last.
LEMMA GrowsByCard ==
  ASSUME Typed, UniqueIn(cards), Sorted', NEW c, NEW k, Adds(c, k)
  PROVE  /\ Order(k)' = Append(Order(k), c)
         /\ \A j : j # k => Order(j)' = Order(j)
<1>1. c \in Ids /\ Only(c) /\ cards[c] = NoCard /\ cards'[c].col = k /\ k # None
  BY BoardAssumption DEF Adds, There
<1>2. cards'[c] # NoCard BY <1>1 DEF NoCard
<1>3. \A d \in Ids : (Exists(d)' <=> cards'[d] # NoCard) /\ (Exists(d) <=> cards[d] # NoCard)
  BY BoardAssumption DEF Exists, Ids, None
<1>4. \A j : \A d \in InColumn(j) : d # c /\ cards'[d] = cards[d] BY <1>1 DEF InColumn, Exists, Only
<1>5. Order(k)' = Append(Order(k), c)
  <2>1. PICK s : s = Order(k) OBVIOUS
  <2>2. PICK S : S = InColumn(k) OBVIOUS
  <2>3. Lists(s, S) BY <2>1, <2>2, ColumnsSorted DEF Sorted
  <2>4. Lists(s, S)' BY <2>2, <2>3, <1>4, ListStays
  <2>5. InColumn(k)' = S \cup {c} BY <1>1, <1>2, <1>3, <2>2 DEF InColumn, Only
  <2>6. \A d \in S : Before(d, c)' BY <2>2 DEF Adds
  <2>7. Lists(Append(s, c), S \cup {c})' BY <1>1, <2>4, <2>6, AppendFoundNext DEF AppendFacts
  <2>8. PICK t : t = Append(s, c) OBVIOUS
  <2>9. t = Order(k)' BY <2>5, <2>7, <2>8 DEF Sorted
  <2> QED BY <2>1, <2>8, <2>9
<1>6. ASSUME NEW j, j # k PROVE Order(j)' = Order(j)
  <2>1. PICK s : s = Order(j) OBVIOUS
  <2>2. PICK S : S = InColumn(j) OBVIOUS
  <2>3. Lists(s, S) BY <2>1, <2>2, ColumnsSorted DEF Sorted
  <2>4. Lists(s, S)' BY <2>2, <2>3, <1>4, ListStays
  <2>5. InColumn(j)' = S BY <1>1, <1>2, <1>3, <1>6, <2>2 DEF InColumn, Only
  <2>6. s = Order(j)' BY <2>4, <2>5 DEF Sorted
  <2> QED BY <2>1, <2>6
<1> QED BY <1>5, <1>6

\* No card waits for itself.
LEMMA NeverCircular ==
  ASSUME NEW E, \A x, y \in Ids : <<x, y>> \in E => x \notin Behind(E, y)
  PROVE  ~Board!Circular(E)
<1> SUFFICES ASSUME NEW S \in SUBSET Ids, S # {}, \A c \in S : \E d \in S : <<c, d>> \in E
             PROVE  FALSE
  BY DEF Board!Circular
<1> DEFINE size(c) == Cardinality(Behind(E, c))
           T == {size(c) : c \in S}
<1>1. IsFiniteSet(Ids) BY BoardAssumption, FS_Interval DEF Ids
<1>2. \A c \in Ids : IsFiniteSet(Behind(E, c)) /\ size(c) \in Nat
  BY <1>1, BehindIsClosed, FS_Subset, FS_CardinalityType
<1>3. PICK c \in S : \A d \in S : size(c) <= size(d)
  <2>1. T \subseteq Nat /\ T # {} BY <1>2
  <2>2. PICK n \in T : \A x \in T : n <= x BY <2>1, LeastNumber
  <2> QED BY <2>2
<1>4. PICK d \in S : <<c, d>> \in E OBVIOUS
<1>5. c \notin Behind(E, d) BY <1>4
<1>6. Behind(E, d) \subseteq Behind(E, c)
  <2>1. c \in Behind(E, c) /\ Closed(E, Behind(E, c)) BY BehindIsClosed
  <2>2. d \in Behind(E, c) BY <1>4, <2>1 DEF Closed
  <2> QED BY <2>1, <2>2, BehindIsLeast
<1>7. c \in Behind(E, c) BY BehindIsClosed
<1>8. size(d) < size(c)
  <2>1. Behind(E, d) # Behind(E, c) BY <1>5, <1>7
  <2> QED BY <1>2, <1>6, <2>1, FS_Subset
<1>9. size(c) <= size(d) /\ size(c) \in Nat /\ size(d) \in Nat BY <1>2, <1>3
<1> HIDE DEF size
<1> QED BY <1>8, <1>9

\* A move puts its card where its rank is.
LEMMA PutsImplement ==
  ASSUME Typed, UniqueIn(cards), Sorted', NEW c, NEW k, Puts(c, k) PROVE Board!Next
<1>1. c \in Ids /\ There(c) /\ k \in Columns /\ Only(c) /\ cards'[c].col = k
  BY DEF Puts, There
<1>2. cards'[c] # NoCard BY <1>1, BoardAssumption DEF NoCard
<1>3. c \in Board!OnBoard /\ Board!Cards(k) = InColumn(k) BY <1>1, BoardShows
<1>4. PICK i \in 1..(Len(Board!Without(Order(k), c)) + 1) :
        Order(k)' = Board!InsertAt(Board!Without(Order(k), c), i, c)
  BY <1>1, <1>2, GainsCard
<1>5. \A j : j # k => Order(j)' = Board!Without(Order(j), c) BY <1>1, LosesCard
<1>6. c \notin Board!Cards(k) /\ Wip[k] # 0 => Len(Order(k)) < Wip[k]
  <2>1. Len(Order(k)) = Cardinality(InColumn(k)) BY ColumnsSorted DEF Sorted
  <2>2. c \notin InColumn(k) => cards[c].col # k
    BY <1>1, BoardAssumption DEF InColumn, Exists, There, Ids, None
  <2> QED BY <1>3, <2>1, <2>2 DEF Puts
<1>7. k \in DoneColumns => \A d \in Ids : <<c, d>> \in deps => d \in Board!Done
  BY BoardShows DEF Puts, GateOpen
<1>8. deps' = deps BY <1>1 DEF Only
<1> DEFINE order == [j \in Columns |-> Order(j)]
           moved == [j \in Columns |-> IF j = k THEN Board!InsertAt(Board!Without(order[j], c), i, c)
                                       ELSE Board!Without(order[j], c)]
<1>9. order' = moved
  <2>1. \A j \in Columns : Order(j)' = IF j = k THEN Board!InsertAt(Board!Without(Order(j), c), i, c)
                                       ELSE Board!Without(Order(j), c)
    BY <1>4, <1>5
  <2>2. \A j \in Columns : order[j] = Order(j) OBVIOUS
  <2>3. order' = [j \in Columns |-> Order(j)'] OBVIOUS
  <2>4. \A j \in Columns : Order(j)' = moved[j] BY <2>1, <2>2
  <2> QED BY <2>3, <2>4
<1>10. order[k] = Order(k) BY <1>1
<1>11. Board!Put(c, k, i) BY <1>6, <1>7, <1>8, <1>9, <1>10 DEF Board!Put
<1>12. i \in 1..(Len(Board!Without(order[k], c)) + 1) BY <1>10
<1> QED BY <1>1, <1>3, <1>11, <1>12 DEF Board!Next

LEMMA AddsImplement ==
  ASSUME Typed, UniqueIn(cards), Sorted', NEW c, NEW k, Adds(c, k) PROVE Board!Next
<1>1. c \in Ids /\ ~There(c) /\ k \in Entry /\ k \in Columns /\ deps' = deps
  BY BoardAssumption DEF Adds, Only
<1>2. c \notin Board!OnBoard BY <1>1, BoardShows
<1>3. Order(k)' = Append(Order(k), c) /\ \A j : j # k => Order(j)' = Order(j) BY GrowsByCard
<1> DEFINE order == [j \in Columns |-> Order(j)]
<1>4. order' = [order EXCEPT ![k] = Append(order[k], c)]
  <2>1. order' = [j \in Columns |-> Order(j)'] OBVIOUS
  <2>2. \A j \in Columns : Order(j)' = IF j = k THEN Append(Order(j), c) ELSE Order(j) BY <1>3
  <2> QED BY <2>1, <2>2
<1>5. Board!Add(c, k) BY <1>1, <1>2, <1>4 DEF Board!Add
<1> QED BY <1>1, <1>5 DEF Board!Next

LEMMA DropsImplement ==
  ASSUME Typed, UniqueIn(cards), Sorted', NEW c, Drops(c) PROVE Board!Next
<1>1. c \in Ids /\ There(c) /\ cards'[c] = NoCard /\ Only(c) /\ deps' = deps
  BY DEF Drops, There, Only
<1>2. c \in Board!OnBoard BY <1>1, BoardShows
<1>3. \A j : Order(j)' = Board!Without(Order(j), c) BY <1>1, LosesCard
<1> DEFINE order == [j \in Columns |-> Order(j)]
<1>4. order' = [j \in Columns |-> Board!Without(order[j], c)]
  <2>1. order' = [j \in Columns |-> Order(j)'] OBVIOUS
  <2> QED BY <2>1, <1>3
<1>5. Board!Drop(c) BY <1>1, <1>4 DEF Board!Drop, Drops
<1> QED BY <1>2, <1>5 DEF Board!Next

LEMMA SameShown == ASSUME \A k : Order(k)' = Order(k)
                   PROVE  [k \in Columns |-> Order(k)]' = [k \in Columns |-> Order(k)]
<1>1. [k \in Columns |-> Order(k)]' = [k \in Columns |-> Order(k)'] OBVIOUS
<1> QED BY <1>1

LEMMA LinksImplement ==
  ASSUME Typed, UniqueIn(cards), Sorted', Acyclic', NEW c, NEW d, Links(c, d) \/ Unlinks(c, d)
  PROVE  Board!Next
<1>1. c \in Ids /\ d \in Ids /\ UNCHANGED cards BY DEF Links, Unlinks, There
<1>2. [k \in Columns |-> Order(k)]' = [k \in Columns |-> Order(k)]
  BY <1>1, StillIsSame, SameBoard, SameShown
<1>3. CASE Links(c, d)
  <2>1. c \in Board!OnBoard /\ d \in Board!OnBoard BY <1>3, BoardShows DEF Links
  <2>2. PICK E : E = deps' OBVIOUS
  <2>3. \A x, y \in Ids : <<x, y>> \in E => x \notin Behind(E, y) BY <2>2 DEF Acyclic
  <2>4. ~Board!Circular(deps') BY <2>2, <2>3, NeverCircular
  <2>5. Board!Link(c, d) BY <1>2, <1>3, <2>1, <2>4 DEF Board!Link, Links
  <2> QED BY <1>1, <2>5 DEF Board!Next
<1>4. CASE Unlinks(c, d)
  <2>1. Board!Unlink(c, d) BY <1>2, <1>4 DEF Board!Unlink, Unlinks
  <2> QED BY <1>1, <2>1 DEF Board!Next
<1> QED BY <1>3, <1>4

LEMMA ActsImplement ==
  ASSUME Typed, UniqueIn(cards), Sorted', Acyclic', Acts
  PROVE  Board!Next \/ UNCHANGED Board!boardVars
<1>1. CASE SameOrder /\ UNCHANGED deps
  <2>1. [k \in Columns |-> Order(k)]' = [k \in Columns |-> Order(k)] BY <1>1, SameBoard, SameShown
  <2> QED BY <1>1, <2>1 DEF Board!boardVars
<1> QED BY <1>1, PutsImplement, AddsImplement, DropsImplement, LinksImplement DEF Acts

\* ImplementsBoard: what requests do that come one at a time, a user of the board could
\* have asked of a list of cards for each column: a move displaces one card, a rebalance
\* none, limits and gates hold, and waiting is never circular.
THEOREM ImplementsBoardAlways ==
  ASSUME \A q, r \in Reqs : q = r
  PROVE  Spec => ImplementsBoard
<1>1. Init => Steady BY SteadyFirst
<1>2. Steady /\ [Next]_vars => Steady' BY SteadyNext
<1>3. Init => Board!Init
  <2> SUFFICES ASSUME Init PROVE Board!Init OBVIOUS
  <2>1. Typed /\ UniqueIn(cards) BY AloneFirst DEF Alone, TypesHold
  <2>2. \A k : Order(k) \in Seq(Ids) BY <2>1, ColumnsSorted DEF Sorted, Lists
  <2> QED BY <2>2 DEF Init, Board!Init
<1>4. Steady /\ Steady' /\ [Next]_vars => [Board!Next]_(Board!boardVars)
  <2> SUFFICES ASSUME Steady, Steady', [Next]_vars
               PROVE  Board!Next \/ UNCHANGED Board!boardVars
    OBVIOUS
  <2>1. Typed /\ UniqueIn(cards) BY DEF Steady, Alone, TypesHold
  <2>2. Sorted' /\ Acyclic' BY ColumnsSortedNext DEF Steady, Alone, TypesHold
  <2>3. CASE Next
    <3>1. PICK r \in Reqs : Submit(r) \/ MoveStep(r) \/ OtherStep(r) BY <2>3 DEF Next
    <3>2. Acts BY <3>1, StepActs
    <3> QED BY <2>1, <2>2, <3>2, ActsImplement
  <2>4. CASE UNCHANGED vars
    <3>1. UNCHANGED cards /\ UNCHANGED deps BY <2>4 DEF vars
    <3>2. Acts BY <3>1, StillIsSame DEF Acts
    <3> QED BY <2>1, <2>2, <3>2, ActsImplement
  <2> QED BY <2>3, <2>4
<1> QED BY <1>1, <1>2, <1>3, <1>4, PTL DEF Spec, ImplementsBoard, Board!Spec

=============================================================================
