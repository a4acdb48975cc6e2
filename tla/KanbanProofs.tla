---------------------------- MODULE KanbanProofs ----------------------------
(***************************************************************************)
(* Proofs about concurrent requests, for any number of them: types, ranks  *)
(* that stay unique, and a WIP limit that is exceeded by less than the     *)
(* number of request slots.  For requests that are served one after the    *)
(* other: dependencies never form a cycle, and versions grow.              *)
(* KanbanSerialProofs has the rest about such requests.                    *)
(***************************************************************************)
EXTENDS Kanban, RankProofs, FiniteSetTheorems, TLAPS

-----------------------------------------------------------------------------
(* The shape of rows and requests *)

RowFields == {"col", "rank", "version"}

Fields ==
  {"pc", "op", "card", "to", "before", "after", "expected", "mine", "todo", "lo", "hi",
   "rank", "count", "listed", "again"}

\* A creation that has not been answered is for an entry column, and a link joins cards.
IsRequest(m) ==
  /\ DOMAIN m = Fields
  /\ m.op = "create" /\ m.pc \in {"tail", "insert"} => m.to \in Entry
  /\ m.op = "link" /\ m.pc # "failed" => m.card \in Ids /\ m.to \in Ids

Rows == DOMAIN cards = Ids /\ \A c \in Ids : DOMAIN cards[c] = RowFields

Requests == DOMAIN req = Reqs /\ \A r \in Reqs : IsRequest(req[r])

\* No move into a limited column is about to be written without having been counted,
\* and no edge that would close a cycle.
Harmless(m) ==
  m.pc = "write" => /\ m.op = "move" => ~Limited(m)
                    /\ m.op = "link" => m.card \notin Behind(deps, m.to)

\* Request r goes on, and does not become a counted move.
Turn(r) == \E n : req' = [req EXCEPT ![r] = n] /\ IsRequest(n) /\ Harmless(n)

LEMMA FreeIsRequest == IsRequest(Free) /\ Harmless(Free)
BY DEF IsRequest, Fields, Free, Harmless

\* The record with which a request fails.
LEMMA FailIsRequest ==
  ASSUME NEW op PROVE LET n == [Free EXCEPT !.pc = "failed", !.op = op]
                      IN  IsRequest(n) /\ Harmless(n)
BY DEF IsRequest, Fields, Free, Harmless

LEMMA EndIsTurn == ASSUME NEW r, End(r) PROVE Turn(r)
BY FreeIsRequest DEF End, Step, Turn

LEMMA FailIsTurn == ASSUME NEW r, Fail(r) PROVE Turn(r)
<1> DEFINE n == [Free EXCEPT !.pc = "failed", !.op = req[r].op]
<1>1. req' = [req EXCEPT ![r] = n] BY DEF Fail, Step
<1>2. IsRequest(n) /\ Harmless(n) BY FailIsRequest
<1> HIDE DEF n
<1> QED BY <1>1, <1>2 DEF Turn

\* A step to a request of the right shape that is not about to write a move or an edge.
LEMMA StepIsTurn ==
  ASSUME NEW r, NEW n, Step(r, n), IsRequest(n), n.op \in {"move", "link"} => n.pc # "write"
  PROVE  Turn(r)
BY DEF Step, Turn, Harmless

LEMMA BoundsIsPlace ==
  ASSUME NEW m PROVE Bounds(m) \in {"before", "after", "end"}
BY DEF Bounds

-----------------------------------------------------------------------------
(* The steps of a move that write nothing *)

LEMMA PlacedIsTurn ==
  ASSUME NEW r, NEW m, IsRequest(m), m.op = "move", Placed(r, m)
  PROVE  Turn(r)
<1> DEFINE rank == RankBetween(m.lo, m.hi)
           long == [m EXCEPT !.pc = "count", !.lo = Open, !.hi = Open]
           short == [m EXCEPT !.pc = IF Limited(m) THEN "wip" ELSE "write",
                              !.rank = rank, !.lo = Open, !.hi = Open]
<1>1. End(r) \/ Fail(r) \/ Step(r, long) \/ Step(r, short)
  BY Zenon DEF Placed
<1>2. CASE Step(r, long)
  <2>1. IsRequest(long) /\ long.pc = "count"
    BY DEF IsRequest, Fields
  <2> HIDE DEF long
  <2> QED BY <1>2, <2>1, StepIsTurn
<1>3. CASE Step(r, short)
  <2>1. /\ DOMAIN short = Fields /\ short.op = "move" /\ short.to = m.to
        /\ short.mine = m.mine /\ short.pc = IF Limited(m) THEN "wip" ELSE "write"
    BY DEF IsRequest, Fields
  <2> HIDE DEF short
  <2>2. IsRequest(short) /\ Harmless(short)
    BY <2>1 DEF IsRequest, Harmless, Limited
  <2> QED BY <1>3, <2>2 DEF Turn, Step
<1> QED BY <1>1, <1>2, <1>3, EndIsTurn, FailIsTurn

LEMMA QuietMove ==
  ASSUME Requests, NEW r \in Reqs,
         LoadMove(r) \/ ReadDeps(r) \/ CheckDep(r) \/ ReadBefore(r) \/ ReadAfter(r)
           \/ ReadEnd(r) \/ CountCards(r) \/ ListCards(r)
  PROVE  Turn(r) /\ UNCHANGED cards
<1> DEFINE m == req[r]
<1>0. IsRequest(m) BY DEF Requests
<1>1. CASE LoadMove(r)
  <2> DEFINE n == [m EXCEPT !.mine = cards[m.card]]
             g == [n EXCEPT !.pc = "gate"]
             b == [n EXCEPT !.pc = Bounds(n)]
  <2>1. (End(r) \/ Step(r, g) \/ Step(r, b)) /\ m.op = "move" /\ UNCHANGED cards
    BY <1>1, Zenon DEF LoadMove, At
  <2>2. IsRequest(n) /\ n.op = "move" BY <1>0, <2>1 DEF IsRequest, Fields
  <2> HIDE DEF n
  <2>3. IsRequest(g) /\ g.pc = "gate" BY <2>2 DEF IsRequest, Fields
  <2>4. IsRequest(b) /\ b.pc = Bounds(n) BY <2>2 DEF IsRequest, Fields
  <2> HIDE DEF g, b
  <2>5. b.pc # "write" BY <2>4, BoundsIsPlace
  <2> QED BY <2>1, <2>3, <2>4, <2>5, EndIsTurn, StepIsTurn
<1>2. CASE ReadDeps(r)
  <2> DEFINE n == [m EXCEPT !.todo = {d \in Ids : <<m.card, d>> \in deps}]
             p == IF n.todo = {} THEN Bounds(n) ELSE "gating"
             g == [n EXCEPT !.pc = p]
  <2>1. Step(r, g) /\ m.op = "move" /\ UNCHANGED cards
    BY <1>2, Zenon DEF ReadDeps, At
  <2>2. IsRequest(n) /\ n.op = "move" BY <1>0, <2>1 DEF IsRequest, Fields
  <2>3. p # "write" BY BoundsIsPlace
  <2> HIDE DEF n, p
  <2>4. IsRequest(g) /\ g.pc = p BY <2>2 DEF IsRequest, Fields
  <2> HIDE DEF g
  <2> QED BY <2>1, <2>3, <2>4, StepIsTurn
<1>3. CASE CheckDep(r)
  <2>1. UNCHANGED cards /\ m.op = "move" /\ m.pc = "gating" BY <1>3 DEF CheckDep, At
  <2>2. PICK d \in m.todo :
          LET n == [m EXCEPT !.todo = @ \ {d}]
          IN  IF Exists(d) /\ cards[d].col \notin DoneColumns THEN End(r)
              ELSE Step(r, IF n.todo = {} THEN [n EXCEPT !.pc = Bounds(n)] ELSE n)
    BY <1>3 DEF CheckDep
  <2> DEFINE n == [m EXCEPT !.todo = @ \ {d}]
             b == [n EXCEPT !.pc = Bounds(n)]
  <2>3. End(r) \/ Step(r, n) \/ Step(r, b) BY <2>2, Zenon
  <2>4. IsRequest(n) /\ n.op = "move" /\ n.pc = "gating" BY <1>0, <2>1 DEF IsRequest, Fields
  <2> HIDE DEF n
  <2>5. IsRequest(b) /\ b.pc = Bounds(n) BY <2>4 DEF IsRequest, Fields
  <2> HIDE DEF b
  <2>6. b.pc # "write" BY <2>5, BoundsIsPlace
  <2> QED BY <2>1, <2>3, <2>4, <2>5, <2>6, EndIsTurn, StepIsTurn
<1>4. CASE ReadBefore(r)
  <2> DEFINE n == [m EXCEPT !.lo = cards[m.before].rank]
             a == [n EXCEPT !.pc = "after"]
  <2>1. (End(r) \/ Step(r, a) \/ Placed(r, n)) /\ m.op = "move" /\ UNCHANGED cards
    BY <1>4, Zenon DEF ReadBefore, At
  <2>2. IsRequest(n) /\ n.op = "move" BY <1>0, <2>1 DEF IsRequest, Fields
  <2> HIDE DEF n
  <2>3. IsRequest(a) /\ a.pc = "after" BY <2>2 DEF IsRequest, Fields
  <2> HIDE DEF a
  <2> QED BY <2>1, <2>2, <2>3, EndIsTurn, StepIsTurn, PlacedIsTurn
<1>5. CASE ReadAfter(r)
  <2> DEFINE n == [m EXCEPT !.hi = cards[m.after].rank]
  <2>1. (End(r) \/ Placed(r, n)) /\ m.op = "move" /\ UNCHANGED cards
    BY <1>5, Zenon DEF ReadAfter, At
  <2>2. IsRequest(n) /\ n.op = "move" BY <1>0, <2>1 DEF IsRequest, Fields
  <2> HIDE DEF n
  <2> QED BY <2>1, <2>2, EndIsTurn, PlacedIsTurn
<1>6. CASE ReadEnd(r)
  <2> DEFINE n == [m EXCEPT !.lo = LastRank(InColumn(m.to) \ {m.card})]
  <2>1. Placed(r, n) /\ m.op = "move" /\ UNCHANGED cards
    BY <1>6, Zenon DEF ReadEnd, At
  <2>2. IsRequest(n) /\ n.op = "move" BY <1>0, <2>1 DEF IsRequest, Fields
  <2> HIDE DEF n
  <2> QED BY <2>1, <2>2, PlacedIsTurn
<1>7. CASE CountCards(r)
  <2> DEFINE n == [m EXCEPT !.pc = "list", !.count = Cardinality(InColumn(m.to))]
  <2>1. Step(r, n) /\ m.op = "move" /\ UNCHANGED cards
    BY <1>7, Zenon DEF CountCards, At
  <2>2. IsRequest(n) /\ n.pc = "list" BY <1>0, <2>1 DEF IsRequest, Fields
  <2> HIDE DEF n
  <2> QED BY <2>1, <2>2, StepIsTurn
<1>8. CASE ListCards(r)
  <2>1. PICK l : Step(r, [m EXCEPT !.pc = "respread", !.listed = l])
    BY <1>8 DEF ListCards
  <2> DEFINE n == [m EXCEPT !.pc = "respread", !.listed = l]
  <2>2. m.op = "move" /\ UNCHANGED cards BY <1>8 DEF ListCards, At
  <2>3. IsRequest(n) /\ n.pc = "respread" BY <1>0, <2>2 DEF IsRequest, Fields
  <2>4. Step(r, n) BY <2>1
  <2> HIDE DEF n
  <2> QED BY <2>2, <2>3, <2>4, StepIsTurn
<1> QED BY <1>1, <1>2, <1>3, <1>4, <1>5, <1>6, <1>7, <1>8

-----------------------------------------------------------------------------
(* The other steps that leave the cards alone *)

LEMMA SubmitQuiet ==
  ASSUME NEW r \in Reqs, Submit(r)
  PROVE  Turn(r) /\ UNCHANGED cards
<1>1. PICK op \in Ops, c \in Ids :
       \/ /\ op = "move" /\ Exists(c) /\ cards[c].version < MaxVersion
          /\ \A d \in Ids : cards[d].version <= MaxVersion
          /\ \E k \in Columns, b, a \in Ids \cup {None}, v \in 1..cards[c].version :
               /\ AnyAnchors \/ Adjacent(c, k, b, a)
               /\ Step(r, [Free EXCEPT !.pc = "load", !.op = op, !.card = c, !.to = k,
                                       !.before = b, !.after = a, !.expected = v])
       \/ /\ op = "create" /\ c = 1 /\ ~Exists(MaxId)
          /\ \E k \in Entry :
               Step(r, [Free EXCEPT !.pc = "tail", !.op = op, !.to = k])
       \/ /\ op = "edit" /\ Exists(c) /\ cards[c].version < MaxVersion
          /\ \E v \in {0, cards[c].version} :
               Step(r, [Free EXCEPT !.pc = "load", !.op = op, !.card = c, !.expected = v])
       \/ /\ op = "delete" /\ Exists(c)
          /\ Step(r, [Free EXCEPT !.pc = "load", !.op = op, !.card = c])
       \/ /\ op = "link" /\ Exists(c)
          /\ \E d \in Ids \ {c} : Exists(d) /\
               Step(r, [Free EXCEPT !.pc = "load", !.op = op, !.card = c, !.to = d])
       \/ /\ op = "unlink"
          /\ \E d \in Ids : <<c, d>> \in deps /\
               Step(r, [Free EXCEPT !.pc = "load", !.op = op, !.card = c, !.to = d])
  BY Zenon DEF Submit
<1>2. UNCHANGED cards BY DEF Submit
<1>3. ASSUME NEW k, NEW b, NEW a, NEW v, op = "move",
             Step(r, [Free EXCEPT !.pc = "load", !.op = op, !.card = c, !.to = k,
                                  !.before = b, !.after = a, !.expected = v])
      PROVE  Turn(r)
  <2> DEFINE n == [Free EXCEPT !.pc = "load", !.op = op, !.card = c, !.to = k,
                               !.before = b, !.after = a, !.expected = v]
  <2>1. IsRequest(n) /\ n.pc = "load" BY <1>3 DEF IsRequest, Fields, Free
  <2>2. Step(r, n) BY <1>3
  <2> HIDE DEF n
  <2> QED BY <2>1, <2>2, StepIsTurn
<1>4. ASSUME NEW k \in Entry, op = "create",
             Step(r, [Free EXCEPT !.pc = "tail", !.op = op, !.to = k])
      PROVE  Turn(r)
  <2> DEFINE n == [Free EXCEPT !.pc = "tail", !.op = op, !.to = k]
  <2>1. IsRequest(n) /\ n.pc = "tail" BY <1>4 DEF IsRequest, Fields, Free
  <2>2. Step(r, n) BY <1>4
  <2> HIDE DEF n
  <2> QED BY <2>1, <2>2, StepIsTurn
<1>5. ASSUME NEW v, op = "edit",
             Step(r, [Free EXCEPT !.pc = "load", !.op = op, !.card = c, !.expected = v])
      PROVE  Turn(r)
  <2> DEFINE n == [Free EXCEPT !.pc = "load", !.op = op, !.card = c, !.expected = v]
  <2>1. IsRequest(n) /\ n.pc = "load" BY <1>5 DEF IsRequest, Fields, Free
  <2>2. Step(r, n) BY <1>5
  <2> HIDE DEF n
  <2> QED BY <2>1, <2>2, StepIsTurn
<1>6. ASSUME op = "delete", Step(r, [Free EXCEPT !.pc = "load", !.op = op, !.card = c])
      PROVE  Turn(r)
  <2> DEFINE n == [Free EXCEPT !.pc = "load", !.op = op, !.card = c]
  <2>1. IsRequest(n) /\ n.pc = "load" BY <1>6 DEF IsRequest, Fields, Free
  <2>2. Step(r, n) BY <1>6
  <2> HIDE DEF n
  <2> QED BY <2>1, <2>2, StepIsTurn
<1>7. ASSUME NEW d \in Ids, Step(r, [Free EXCEPT !.pc = "load", !.op = op, !.card = c, !.to = d])
      PROVE  Turn(r)
  <2> DEFINE n == [Free EXCEPT !.pc = "load", !.op = op, !.card = c, !.to = d]
  <2>1. IsRequest(n) /\ n.pc = "load" BY DEF IsRequest, Fields, Free
  <2>2. Step(r, n) BY <1>7
  <2> HIDE DEF n
  <2> QED BY <2>1, <2>2, StepIsTurn
<1> QED BY <1>1, <1>2, <1>3, <1>4, <1>5, <1>6, <1>7, ZenonT(60)

\* A request that is not a move goes on with another program counter.
LEMMA AdvanceIsTurn ==
  ASSUME Requests, NEW r \in Reqs, NEW p,
         req[r].op \notin {"move", "create"}, req[r].pc # "failed",
         req[r].op = "link" => p # "write",
         Step(r, [req[r] EXCEPT !.pc = p])
  PROVE  Turn(r)
<1> DEFINE n == [req[r] EXCEPT !.pc = p]
<1>1. IsRequest(n) /\ n.op # "move" /\ (n.op = "link" => n.pc # "write")
  BY DEF Requests, IsRequest, Fields
<1>2. Step(r, n) OBVIOUS
<1> HIDE DEF n
<1> QED BY <1>1, <1>2, StepIsTurn

LEMMA QuietOther ==
  ASSUME Requests, NEW r \in Reqs,
         ReadTail(r) \/ LoadEdit(r) \/ LoadDelete(r) \/ LoadLink(r) \/ CheckCycle(r)
           \/ AddDep(r) \/ RemoveDep(r)
  PROVE  Turn(r) /\ UNCHANGED cards
<1> DEFINE m == req[r]
<1>0. IsRequest(m) BY DEF Requests
<1>1. CASE ReadTail(r)
  <2> DEFINE last == LastRank(InColumn(m.to))
             n == [m EXCEPT !.pc = "insert", !.rank = RankBetween(last, Open)]
  <2>1. (Fail(r) \/ Step(r, n)) /\ m.op = "create" /\ m.pc = "tail" /\ UNCHANGED cards
    BY <1>1, Zenon DEF ReadTail, At
  <2>2. IsRequest(n) /\ n.op = "create"
    BY <1>0, <2>1 DEF IsRequest, Fields
  <2> HIDE DEF n
  <2> QED BY <2>1, <2>2, FailIsTurn, StepIsTurn
<1>2. CASE LoadEdit(r)
  <2> DEFINE n == [m EXCEPT !.mine = cards[m.card]]
             w == [n EXCEPT !.pc = "write"]
  <2>1. (End(r) \/ Step(r, w)) /\ m.op = "edit" /\ UNCHANGED cards
    BY <1>2, Zenon DEF LoadEdit, At
  <2>2. IsRequest(n) /\ n.op = "edit" BY <1>0, <2>1 DEF IsRequest, Fields
  <2> HIDE DEF n
  <2>3. IsRequest(w) /\ w.op = "edit" BY <2>2 DEF IsRequest, Fields
  <2> HIDE DEF w
  <2> QED BY <2>1, <2>3, EndIsTurn, StepIsTurn
<1>3. CASE LoadDelete(r)
  <2>1. (End(r) \/ Step(r, [m EXCEPT !.pc = "write"])) /\ m.op = "delete" /\ m.pc = "load" /\ UNCHANGED cards
    BY <1>3, Zenon DEF LoadDelete, At
  <2> QED BY <2>1, EndIsTurn, AdvanceIsTurn
<1>4. CASE LoadLink(r)
  <2>1. /\ End(r) \/ Step(r, [m EXCEPT !.pc = "check"])
        /\ m.op = "link" /\ m.pc = "load" /\ UNCHANGED cards
    BY <1>4, Zenon DEF LoadLink, At
  <2> QED BY <2>1, EndIsTurn, AdvanceIsTurn
<1>5. CASE CheckCycle(r)
  <2> DEFINE n == [m EXCEPT !.pc = "write"]
  <2>1. /\ m.op = "link" /\ m.pc = "check" /\ UNCHANGED cards
        /\ End(r) \/ (m.card \notin Behind(deps, m.to) /\ Step(r, n))
    BY <1>5, Zenon DEF CheckCycle, At
  <2>2. IsRequest(n) /\ n.op = "link" /\ n.card = m.card /\ n.to = m.to
    BY <1>0, <2>1 DEF IsRequest, Fields
  <2> HIDE DEF n
  <2> QED BY <2>1, <2>2, EndIsTurn DEF Turn, Step, Harmless
<1>6. CASE AddDep(r) BY <1>6, EndIsTurn, FailIsTurn DEF AddDep
<1>7. CASE RemoveDep(r) BY <1>7, EndIsTurn DEF RemoveDep
<1> QED BY <1>1, <1>2, <1>3, <1>4, <1>5, <1>6, <1>7

-----------------------------------------------------------------------------
(* The steps that write cards *)

\* No two cards of a column share a rank, in the table t.
UniqueIn(t) ==
  \A c, d \in Ids :
    c # d /\ t[c] # NoCard /\ t[d] # NoCard /\ t[c].col = t[d].col => t[c].rank # t[d].rank

\* Table new is of the same shape, and no card came into column k.
NoneCame(new, k) ==
  \A c \in Ids : new[c] # NoCard /\ new[c].col = k => Exists(c) /\ cards[c].col = k

IsTable(t) == DOMAIN t = Ids /\ \A c \in Ids : DOMAIN t[c] = RowFields

\* A flush that the unique index lets through keeps ranks unique.
LEMMA NoClash ==
  ASSUME NEW old, NEW new, NEW U, UniqueIn(old),
         \A c \in Ids \ U : new[c] = old[c], ~Clash(old, new, U)
  PROVE  UniqueIn(new)
<1> SUFFICES ASSUME NEW c \in Ids, NEW d \in Ids, c # d, new[c] # NoCard, new[d] # NoCard,
                    new[c].col = new[d].col
             PROVE  new[c].rank # new[d].rank
  BY DEF UniqueIn
<1>1. CASE c \notin U /\ d \notin U BY <1>1 DEF UniqueIn
<1>2. ASSUME NEW x \in Ids, NEW y \in Ids, x # y, x \in U, new[y] # NoCard, y \notin U \/ y < x,
             new[x].col = new[y].col
      PROVE  new[x].rank # new[y].rank
  BY <1>2 DEF Clash
<1>3. c < d \/ d < c BY BoardAssumption DEF Ids
<1> QED BY <1>1, <1>2, <1>3

LEMMA RespreadWrites ==
  ASSUME Rows, Requests, NEW r \in Reqs, Respread(r)
  PROVE  /\ Turn(r) /\ Rows' /\ \A k : NoneCame(cards', k)
         /\ UniqueIn(cards) => UniqueIn(cards')
<1> DEFINE m      == req[r]
           listed == {m.listed[i][1] : i \in DOMAIN m.listed}
           pos(c) == CHOOSE i \in DOMAIN m.listed : m.listed[i][1] = c
           ranked == {c \in listed : pos(c) <= m.count}
           fresh(c, row) == [row EXCEPT !.rank = RebalanceRanks[m.count][pos(c)],
                                        !.version = m.listed[pos(c)][2] + 1]
           pass1  == [c \in Ids |-> IF c \in listed
                                    THEN [cards[c] EXCEPT !.rank = Temp(pos(c))] ELSE cards[c]]
           pass2  == [c \in Ids |-> IF c \in ranked THEN fresh(c, pass1[c]) ELSE pass1[c]]
           mine   == IF m.card \in ranked THEN fresh(m.card, m.mine)
                     ELSE IF m.card \in listed THEN [m.mine EXCEPT !.rank = Temp(pos(m.card))]
                     ELSE m.mine
           n      == [m EXCEPT !.pc = Bounds(m), !.mine = mine, !.again = TRUE,
                               !.count = 0, !.listed = <<>>]
<1>1. /\ m.op = "move"
      /\ \/ Fail(r) /\ UNCHANGED cards
         \/ /\ \A c \in listed : Exists(c)
            /\ ~Clash(cards, pass1, listed) /\ ~Clash(pass1, pass2, ranked)
            /\ cards' = pass2 /\ Step(r, n)
  BY Zenon DEF Respread, At
<1>2. CASE Fail(r) /\ UNCHANGED cards
  BY <1>2, FailIsTurn, BoardAssumption DEF Rows, NoneCame, Exists, Ids, None
<1>3. CASE /\ \A c \in listed : Exists(c)
           /\ ~Clash(cards, pass1, listed) /\ ~Clash(pass1, pass2, ranked)
           /\ cards' = pass2 /\ Step(r, n)
  <2>1. Turn(r)
    <3>1. IsRequest(m) BY DEF Requests
    <3> HIDE DEF mine
    <3>2. IsRequest(n) /\ n.pc = Bounds(m) BY <3>1, <1>1 DEF IsRequest, Fields
    <3>3. Step(r, n) BY <1>3
    <3> HIDE DEF n
    <3> QED BY <3>2, <3>3, BoundsIsPlace, StepIsTurn
  <2>2. /\ DOMAIN pass1 = Ids /\ \A c \in Ids \ listed : pass1[c] = cards[c]
        /\ \A c \in Ids : DOMAIN pass1[c] = RowFields /\ pass1[c].col = cards[c].col
    <3> HIDE DEF pos, listed
    <3> QED BY DEF Rows, RowFields
  <2>3. ranked \subseteq listed OBVIOUS
  <2>4. /\ DOMAIN pass2 = Ids /\ \A c \in Ids \ ranked : pass2[c] = pass1[c]
        /\ \A c \in Ids : DOMAIN pass2[c] = RowFields /\ pass2[c].col = pass1[c].col
    <3> HIDE DEF pos, listed, pass1, ranked
    <3> QED BY <2>2 DEF RowFields
  <2> HIDE DEF pos, listed, pass1, ranked, pass2
  <2>5. Rows' BY <1>3, <2>4 DEF Rows
  <2>6. ASSUME NEW k PROVE NoneCame(cards', k)
    <3> SUFFICES ASSUME NEW c \in Ids, cards'[c] # NoCard, cards'[c].col = k
                 PROVE  Exists(c) /\ cards[c].col = k
      BY DEF NoneCame
    <3>1. cards[c].col = k BY <1>3, <2>2, <2>4
    <3>2. CASE c \in listed BY <3>1, <3>2, <1>3
    <3>3. CASE c \notin listed
      <4>1. cards[c] # NoCard BY <3>3, <1>3, <2>2, <2>3, <2>4
      <4> QED BY <4>1, <3>1, BoardAssumption DEF Exists, Ids, None
    <3> QED BY <3>2, <3>3
  <2>7. UniqueIn(cards) => UniqueIn(cards')
    BY <1>3, <2>2, <2>4, NoClash
  <2> QED BY <2>1, <2>5, <2>6, <2>7
<1> QED BY <1>1, <1>2, <1>3

LEMMA InsertWrites ==
  ASSUME Rows, Requests, NEW r \in Reqs, InsertCard(r)
  PROVE  /\ Turn(r) /\ Rows' /\ \A k \in Columns \ Entry : NoneCame(cards', k)
         /\ UniqueIn(cards) => UniqueIn(cards')
<1> DEFINE m   == req[r]
           id  == CHOOSE c \in Ids : /\ \A d \in Ids : Exists(d) => d < c
                                     /\ c = 1 \/ Exists(c - 1)
           row == [col |-> m.to, rank |-> m.rank, version |-> 1]
           new == [cards EXCEPT ![id] = row]
<1>1. /\ m.op = "create" /\ m.pc = "insert"
      /\ \/ Fail(r) /\ UNCHANGED cards
         \/ ~Clash(cards, new, {id}) /\ cards' = new /\ End(r)
  BY Zenon DEF InsertCard, At
<1>2. Turn(r) BY <1>1, EndIsTurn, FailIsTurn
<1>3. CASE UNCHANGED cards
  BY <1>2, <1>3, BoardAssumption DEF Rows, NoneCame, Exists, Ids, None
<1>4. CASE ~Clash(cards, new, {id}) /\ cards' = new
  <2>1. m.to \in Entry BY <1>1 DEF Requests, IsRequest
  <2>2. DOMAIN row = RowFields /\ row.col = m.to BY DEF RowFields
  <2> HIDE DEF id, row
  <2>3. DOMAIN new = Ids /\ \A c \in Ids : new[c] = IF c = id THEN row ELSE cards[c]
    BY DEF Rows
  <2> HIDE DEF new
  <2>4. Rows' BY <1>4, <2>2, <2>3 DEF Rows
  <2>5. \A k \in Columns \ Entry : NoneCame(cards', k)
    BY <1>4, <2>1, <2>2, <2>3, BoardAssumption DEF NoneCame, Exists, Ids, None
  <2>6. UniqueIn(cards) => UniqueIn(cards')
    BY <1>4, <2>3, NoClash
  <2> QED BY <1>2, <2>4, <2>5, <2>6
<1> QED BY <1>1, <1>3, <1>4

LEMMA EditWrites ==
  ASSUME Rows, Requests, NEW r \in Reqs, WriteEdit(r) \/ DeleteCard(r)
  PROVE  /\ Turn(r) /\ Rows' /\ \A k : NoneCame(cards', k)
         /\ UniqueIn(cards) => UniqueIn(cards')
<1> DEFINE m == req[r]
           v == m.mine.version + 1
           row == [cards[m.card] EXCEPT !.version = v]
<1>1. \/ Fail(r) /\ UNCHANGED cards
      \/ /\ End(r) /\ Exists(m.card)
         /\ cards' = [cards EXCEPT ![m.card] = [cards[m.card] EXCEPT !.version = v]]
      \/ End(r) /\ cards' = [cards EXCEPT ![m.card] = NoCard]
  BY Zenon DEF WriteEdit, DeleteCard
<1>2. Turn(r) BY <1>1, EndIsTurn, FailIsTurn
<1> HIDE DEF v
<1>3. CASE UNCHANGED cards
  BY <1>2, <1>3, BoardAssumption DEF Rows, NoneCame, Exists, Ids, None
<1>4. CASE Exists(m.card) /\ cards' = [cards EXCEPT ![m.card] = row]
  <2>1. DOMAIN cards' = Ids /\ \A c \in Ids : cards'[c] = IF c = m.card THEN row ELSE cards[c]
    BY <1>4 DEF Rows
  <2>2. m.card \in Ids => DOMAIN row = RowFields /\ row.col = cards[m.card].col
                            /\ row.rank = cards[m.card].rank
    BY DEF Rows, RowFields
  <2> HIDE DEF row
  <2>3. Rows' BY <2>1, <2>2 DEF Rows
  <2>4. \A c \in Ids : /\ cards'[c] # NoCard => cards[c] # NoCard
                       /\ cards'[c].col = cards[c].col /\ cards'[c].rank = cards[c].rank
    BY <1>4, <2>1, <2>2 DEF Exists
  <2>5. \A k : NoneCame(cards', k)
    BY <2>4, BoardAssumption DEF NoneCame, Exists, Ids, None
  <2>6. UniqueIn(cards) => UniqueIn(cards')
    BY <2>4 DEF UniqueIn
  <2> QED BY <1>2, <2>3, <2>5, <2>6
<1>5. CASE cards' = [cards EXCEPT ![m.card] = NoCard]
  <2>1. DOMAIN cards' = Ids /\ \A c \in Ids : cards'[c] = IF c = m.card THEN NoCard ELSE cards[c]
    BY <1>5 DEF Rows
  <2>2. DOMAIN NoCard = RowFields BY DEF NoCard, RowFields
  <2>3. Rows' BY <2>1, <2>2 DEF Rows
  <2>4. \A k : NoneCame(cards', k)
    BY <2>1, BoardAssumption DEF NoneCame, Exists, Ids, None
  <2>5. UniqueIn(cards) => UniqueIn(cards')
    BY <2>1 DEF UniqueIn
  <2> QED BY <1>2, <2>3, <2>4, <2>5
<1> QED BY <1>1, <1>3, <1>4, <1>5

\* The write of a move brings at most its own card, and only into the column it is for.
LEMMA MoveWrites ==
  ASSUME Rows, Requests, NEW r \in Reqs, WriteMove(r)
  PROVE  /\ Turn(r) /\ Rows'
         /\ UniqueIn(cards) => UniqueIn(cards')
         /\ \A k : \/ NoneCame(cards', k)
                   \/ /\ At(r, "move", "write") /\ req[r].to = k /\ req[r].mine.col # k
                      /\ End(r)
                      /\ \A c \in Ids \ {req[r].card} : cards'[c] = cards[c]
<1> DEFINE m   == req[r]
           row == Updated(cards[m.card], m.mine, m.to, m.rank)
           new == [cards EXCEPT ![m.card] = row]
<1>1. /\ At(r, "move", "write")
      /\ \/ Fail(r) /\ UNCHANGED cards
         \/ Exists(m.card) /\ ~Clash(cards, new, {m.card}) /\ cards' = new /\ End(r)
  BY Zenon DEF WriteMove
<1>2. Turn(r) BY <1>1, EndIsTurn, FailIsTurn
<1>3. CASE UNCHANGED cards
  BY <1>2, <1>3, BoardAssumption DEF Rows, NoneCame, Exists, Ids, None
<1>4. CASE Exists(m.card) /\ ~Clash(cards, new, {m.card}) /\ cards' = new /\ End(r)
  <2>1. /\ DOMAIN row = RowFields
        /\ row.col = IF m.to = m.mine.col THEN cards[m.card].col ELSE m.to
    BY DEF Updated, RowFields
  <2> HIDE DEF row
  <2>2. DOMAIN new = Ids /\ \A c \in Ids : new[c] = IF c = m.card THEN row ELSE cards[c]
    BY DEF Rows
  <2> HIDE DEF new
  <2>3. Rows' BY <1>4, <2>1, <2>2 DEF Rows
  <2>4. UniqueIn(cards) => UniqueIn(cards')
    BY <1>4, <2>2, NoClash
  <2>5. ASSUME NEW k, m.to # k \/ m.mine.col = k
        PROVE  NoneCame(cards', k)
    BY <1>4, <2>1, <2>2, <2>5, BoardAssumption DEF NoneCame, Exists, Ids, None
  <2>6. \A c \in Ids \ {m.card} : cards'[c] = cards[c] BY <1>4, <2>2
  <2> QED BY <1>1, <1>2, <1>4, <2>3, <2>4, <2>5, <2>6
<1> QED BY <1>1, <1>3, <1>4

-----------------------------------------------------------------------------
(* Every step *)

LEMMA TurnKeepsRequests ==
  ASSUME Requests, NEW r \in Reqs, Turn(r)
  PROVE  Requests'
BY DEF Turn, Requests

\* Cards of a column are finitely many.
LEMMA InColumnFinite ==
  ASSUME NEW k
  PROVE  IsFiniteSet(InColumn(k)) /\ Cardinality(InColumn(k)) \in Nat
<1>1. InColumn(k) \subseteq 1..MaxId BY DEF InColumn, Ids
<1>2. IsFiniteSet(1..MaxId) BY BoardAssumption, FS_Interval
<1>3. IsFiniteSet(InColumn(k)) BY <1>1, <1>2, FS_Subset
<1> QED BY <1>3, FS_CardinalityType

\* Request r, which goes on, is a move that found room in its column.
Counted(r) ==
  \E n : /\ req' = [req EXCEPT ![r] = n]
         /\ IsRequest(n) /\ n.to = req[r].to
         /\ n.to \in Columns => Cardinality(InColumn(n.to)) < Wip[n.to]

LEMMA CountCounts ==
  ASSUME Requests, NEW r \in Reqs, CountWip(r)
  PROVE  UNCHANGED cards /\ Requests' /\ (Turn(r) \/ Counted(r))
<1> DEFINE m == req[r]
           n == [m EXCEPT !.pc = "write"]
<1>1. /\ UNCHANGED cards /\ m.op = "move"
      /\ \/ End(r)
         \/ ~(Cardinality(InColumn(m.to)) >= Wip[m.to]) /\ Step(r, n)
  BY Zenon DEF CountWip, At
<1>2. IsRequest(n) /\ n.to = m.to
  BY <1>1 DEF Requests, IsRequest, Fields
<1> HIDE DEF n
<1>3. CASE End(r) BY <1>1, <1>3, EndIsTurn, TurnKeepsRequests
<1>4. CASE ~(Cardinality(InColumn(m.to)) >= Wip[m.to]) /\ Step(r, n)
  <2>1. Requests' BY <1>2, <1>4 DEF Requests, Step
  <2>2. ASSUME n.to \in Columns PROVE Cardinality(InColumn(n.to)) < Wip[n.to]
    <3>1. Wip[n.to] \in Nat BY <2>2, BoardAssumption
    <3>2. Cardinality(InColumn(n.to)) \in Nat BY InColumnFinite
    <3> QED BY <1>2, <1>4, <3>1, <3>2
  <2> QED BY <1>1, <1>2, <1>4, <2>1, <2>2 DEF Counted, Step
<1> QED BY <1>1, <1>3, <1>4

\* What a step may do to the cards and to the moves that are about to be written.
LEMMA EachStep ==
  ASSUME Rows, Requests, Next
  PROVE  /\ Rows' /\ Requests' /\ (UniqueIn(cards) => UniqueIn(cards'))
         /\ \E r \in Reqs :
              \/ Turn(r) /\ \A k \in Columns \ Entry : NoneCame(cards', k)
              \/ UNCHANGED cards /\ Counted(r)
              \/ WriteMove(r)
<1>1. PICK r \in Reqs : Submit(r) \/ MoveStep(r) \/ OtherStep(r)
  BY DEF Next
<1>2. ASSUME UNCHANGED cards
      PROVE  Rows' /\ (UniqueIn(cards) => UniqueIn(cards')) /\ \A k : NoneCame(cards', k)
  BY <1>2, BoardAssumption DEF Rows, NoneCame, Exists, Ids, None
<1>3. CASE Submit(r)
  BY <1>2, <1>3, SubmitQuiet, TurnKeepsRequests
<1>4. CASE \/ LoadMove(r) \/ ReadDeps(r) \/ CheckDep(r) \/ ReadBefore(r) \/ ReadAfter(r)
           \/ ReadEnd(r) \/ CountCards(r) \/ ListCards(r)
  BY <1>2, <1>4, QuietMove, TurnKeepsRequests
<1>5. CASE \/ ReadTail(r) \/ LoadEdit(r) \/ LoadDelete(r) \/ LoadLink(r) \/ CheckCycle(r)
           \/ AddDep(r) \/ RemoveDep(r)
  BY <1>2, <1>5, QuietOther, TurnKeepsRequests
<1>6. CASE Respread(r) BY <1>6, RespreadWrites, TurnKeepsRequests
<1>7. CASE CountWip(r) BY <1>2, <1>7, CountCounts
<1>8. CASE WriteMove(r) BY <1>8, MoveWrites, TurnKeepsRequests
<1>9. CASE InsertCard(r) BY <1>9, InsertWrites, TurnKeepsRequests
<1>10. CASE WriteEdit(r) \/ DeleteCard(r) BY <1>10, EditWrites, TurnKeepsRequests
<1> QED
  BY <1>1, <1>3, <1>4, <1>5, <1>6, <1>7, <1>8, <1>9, <1>10, Zenon DEF MoveStep, OtherStep

\* At first there are no cards and no requests.
LEMMA InitShape ==
  ASSUME Init
  PROVE  Rows /\ Requests /\ UniqueIn(cards)
<1>1. Rows /\ UniqueIn(cards) BY DEF Init, Rows, UniqueIn, NoCard, RowFields
<1>2. Requests BY FreeIsRequest DEF Init, Requests
<1> QED BY <1>1, <1>2

\* UniqueRanks is inductive together with the shape of the rows: only a flush that the
\* unique index let through writes a rank or a column.
THEOREM UniqueRanksAlways == Spec => []UniqueRanks
<1> DEFINE IInv == Rows /\ Requests /\ UniqueIn(cards)
<1>1. Init => IInv BY InitShape
<1>2. IInv /\ [Next]_vars => IInv'
  <2> SUFFICES ASSUME IInv, [Next]_vars PROVE IInv' OBVIOUS
  <2>1. CASE Next BY <2>1, EachStep
  <2>2. CASE UNCHANGED vars BY <2>2 DEF vars, Rows, Requests
  <2> QED BY <2>1, <2>2
<1>3. IInv => UniqueRanks BY DEF UniqueIn, UniqueRanks, Exists
<1> QED BY <1>1, <1>2, <1>3, PTL DEF Spec

-----------------------------------------------------------------------------
(* WIP limits *)

\* The moves into column k that found room and have not been written yet.
Passed(k) == {r \in Reqs : At(r, "move", "write") /\ req[r].to = k /\ req[r].mine.col # k}

\* WipOvershootBounded with the moves that are on their way: a count below the limit
\* leaves every request free to be such a move, and writing one turns it into a card.
Room ==
  \A k \in Columns \ Entry :
    Wip[k] # 0 =>
      Cardinality(InColumn(k)) + Cardinality(Passed(k)) <= Wip[k] + Cardinality(Reqs) - 1

LEMMA PassedFinite ==
  ASSUME NEW k
  PROVE  /\ IsFiniteSet(Passed(k)) /\ Cardinality(Passed(k)) \in Nat
         /\ Cardinality(Passed(k)) <= Cardinality(Reqs)
<1>1. Passed(k) \subseteq Reqs BY DEF Passed
<1>2. IsFiniteSet(Reqs) BY BoardAssumption
<1> QED BY <1>1, <1>2, FS_Subset, FS_CardinalityType

\* A request that goes on is not among the moves on their way to a limited column,
\* unless it has been counted.
LEMMA TurnPasses ==
  ASSUME Requests, NEW r \in Reqs, Turn(r), NEW k \in Columns, Wip[k] # 0
  PROVE  Passed(k)' \subseteq Passed(k) \ {r}
<1>1. PICK n : req' = [req EXCEPT ![r] = n] /\ Harmless(n) BY DEF Turn
<1>2. req'[r] = n /\ \A q \in Reqs \ {r} : req'[q] = req[q]
  BY <1>1 DEF Requests
<1> QED BY <1>1, <1>2 DEF Passed, At, Harmless, Limited

LEMMA RoomStays ==
  ASSUME Rows, Requests, Room, Next
  PROVE  Room'
<1> SUFFICES ASSUME NEW k \in Columns \ Entry, Wip[k] # 0
             PROVE  Cardinality(InColumn(k)') + Cardinality(Passed(k)')
                      <= Wip[k] + Cardinality(Reqs) - 1
  BY DEF Room
<1> DEFINE I == Cardinality(InColumn(k))
           P == Cardinality(Passed(k))
           J == Cardinality(InColumn(k)')
           Q == Cardinality(Passed(k)')
<1> SUFFICES J + Q <= Wip[k] + Cardinality(Reqs) - 1 OBVIOUS
<1>0. I + P <= Wip[k] + Cardinality(Reqs) - 1 BY DEF Room
<1>1. PICK r \in Reqs : \/ Turn(r) /\ \A c \in Columns \ Entry : NoneCame(cards', c)
                        \/ UNCHANGED cards /\ Counted(r)
                        \/ WriteMove(r)
  BY EachStep
<1>2. I \in Nat /\ P \in Nat /\ Wip[k] \in Nat /\ Cardinality(Reqs) \in Nat
  BY InColumnFinite, PassedFinite, BoardAssumption, FS_CardinalityType
<1>3. /\ IsFiniteSet(InColumn(k)') /\ J \in Nat
  <2>1. InColumn(k)' \subseteq 1..MaxId BY DEF InColumn, Ids
  <2>2. IsFiniteSet(1..MaxId) BY BoardAssumption, FS_Interval
  <2> QED BY <2>1, <2>2, FS_Subset, FS_CardinalityType
<1>4. Q \in Nat /\ Q <= Cardinality(Reqs)
  <2>1. Passed(k)' \subseteq Reqs BY DEF Passed
  <2> QED BY <2>1, BoardAssumption, FS_Subset, FS_CardinalityType
<1>5. ASSUME NoneCame(cards', k) PROVE J <= I
  <2>1. InColumn(k)' \subseteq InColumn(k) BY <1>5 DEF NoneCame, InColumn, Exists
  <2> QED BY <2>1, InColumnFinite, FS_Subset
<1>6. ASSUME Turn(r) PROVE Q <= P
  <2>1. Passed(k)' \subseteq Passed(k) BY <1>6, TurnPasses
  <2> QED BY <2>1, PassedFinite, FS_Subset
<1>7. CASE Turn(r) /\ \A c \in Columns \ Entry : NoneCame(cards', c)
  <2>1. J <= I /\ Q <= P BY <1>5, <1>6, <1>7
  <2> HIDE DEF I, J, P, Q
  <2> QED BY <2>1, <1>0, <1>2, <1>3, <1>4
<1>8. CASE UNCHANGED cards /\ Counted(r)
  <2>1. InColumn(k)' = InColumn(k) BY <1>8 DEF InColumn, Exists
  <2>2. PICK n : /\ req' = [req EXCEPT ![r] = n] /\ n.to = req[r].to
                 /\ n.to \in Columns => Cardinality(InColumn(n.to)) < Wip[n.to]
    BY <1>8 DEF Counted
  <2>3. CASE n.to = k
    <3>1. J = I /\ I < Wip[k] BY <2>1, <2>2, <2>3
    <3> HIDE DEF I, J, P, Q
    <3> QED BY <3>1, <1>2, <1>4
  <2>4. CASE n.to # k
    <3>1. req'[r] = n /\ \A q \in Reqs \ {r} : req'[q] = req[q]
      BY <2>2 DEF Requests
    <3>2. Passed(k)' \subseteq Passed(k) BY <3>1, <2>4 DEF Passed, At
    <3>3. J = I /\ Q <= P BY <2>1, <3>2, PassedFinite, FS_Subset
    <3> HIDE DEF I, J, P, Q
    <3> QED BY <3>3, <1>0, <1>2, <1>3, <1>4
  <2> QED BY <2>3, <2>4
<1>9. CASE WriteMove(r)
  <2>1. Turn(r) BY <1>9, MoveWrites
  <2>2. CASE NoneCame(cards', k)
    <3>1. J <= I /\ Q <= P BY <1>5, <1>6, <2>1, <2>2
    <3> HIDE DEF I, J, P, Q
    <3> QED BY <3>1, <1>0, <1>2, <1>3, <1>4
  <2>3. CASE /\ At(r, "move", "write") /\ req[r].to = k /\ req[r].mine.col # k
             /\ \A c \in Ids \ {req[r].card} : cards'[c] = cards[c]
    <3>1. InColumn(k)' \subseteq InColumn(k) \cup {req[r].card}
      BY <2>3 DEF InColumn, Exists
    <3>2. J <= I + 1
      <4>1. /\ IsFiniteSet(InColumn(k) \cup {req[r].card})
            /\ Cardinality(InColumn(k) \cup {req[r].card}) <= I + 1
        BY <1>2, InColumnFinite, FS_AddElement
      <4>2. /\ J <= Cardinality(InColumn(k) \cup {req[r].card})
            /\ Cardinality(InColumn(k) \cup {req[r].card}) \in Nat
        BY <3>1, <4>1, FS_Subset, FS_CardinalityType
      <4> HIDE DEF I, J
      <4> QED BY <4>1, <4>2, <1>2, <1>3
    <3>3. r \in Passed(k) BY <2>3 DEF Passed
    <3>4. Q <= P - 1
      <4>1. /\ IsFiniteSet(Passed(k) \ {r}) /\ Cardinality(Passed(k) \ {r}) = P - 1
        BY <3>3, PassedFinite, FS_RemoveElement
      <4>2. Passed(k)' \subseteq Passed(k) \ {r} BY <2>1, TurnPasses
      <4> QED BY <4>1, <4>2, FS_Subset
    <3> HIDE DEF I, J, P, Q
    <3> QED BY <3>2, <3>4, <1>0, <1>2, <1>3, <1>4
  <2> QED BY <1>9, <2>2, <2>3, MoveWrites
<1> QED BY <1>1, <1>7, <1>8, <1>9

\* A limited column in which nothing is created never holds more than its limit and one
\* card for each other request, however the moves interleave.
THEOREM WipOvershootAlways == Spec => []WipOvershootBounded
<1> DEFINE IInv == Rows /\ Requests /\ Room
<1>1. Init => IInv
  <2> SUFFICES ASSUME Init PROVE Room BY InitShape
  <2> SUFFICES ASSUME NEW k \in Columns \ Entry, Wip[k] # 0
               PROVE  Cardinality(InColumn(k)) + Cardinality(Passed(k))
                        <= Wip[k] + Cardinality(Reqs) - 1
    BY DEF Room
  <2>1. InColumn(k) = {} BY DEF Init, InColumn, Exists
  <2>2. Passed(k) = {} BY DEF Init, Passed, At, Free
  <2>3. Wip[k] \in Nat /\ Cardinality(Reqs) \in Nat
    BY BoardAssumption, FS_CardinalityType
  <2> QED BY <2>1, <2>2, <2>3, FS_EmptySet
<1>2. IInv /\ [Next]_vars => IInv'
  <2> SUFFICES ASSUME IInv, [Next]_vars PROVE IInv' OBVIOUS
  <2>1. CASE Next BY <2>1, EachStep, RoomStays
  <2>2. CASE UNCHANGED vars
    BY <2>2 DEF vars, Rows, Requests, Room, InColumn, Exists, Passed, At
  <2> QED BY <2>1, <2>2
<1>3. IInv => WipOvershootBounded
  <2> SUFFICES ASSUME Room, NEW k \in Columns \ Entry, Wip[k] # 0
               PROVE  Cardinality(InColumn(k)) <= Wip[k] + Cardinality(Reqs) - 1
    BY DEF WipOvershootBounded
  <2>1. /\ Cardinality(InColumn(k)) + Cardinality(Passed(k))
             <= Wip[k] + Cardinality(Reqs) - 1
        /\ Cardinality(InColumn(k)) \in Nat /\ Cardinality(Passed(k)) \in Nat
        /\ Wip[k] \in Nat /\ Cardinality(Reqs) \in Nat
    BY InColumnFinite, PassedFinite, BoardAssumption, FS_CardinalityType DEF Room
  <2> QED BY <2>1
<1> QED BY <1>1, <1>2, <1>3, PTL DEF Spec

-----------------------------------------------------------------------------
(* What is behind a card: the search of Behind ends with the least closed set *)

\* One step of the search: S and the cards that a card of S waits for.
Grow(E, S) == S \cup {y \in Ids : \E x \in S : <<x, y>> \in E}

\* f is the search from d, as a function of the number of steps.
IsSearch(f, E, d) == f = [n \in Nat |-> IF n = 0 THEN {d} ELSE Grow(E, f[n - 1])]

LEMMA SearchExists ==
  ASSUME NEW E, NEW d PROVE \E f : IsSearch(f, E, d)
<1> DEFINE V == SUBSET (Ids \cup {d})
           a == {d}
           next == [n \in Nat |-> [S \in V |-> Grow(E, S)]]
<1>1. a \in V /\ \A S \in V : Grow(E, S) \in V BY DEF Grow
<1>2. Steps(next, V) BY <1>1 DEF Steps
<1>3. \A n \in Nat : n + 1 \in Nat /\ \A S \in V : next[n + 1][S] = Grow(E, S) OBVIOUS
<1> HIDE DEF V, a, next
<1>4. PICK f \in [Nat -> V] : Follows(f, a, next) BY <1>1, <1>2, RecursionExists
<1> DEFINE F == [n \in Nat |-> IF n = 0 THEN {d} ELSE Grow(E, f[n - 1])]
<1>5. ASSUME NEW n \in Nat PROVE f[n] = F[n]
  <2>1. CASE n = 0 BY <1>4, <2>1 DEF a, Follows
  <2>2. CASE n # 0
    <3>1. n - 1 \in Nat /\ (n - 1) + 1 = n BY <2>2
    <3>2. f[n] = Grow(E, f[n - 1]) BY <3>1, <1>3, <1>4 DEF Follows
    <3> QED BY <2>2, <3>2
  <2> QED BY <2>1, <2>2
<1>6. f = F
  <2>1. f = [n \in Nat |-> f[n]] BY <1>4
  <2>2. [n \in Nat |-> f[n]] = F BY <1>5
  <2> QED BY <2>1, <2>2
<1> QED BY <1>6 DEF IsSearch

\* Behind is what the search has found after MaxId steps.
LEMMA BehindIsSearch ==
  ASSUME NEW E, NEW d PROVE \E f : IsSearch(f, E, d) /\ Behind(E, d) = f[MaxId]
<1> DEFINE G(f) == [n \in Nat |->
                      IF n = 0 THEN {d}
                      ELSE f[n - 1] \cup {y \in Ids : \E x \in f[n - 1] : <<x, y>> \in E}]
<1>1. PICK f : IsSearch(f, E, d) BY SearchExists
<1>2. f = G(f)
  <2>1. [n \in Nat |-> IF n = 0 THEN {d} ELSE Grow(E, f[n - 1])] = G(f) BY DEF Grow
  <2> HIDE DEF G
  <2> QED BY <1>1, <2>1 DEF IsSearch
<1> DEFINE steps == CHOOSE g : g = G(g)
<1>3. Behind(E, d) = steps[MaxId] BY Zenon DEF Behind
<1>4. steps = G(steps)
  <2> HIDE DEF G
  <2> QED BY <1>2, Zenon
<1> HIDE DEF steps
<1>5. IsSearch(steps, E, d) BY <1>4 DEF IsSearch, Grow
<1> QED BY <1>3, <1>5

\* The search only grows, and stays among the ids.
LEMMA SearchGrows ==
  ASSUME NEW E, NEW d \in Ids, NEW f, IsSearch(f, E, d)
  PROVE  /\ f[0] = {d}
         /\ \A n \in Nat : f[n + 1] = Grow(E, f[n]) /\ d \in f[n] /\ f[n] \subseteq Ids
<1>1. f[0] = {d} BY DEF IsSearch
<1>2. ASSUME NEW n \in Nat PROVE f[n + 1] = Grow(E, f[n])
  <2>1. n + 1 \in Nat /\ n + 1 # 0 /\ (n + 1) - 1 = n OBVIOUS
  <2> QED BY <2>1 DEF IsSearch
<1> DEFINE T == {n \in Nat : d \in f[n] /\ f[n] \subseteq Ids}
<1>3. 0 \in T BY <1>1
<1>4. \A n \in Nat : n \in T => n + 1 \in T BY <1>2 DEF Grow
<1> HIDE DEF T
<1>5. \A n \in Nat : n \in T BY <1>3, <1>4, SetInduction
<1> QED BY <1>1, <1>2, <1>5 DEF T

\* S holds what is reached from its members.
Closed(E, S) == \A x \in S, y \in Ids : <<x, y>> \in E => y \in S

\* No step leaves a closed set.
LEMMA BehindIsLeast ==
  ASSUME NEW E, NEW d \in Ids, NEW S, d \in S, Closed(E, S)
  PROVE  Behind(E, d) \subseteq S
<1>1. PICK f : IsSearch(f, E, d) /\ Behind(E, d) = f[MaxId] BY BehindIsSearch
<1>2. /\ f[0] = {d}
      /\ \A n \in Nat : f[n + 1] = Grow(E, f[n]) /\ d \in f[n] /\ f[n] \subseteq Ids
  BY <1>1, SearchGrows
<1> DEFINE T == {n \in Nat : f[n] \subseteq S}
<1>3. 0 \in T BY <1>2
<1>4. ASSUME NEW n \in Nat, n \in T PROVE n + 1 \in T
  <2>1. Grow(E, f[n]) \subseteq S BY <1>4 DEF Grow, Closed
  <2>2. n + 1 \in Nat /\ f[n + 1] \subseteq S BY <1>2, <2>1
  <2> QED BY <2>2
<1> HIDE DEF T
<1>5. MaxId \in T BY <1>3, <1>4, SetInduction, BoardAssumption
<1> QED BY <1>1, <1>5 DEF T

\* A search that does not end within n steps has found more than n cards.
LEMMA BehindIsClosed ==
  ASSUME NEW E, NEW d \in Ids
  PROVE  d \in Behind(E, d) /\ Behind(E, d) \subseteq Ids /\ Closed(E, Behind(E, d))
<1>1. PICK f : IsSearch(f, E, d) /\ Behind(E, d) = f[MaxId] BY BehindIsSearch
<1>2. /\ f[0] = {d}
      /\ \A n \in Nat : f[n + 1] = Grow(E, f[n]) /\ d \in f[n] /\ f[n] \subseteq Ids
  BY <1>1, SearchGrows
<1>3. MaxId \in Nat /\ IsFiniteSet(Ids) /\ Cardinality(Ids) = MaxId
  BY BoardAssumption, FS_Interval DEF Ids
<1>4. \A n \in Nat : IsFiniteSet(f[n]) /\ Cardinality(f[n]) \in Nat /\ Cardinality(f[n]) <= MaxId
  BY <1>2, <1>3, FS_Subset, FS_CardinalityType
<1> DEFINE T == {n \in Nat : f[n + 1] = f[n] \/ Cardinality(f[n]) >= n + 1}
<1>5. 0 \in T
  <2>1. Cardinality(f[0]) = 1 BY <1>2, FS_Singleton
  <2> QED BY <2>1
<1>6. ASSUME NEW n \in Nat, n \in T PROVE n + 1 \in T
  <2>1. CASE f[n + 1] = f[n] BY <2>1, <1>2
  <2>2. CASE f[n + 1] # f[n] /\ Cardinality(f[n]) >= n + 1
    <3>1. f[n] \subseteq f[n + 1] BY <1>2 DEF Grow
    <3>2. Cardinality(f[n]) < Cardinality(f[n + 1]) BY <2>2, <3>1, <1>4, FS_Subset
    <3> QED BY <2>2, <3>2, <1>4
  <2> QED BY <1>6, <2>1, <2>2
<1> HIDE DEF T
<1>7. MaxId \in T BY <1>3, <1>5, <1>6, SetInduction
<1>8. f[MaxId + 1] = f[MaxId] BY <1>3, <1>4, <1>7 DEF T
<1> QED BY <1>1, <1>2, <1>3, <1>8 DEF Closed, Grow

\* A cycle closed by a new edge would be found behind its end.
LEMMA NewEdgeIsSafe ==
  ASSUME NEW E, E \subseteq Ids \X Ids, \A x, y \in Ids : <<x, y>> \in E => x \notin Behind(E, y),
         NEW c \in Ids, NEW d \in Ids, c \notin Behind(E, d)
  PROVE  \A x, y \in Ids : <<x, y>> \in E \cup {<<c, d>>} => x \notin Behind(E \cup {<<c, d>>}, y)
<1> DEFINE F == E \cup {<<c, d>>}
           R == Behind(E, d)
<1> SUFFICES ASSUME NEW x \in Ids, NEW y \in Ids, <<x, y>> \in F PROVE x \notin Behind(F, y)
  OBVIOUS
<1> DEFINE B == Behind(E, y)
<1>1. d \in R /\ Closed(E, R) /\ y \in B /\ Closed(E, B) BY BehindIsClosed
<1>2. CASE c \notin B
  <2>1. Closed(F, B) BY <1>1, <1>2 DEF Closed
  <2>2. Behind(F, y) \subseteq B BY <1>1, <2>1, BehindIsLeast
  <2>3. x \notin B BY <1>2
  <2> QED BY <2>2, <2>3
<1>3. CASE c \in B
  <2>1. Closed(F, B \cup R) BY <1>1 DEF Closed
  <2>2. Behind(F, y) \subseteq B \cup R BY <1>1, <2>1, BehindIsLeast
  <2>3. <<x, y>> \in E
    <3>1. <<x, y>> # <<c, d>> BY <1>3
    <3> QED BY <3>1
  <2>4. x \notin B BY <2>3
  <2>5. ASSUME x \in R PROVE FALSE
    <3>1. y \in R BY <1>1, <2>3, <2>5 DEF Closed
    <3>2. B \subseteq R BY <3>1, <1>1, BehindIsLeast
    <3> QED BY <3>2, <1>3
  <2> QED BY <2>2, <2>4, <2>5
<1> QED BY <1>2, <1>3

\* Without an edge there is less behind a card.
LEMMA FewerEdgesAreSafe ==
  ASSUME NEW E, NEW F, F \subseteq E,
         \A x, y \in Ids : <<x, y>> \in E => x \notin Behind(E, y)
  PROVE  \A x, y \in Ids : <<x, y>> \in F => x \notin Behind(F, y)
<1> SUFFICES ASSUME NEW x \in Ids, NEW y \in Ids, <<x, y>> \in F PROVE x \notin Behind(F, y)
  OBVIOUS
<1>1. y \in Behind(E, y) /\ Closed(E, Behind(E, y)) BY BehindIsClosed
<1>2. Closed(F, Behind(E, y)) BY <1>1 DEF Closed
<1>3. Behind(F, y) \subseteq Behind(E, y) BY <1>1, <1>2, BehindIsLeast
<1> QED BY <1>3

-----------------------------------------------------------------------------
(* Cycles *)

\* The dependencies, with what the request that is to write an edge has found.
Acyclic ==
  /\ deps \subseteq Ids \X Ids
  /\ \A x, y \in Ids : <<x, y>> \in deps => x \notin Behind(deps, y)
  /\ \A r \in Reqs : At(r, "link", "write") => req[r].card \notin Behind(deps, req[r].to)

\* Every step but the count of a column is a turn.
LEMMA StepIsATurn ==
  ASSUME Rows, Requests, NEW r \in Reqs, Submit(r) \/ MoveStep(r) \/ OtherStep(r)
  PROVE  Turn(r) \/ CountWip(r)
<1>1. CASE Submit(r) BY <1>1, SubmitQuiet
<1>2. CASE MoveStep(r) BY <1>2, QuietMove, RespreadWrites, MoveWrites DEF MoveStep
<1>3. CASE OtherStep(r) BY <1>3, QuietOther, InsertWrites, EditWrites DEF OtherStep
<1> QED BY <1>1, <1>2, <1>3

\* Only two handlers write dependencies.
LEMMA OthersKeepDeps ==
  ASSUME NEW r \in Reqs, Submit(r) \/ MoveStep(r) \/ OtherStep(r)
  PROVE  deps' = deps \/ AddDep(r) \/ RemoveDep(r)
<1>1. CASE Submit(r) BY <1>1 DEF Submit
<1>2. CASE MoveStep(r)
  BY <1>2 DEF MoveStep, LoadMove, ReadDeps, CheckDep, ReadBefore, ReadAfter, ReadEnd,
              CountCards, ListCards, Respread, CountWip, WriteMove
<1>3. CASE OtherStep(r)
  BY <1>3 DEF OtherStep, ReadTail, InsertCard, LoadEdit, WriteEdit, LoadDelete, DeleteCard,
              LoadLink, CheckCycle
<1> QED BY <1>1, <1>2, <1>3

\* A single slot is the one that steps, and nothing changed the dependencies since it
\* searched them.
LEMMA AcyclicStays ==
  ASSUME \A q, r \in Reqs : q = r, Rows, Requests, Acyclic, Next
  PROVE  Acyclic'
<1>1. PICK r \in Reqs : Submit(r) \/ MoveStep(r) \/ OtherStep(r) BY DEF Next
<1>2. CASE deps' = deps
  <2>1. CASE Turn(r)
    <3>1. PICK n : req' = [req EXCEPT ![r] = n] /\ Harmless(n) BY <2>1 DEF Turn
    <3>2. req'[r] = n BY <3>1 DEF Requests
    <3>3. \A q \in Reqs : At(q, "link", "write")' => req'[q].card \notin Behind(deps, req'[q].to)
      BY <3>1, <3>2 DEF At, Harmless
    <3> QED BY <1>2, <3>3 DEF Acyclic
  <2>2. CASE CountWip(r)
    <3> DEFINE n == [req[r] EXCEPT !.pc = "write"]
    <3>1. req[r].op = "move" /\ (End(r) \/ Step(r, n)) BY <2>2, Zenon DEF CountWip, At
    <3>2. n.op = "move" BY <3>1 DEF Requests, IsRequest, Fields
    <3> HIDE DEF n
    <3>3. req'[r].op # "link" BY <3>1, <3>2 DEF End, Step, Free, Requests
    <3> QED BY <1>2, <3>3 DEF Acyclic, At
  <2> QED BY <1>1, <2>1, <2>2, StepIsATurn
<1>3. CASE AddDep(r) \/ RemoveDep(r)
  <2> DEFINE c == req[r].card
             d == req[r].to
  <2>1. CASE deps' = deps BY <2>1, <1>2
  <2>2. CASE deps' # deps
    <3>1. \/ At(r, "link", "write") /\ deps' = deps \cup {<<c, d>>}
          \/ deps' = deps \ {<<c, d>>}
      BY <1>3, <2>2, Zenon DEF AddDep, RemoveDep
    <3>2. End(r) BY <1>3, <2>2, Zenon DEF AddDep, RemoveDep
    <3>3. req'[r].op # "link" BY <3>2 DEF End, Step, Free, Requests
    <3>4. /\ deps' \subseteq Ids \X Ids
          /\ \A x, y \in Ids : <<x, y>> \in deps' => x \notin Behind(deps', y)
      <4>1. CASE At(r, "link", "write") /\ deps' = deps \cup {<<c, d>>}
        <5>1. c \in Ids /\ d \in Ids /\ c \notin Behind(deps, d)
          BY <4>1 DEF Acyclic, Requests, IsRequest, At
        <5> HIDE DEF c, d
        <5> QED BY <4>1, <5>1, NewEdgeIsSafe DEF Acyclic
      <4>2. CASE deps' = deps \ {<<c, d>>}
        BY <4>2, FewerEdgesAreSafe DEF Acyclic
      <4> QED BY <3>1, <4>1, <4>2
    <3> QED BY <3>3, <3>4 DEF Acyclic, At
  <2> QED BY <2>1, <2>2
<1> QED BY <1>1, <1>2, <1>3, OthersKeepDeps

\* NoCycle: served one after the other, add_dependency and remove_dependency keep the
\* dependencies of the board free of cycles, however long a chain of them gets.
THEOREM NoCycleAlways ==
  ASSUME \A q, r \in Reqs : q = r
  PROVE  Spec => []NoCycle
<1> DEFINE IInv == Rows /\ Requests /\ Acyclic
<1>1. Init => IInv
  <2> SUFFICES ASSUME Init PROVE Acyclic BY InitShape
  <2> QED BY DEF Init, Acyclic, At, Free
<1>2. IInv /\ [Next]_vars => IInv'
  <2> SUFFICES ASSUME IInv, [Next]_vars PROVE IInv' OBVIOUS
  <2>1. CASE Next BY <2>1, EachStep, AcyclicStays
  <2>2. CASE UNCHANGED vars BY <2>2 DEF vars, Rows, Requests, Acyclic, At
  <2> QED BY <2>1, <2>2
<1>3. IInv => NoCycle BY DEF Acyclic, NoCycle
<1> QED BY <1>1, <1>2, <1>3, PTL DEF Spec

-----------------------------------------------------------------------------
(* Versions *)

\* Request m works on its card as it is: the version it loaded, the number of cards it
\* counted and the versions it listed are those of the table.
Current(m) ==
  /\ DOMAIN m = Fields
  /\ m.op \in {"move", "edit"} /\ m.pc # "failed" => m.card \in Ids
  /\ m.op \in {"move", "edit"} /\ m.pc \notin {"load", "failed"} =>
       /\ cards[m.card] # NoCard
       /\ DOMAIN m.mine = RowFields /\ m.mine.version = cards[m.card].version
  /\ m.op = "move" /\ m.pc = "list" => m.count = Cardinality(InColumn(m.to))
  /\ m.op = "move" /\ m.pc = "respread" =>
       \A i \in DOMAIN m.listed :
         /\ i <= m.count
         /\ m.listed[i][1] \in Ids => m.listed[i][2] = cards[m.listed[i][1]].version

Versions == \A c \in Ids : cards[c].version \in Nat

\* Request r goes on, and nothing it holds is out of date.
Goes(r) == \E n : req' = [req EXCEPT ![r] = n] /\ Current(n)

\* Past the load: the facts about the card that a move or an edit carries along.
Holds(m) ==
  /\ DOMAIN m = Fields /\ m.card \in Ids /\ cards[m.card] # NoCard
  /\ DOMAIN m.mine = RowFields /\ m.mine.version = cards[m.card].version

\* Outside of a rebalance there is nothing else to keep up with.
LEMMA HoldsIsCurrent ==
  ASSUME NEW m, Holds(m), m.pc \notin {"list", "respread"} PROVE Current(m)
BY DEF Holds, Current

\* A request that was answered, or died, holds nothing.
LEMMA IdleIsCurrent ==
  /\ Current(Free)
  /\ \A op : Current([Free EXCEPT !.pc = "failed", !.op = op])
BY DEF Current, Fields, Free

LEMMA EndGoes == ASSUME NEW r, End(r) PROVE Goes(r)
BY IdleIsCurrent DEF End, Step, Goes

LEMMA FailGoes == ASSUME NEW r, Fail(r) PROVE Goes(r)
<1> DEFINE n == [Free EXCEPT !.pc = "failed", !.op = req[r].op]
<1>1. req' = [req EXCEPT ![r] = n] BY DEF Fail, Step
<1>2. Current(n) BY IdleIsCurrent
<1> HIDE DEF n
<1> QED BY <1>1, <1>2 DEF Goes

LEMMA StepGoes ==
  ASSUME NEW r, NEW n, Step(r, n), Current(n) PROVE Goes(r)
BY DEF Step, Goes

\* A request of another kind goes on.
LEMMA OtherGoes ==
  ASSUME NEW r, NEW n, Step(r, n), DOMAIN n = Fields, n.op \notin {"move", "edit"}
  PROVE  Goes(r)
BY StepGoes DEF Current

LEMMA PlacedGoes ==
  ASSUME NEW r, NEW m, Holds(m), Placed(r, m) PROVE Goes(r)
<1> DEFINE rank == RankBetween(m.lo, m.hi)
           long == [m EXCEPT !.pc = "count", !.lo = Open, !.hi = Open]
           short == [m EXCEPT !.pc = IF Limited(m) THEN "wip" ELSE "write",
                              !.rank = rank, !.lo = Open, !.hi = Open]
<1>1. End(r) \/ Fail(r) \/ Step(r, long) \/ Step(r, short) BY Zenon DEF Placed
<1>2. CASE Step(r, long)
  <2>1. Holds(long) /\ long.pc = "count" BY DEF Holds, Fields
  <2> HIDE DEF long
  <2> QED BY <1>2, <2>1, HoldsIsCurrent, StepGoes
<1>3. CASE Step(r, short)
  <2>1. /\ DOMAIN short = Fields /\ short.card = m.card /\ short.mine = m.mine
        /\ short.pc = IF Limited(m) THEN "wip" ELSE "write"
    BY DEF Holds, Fields
  <2> HIDE DEF short
  <2>2. Holds(short) /\ short.pc \in {"wip", "write"} BY <2>1 DEF Holds
  <2> QED BY <1>3, <2>2, HoldsIsCurrent, StepGoes
<1> QED BY <1>1, <1>2, <1>3, EndGoes, FailGoes

\* What a move past its load holds.
LEMMA MoveHolds ==
  ASSUME NEW r, Current(req[r]), req[r].op \in {"move", "edit"},
         req[r].pc \notin {"load", "failed"}
  PROVE  Holds(req[r])
BY DEF Current, Holds

LEMMA MoveGoes ==
  ASSUME Rows, NEW r \in Reqs, Current(req[r]),
         LoadMove(r) \/ ReadDeps(r) \/ CheckDep(r) \/ ReadBefore(r) \/ ReadAfter(r)
           \/ ReadEnd(r) \/ CountCards(r) \/ ListCards(r) \/ CountWip(r)
  PROVE  Goes(r)
<1> DEFINE m == req[r]
<1>1. CASE LoadMove(r)
  <2> DEFINE n == [m EXCEPT !.mine = cards[m.card]]
             g == [n EXCEPT !.pc = "gate"]
             b == [n EXCEPT !.pc = Bounds(n)]
  <2>1. /\ m.op = "move" /\ m.pc = "load"
        /\ End(r) \/ (Exists(n.card) /\ (Step(r, g) \/ Step(r, b)))
    BY <1>1, Zenon DEF LoadMove, At
  <2>2. ASSUME Exists(n.card) PROVE Holds(n)
    <3>1. m.card \in Ids /\ DOMAIN m = Fields /\ n.card = m.card BY <2>1 DEF Current, Fields
    <3>2. cards[m.card] # NoCard /\ DOMAIN cards[m.card] = RowFields BY <2>2, <3>1 DEF Exists, Rows
    <3> QED BY <3>1, <3>2 DEF Holds, Fields
  <2> HIDE DEF n
  <2>3. Holds(n) => Holds(g) /\ g.pc = "gate" BY DEF Holds, Fields
  <2>4. Holds(n) => Holds(b) /\ b.pc = Bounds(n) BY DEF Holds, Fields
  <2> HIDE DEF g, b
  <2>5. Bounds(n) \notin {"list", "respread"} BY BoundsIsPlace
  <2>6. Exists(n.card) => Current(g) /\ Current(b)
    BY <2>2, <2>3, <2>4, <2>5, HoldsIsCurrent
  <2> QED BY <2>1, <2>6, EndGoes, StepGoes
<1>2. CASE ReadDeps(r)
  <2> DEFINE n == [m EXCEPT !.todo = {d \in Ids : <<m.card, d>> \in deps}]
             p == IF n.todo = {} THEN Bounds(n) ELSE "gating"
             g == [n EXCEPT !.pc = p]
  <2>1. Step(r, g) /\ m.op = "move" /\ m.pc = "gate" BY <1>2, Zenon DEF ReadDeps, At
  <2>2. Holds(n) BY <2>1, MoveHolds DEF Holds, Fields
  <2>3. p \notin {"list", "respread"} BY BoundsIsPlace
  <2> HIDE DEF n, p
  <2>4. Holds(g) /\ g.pc = p BY <2>2 DEF Holds, Fields
  <2> HIDE DEF g
  <2> QED BY <2>1, <2>3, <2>4, HoldsIsCurrent, StepGoes
<1>3. CASE CheckDep(r)
  <2>1. m.op = "move" /\ m.pc = "gating" BY <1>3 DEF CheckDep, At
  <2>2. PICK d \in m.todo :
          LET n == [m EXCEPT !.todo = @ \ {d}]
          IN  IF Exists(d) /\ cards[d].col \notin DoneColumns THEN End(r)
              ELSE Step(r, IF n.todo = {} THEN [n EXCEPT !.pc = Bounds(n)] ELSE n)
    BY <1>3 DEF CheckDep
  <2> DEFINE n == [m EXCEPT !.todo = @ \ {d}]
             b == [n EXCEPT !.pc = Bounds(n)]
  <2>3. End(r) \/ Step(r, n) \/ Step(r, b) BY <2>2, Zenon
  <2>4. Holds(n) /\ n.pc = "gating" BY <2>1, MoveHolds DEF Holds, Fields
  <2> HIDE DEF n
  <2>5. Holds(b) /\ b.pc = Bounds(n) BY <2>4 DEF Holds, Fields
  <2> HIDE DEF b
  <2>6. b.pc \notin {"list", "respread"} BY <2>5, BoundsIsPlace
  <2> QED BY <2>3, <2>4, <2>5, <2>6, HoldsIsCurrent, EndGoes, StepGoes
<1>4. CASE ReadBefore(r)
  <2> DEFINE n == [m EXCEPT !.lo = cards[m.before].rank]
             a == [n EXCEPT !.pc = "after"]
  <2>1. (End(r) \/ Step(r, a) \/ Placed(r, n)) /\ m.op = "move" /\ m.pc = "before"
    BY <1>4, Zenon DEF ReadBefore, At
  <2>2. Holds(n) BY <2>1, MoveHolds DEF Holds, Fields
  <2> HIDE DEF n
  <2>3. Holds(a) /\ a.pc = "after" BY <2>2 DEF Holds, Fields
  <2> HIDE DEF a
  <2> QED BY <2>1, <2>2, <2>3, HoldsIsCurrent, EndGoes, StepGoes, PlacedGoes
<1>5. CASE ReadAfter(r)
  <2> DEFINE n == [m EXCEPT !.hi = cards[m.after].rank]
  <2>1. (End(r) \/ Placed(r, n)) /\ m.op = "move" /\ m.pc = "after"
    BY <1>5, Zenon DEF ReadAfter, At
  <2>2. Holds(n) BY <2>1, MoveHolds DEF Holds, Fields
  <2> HIDE DEF n
  <2> QED BY <2>1, <2>2, EndGoes, PlacedGoes
<1>6. CASE ReadEnd(r)
  <2> DEFINE n == [m EXCEPT !.lo = LastRank(InColumn(m.to) \ {m.card})]
  <2>1. Placed(r, n) /\ m.op = "move" /\ m.pc = "end" BY <1>6, Zenon DEF ReadEnd, At
  <2>2. Holds(n) BY <2>1, MoveHolds DEF Holds, Fields
  <2> HIDE DEF n
  <2> QED BY <2>1, <2>2, PlacedGoes
<1>7. CASE CountCards(r)
  <2> DEFINE k == Cardinality(InColumn(m.to))
             n == [m EXCEPT !.pc = "list", !.count = k]
  <2>1. Step(r, n) /\ m.op = "move" /\ m.pc = "count" BY <1>7, Zenon DEF CountCards, At
  <2> HIDE DEF k
  <2>2. Holds(n) /\ n.pc = "list" /\ n.count = k /\ n.to = m.to
    BY <2>1, MoveHolds DEF Holds, Fields
  <2> HIDE DEF n
  <2>3. Current(n) BY <2>2 DEF Current, Holds, k
  <2> QED BY <2>1, <2>3, StepGoes
<1>8. CASE ListCards(r)
  <2> DEFINE L == [i \in DOMAIN Order(m.to) |->
                     LET c == Order(m.to)[i]
                     IN  <<c, IF c = m.card THEN m.mine.version ELSE cards[c].version>>]
             n == [m EXCEPT !.pc = "respread", !.listed = L]
  <2>1. Step(r, n) /\ m.op = "move" /\ m.pc = "list" BY <1>8, Zenon DEF ListCards, At
  <2>2. Holds(m) /\ m.count = Cardinality(InColumn(m.to)) BY <2>1, MoveHolds DEF Current
  <2>3. DOMAIN L = 1..m.count BY <2>2 DEF Order
  <2>4. ASSUME NEW i \in DOMAIN L
        PROVE  i <= m.count /\ (L[i][1] \in Ids => L[i][2] = cards[L[i][1]].version)
    <3>1. m.count \in Nat BY <2>2, InColumnFinite
    <3> QED BY <2>2, <2>3, <2>4, <3>1 DEF Holds
  <2> HIDE DEF L
  <2>5. Holds(n) /\ n.pc = "respread" /\ n.listed = L /\ n.count = m.count
    BY <2>2 DEF Holds, Fields
  <2> HIDE DEF n
  <2>6. Current(n) BY <2>4, <2>5 DEF Current, Holds
  <2> QED BY <2>1, <2>6, StepGoes
<1>9. CASE CountWip(r)
  <2> DEFINE n == [m EXCEPT !.pc = "write"]
  <2>1. (End(r) \/ Step(r, n)) /\ m.op = "move" /\ m.pc = "wip" BY <1>9, Zenon DEF CountWip, At
  <2>2. Holds(n) /\ n.pc = "write" BY <2>1, MoveHolds DEF Holds, Fields
  <2> HIDE DEF n
  <2> QED BY <2>1, <2>2, HoldsIsCurrent, EndGoes, StepGoes
<1> QED BY <1>1, <1>2, <1>3, <1>4, <1>5, <1>6, <1>7, <1>8, <1>9

\* A new request has loaded nothing yet.
LEMMA SubmitGoes ==
  ASSUME NEW r \in Reqs, Submit(r) PROVE Goes(r)
<1>1. PICK op \in Ops, c \in Ids :
       \/ /\ op = "move" /\ Exists(c) /\ cards[c].version < MaxVersion
          /\ \A d \in Ids : cards[d].version <= MaxVersion
          /\ \E k \in Columns, b, a \in Ids \cup {None}, v \in 1..cards[c].version :
               /\ AnyAnchors \/ Adjacent(c, k, b, a)
               /\ Step(r, [Free EXCEPT !.pc = "load", !.op = op, !.card = c, !.to = k,
                                       !.before = b, !.after = a, !.expected = v])
       \/ /\ op = "create" /\ c = 1 /\ ~Exists(MaxId)
          /\ \E k \in Entry :
               Step(r, [Free EXCEPT !.pc = "tail", !.op = op, !.to = k])
       \/ /\ op = "edit" /\ Exists(c) /\ cards[c].version < MaxVersion
          /\ \E v \in {0, cards[c].version} :
               Step(r, [Free EXCEPT !.pc = "load", !.op = op, !.card = c, !.expected = v])
       \/ /\ op = "delete" /\ Exists(c)
          /\ Step(r, [Free EXCEPT !.pc = "load", !.op = op, !.card = c])
       \/ /\ op = "link" /\ Exists(c)
          /\ \E d \in Ids \ {c} : Exists(d) /\
               Step(r, [Free EXCEPT !.pc = "load", !.op = op, !.card = c, !.to = d])
       \/ /\ op = "unlink"
          /\ \E d \in Ids : <<c, d>> \in deps /\
               Step(r, [Free EXCEPT !.pc = "load", !.op = op, !.card = c, !.to = d])
  BY Zenon DEF Submit
<1>2. ASSUME NEW k, NEW b, NEW a, NEW v,
             Step(r, [Free EXCEPT !.pc = "load", !.op = op, !.card = c, !.to = k,
                                  !.before = b, !.after = a, !.expected = v])
      PROVE  Goes(r)
  <2> DEFINE n == [Free EXCEPT !.pc = "load", !.op = op, !.card = c, !.to = k,
                                  !.before = b, !.after = a, !.expected = v]
  <2>1. Current(n) BY <1>2 DEF Current, Fields, Free
  <2>2. Step(r, n) BY <1>2
  <2> HIDE DEF n
  <2> QED BY <2>1, <2>2, StepGoes
<1>3. ASSUME NEW k, op = "create",
             Step(r, [Free EXCEPT !.pc = "tail", !.op = op, !.to = k])
      PROVE  Goes(r)
  <2> DEFINE n == [Free EXCEPT !.pc = "tail", !.op = op, !.to = k]
  <2>1. Current(n) BY <1>3 DEF Current, Fields, Free
  <2>2. Step(r, n) BY <1>3
  <2> HIDE DEF n
  <2> QED BY <2>1, <2>2, StepGoes
<1>4. ASSUME NEW v,
             Step(r, [Free EXCEPT !.pc = "load", !.op = op, !.card = c, !.expected = v])
      PROVE  Goes(r)
  <2> DEFINE n == [Free EXCEPT !.pc = "load", !.op = op, !.card = c, !.expected = v]
  <2>1. Current(n) BY <1>4 DEF Current, Fields, Free
  <2>2. Step(r, n) BY <1>4
  <2> HIDE DEF n
  <2> QED BY <2>1, <2>2, StepGoes
<1>5. ASSUME Step(r, [Free EXCEPT !.pc = "load", !.op = op, !.card = c])
      PROVE  Goes(r)
  <2> DEFINE n == [Free EXCEPT !.pc = "load", !.op = op, !.card = c]
  <2>1. Current(n) BY <1>5 DEF Current, Fields, Free
  <2>2. Step(r, n) BY <1>5
  <2> HIDE DEF n
  <2> QED BY <2>1, <2>2, StepGoes
<1>6. ASSUME NEW d,
             Step(r, [Free EXCEPT !.pc = "load", !.op = op, !.card = c, !.to = d])
      PROVE  Goes(r)
  <2> DEFINE n == [Free EXCEPT !.pc = "load", !.op = op, !.card = c, !.to = d]
  <2>1. Current(n) BY <1>6 DEF Current, Fields, Free
  <2>2. Step(r, n) BY <1>6
  <2> HIDE DEF n
  <2> QED BY <2>1, <2>2, StepGoes
<1> QED BY <1>1, <1>2, <1>3, <1>4, <1>5, <1>6, ZenonT(60)

LEMMA QuietOtherGoes ==
  ASSUME Rows, NEW r \in Reqs, Current(req[r]),
         ReadTail(r) \/ LoadEdit(r) \/ LoadDelete(r) \/ LoadLink(r) \/ CheckCycle(r)
           \/ AddDep(r) \/ RemoveDep(r)
  PROVE  Goes(r)
<1> DEFINE m == req[r]
<1>0. DOMAIN m = Fields BY DEF Current
<1>1. CASE ReadTail(r)
  <2> DEFINE last == LastRank(InColumn(m.to))
             n == [m EXCEPT !.pc = "insert", !.rank = RankBetween(last, Open)]
  <2>1. (Fail(r) \/ Step(r, n)) /\ m.op = "create" BY <1>1, Zenon DEF ReadTail, At
  <2>2. DOMAIN n = Fields /\ n.op = "create" BY <1>0, <2>1 DEF Fields
  <2> HIDE DEF n
  <2> QED BY <2>1, <2>2, FailGoes, OtherGoes
<1>2. CASE LoadEdit(r)
  <2> DEFINE n == [m EXCEPT !.mine = cards[m.card]]
             w == [n EXCEPT !.pc = "write"]
  <2>1. /\ m.op = "edit" /\ m.pc = "load"
        /\ End(r) \/ (Exists(n.card) /\ Step(r, w))
    BY <1>2, Zenon DEF LoadEdit, At
  <2>2. ASSUME Exists(n.card) PROVE Holds(n)
    <3>1. m.card \in Ids /\ n.card = m.card BY <1>0, <2>1 DEF Current, Fields
    <3>2. cards[m.card] # NoCard /\ DOMAIN cards[m.card] = RowFields BY <2>2, <3>1 DEF Exists, Rows
    <3> QED BY <1>0, <3>1, <3>2 DEF Holds, Fields
  <2> HIDE DEF n
  <2>3. Holds(n) => Holds(w) /\ w.pc = "write" BY DEF Holds, Fields
  <2> HIDE DEF w
  <2> QED BY <2>1, <2>2, <2>3, HoldsIsCurrent, EndGoes, StepGoes
<1>3. CASE LoadDelete(r) \/ LoadLink(r) \/ CheckCycle(r)
  <2>1. PICK p : (End(r) \/ Step(r, [m EXCEPT !.pc = p])) /\ m.op \in {"delete", "link"}
    BY <1>3, Zenon DEF LoadDelete, LoadLink, CheckCycle, At
  <2> DEFINE n == [m EXCEPT !.pc = p]
  <2>2. DOMAIN n = Fields /\ n.op \in {"delete", "link"} BY <1>0, <2>1 DEF Fields
  <2>3. End(r) \/ Step(r, n) BY <2>1
  <2> HIDE DEF n
  <2> QED BY <2>2, <2>3, EndGoes, OtherGoes
<1>4. CASE AddDep(r) \/ RemoveDep(r) BY <1>4, EndGoes, FailGoes DEF AddDep, RemoveDep
<1> QED BY <1>1, <1>2, <1>3, <1>4

\* What a step may do to the card table.
Raises ==
  \A c \in Ids : /\ cards'[c].version \in Nat
                 /\ cards[c] # NoCard /\ cards'[c] \notin {NoCard, cards[c]} =>
                      cards'[c].version > cards[c].version

\* The same after the step, whatever it wrote ...
LEMMA IdleStaysCurrent ==
  ASSUME NEW r \in Reqs, Requests, End(r) \/ Fail(r)
  PROVE  Current(req[r])'
<1> DEFINE n == [Free EXCEPT !.pc = "failed", !.op = req[r].op]
<1>1. req'[r] \in {Free, n} BY DEF End, Fail, Step, Requests
<1>2. DOMAIN n = Fields /\ n.pc = "failed" BY DEF Free, Fields
<1>3. DOMAIN Free = Fields /\ Free.op = "none" BY DEF Free, Fields
<1> HIDE DEF n
<1> QED BY <1>1, <1>2, <1>3 DEF Current

\* ... and when it wrote nothing.
LEMMA GoesStaysCurrent ==
  ASSUME NEW r \in Reqs, Requests, Goes(r), UNCHANGED cards
  PROVE  Current(req[r])'
<1>1. PICK n : req' = [req EXCEPT ![r] = n] /\ Current(n) BY DEF Goes
<1>2. req'[r] = n BY <1>1 DEF Requests
<1> QED BY <1>1, <1>2 DEF Current, InColumn, Exists

\* An insertion takes an id that no card has.
LEMMA NewIdIsFree ==
  ASSUME ~Exists(MaxId), MaxId # 0
  PROVE  LET id == CHOOSE c \in Ids : /\ \A d \in Ids : Exists(d) => d < c
                                      /\ c = 1 \/ Exists(c - 1)
         IN  id \in Ids /\ cards[id] = NoCard
<1> DEFINE P(c) == /\ \A d \in Ids : Exists(d) => d < c
                   /\ c = 1 \/ Exists(c - 1)
           T == {c \in Ids : \A d \in Ids : Exists(d) => d < c}
<1>1. MaxId \in T
  <2>1. MaxId \in Ids BY BoardAssumption DEF Ids
  <2>2. ASSUME NEW d \in Ids, Exists(d) PROVE d < MaxId
    <3>1. d # MaxId BY <2>2
    <3> QED BY <3>1, BoardAssumption DEF Ids
  <2> QED BY <2>1, <2>2
<1>2. T \subseteq Nat BY BoardAssumption DEF Ids
<1>3. PICK c \in T : \A d \in T : c <= d BY <1>1, <1>2, LeastNumber
<1>4. c = 1 \/ Exists(c - 1)
  <2> SUFFICES ASSUME c # 1, ~Exists(c - 1) PROVE FALSE OBVIOUS
  <2>1. c \in Nat /\ c - 1 \in Ids /\ c - 1 < c /\ ~(c <= c - 1) BY BoardAssumption DEF Ids
  <2>2. ASSUME NEW d \in Ids, Exists(d) PROVE d < c - 1
    <3>1. d < c /\ d # c - 1 /\ d \in Nat BY <2>2, BoardAssumption DEF Ids
    <3> QED BY <3>1, <2>1
  <2>3. c - 1 \in T BY <2>1, <2>2
  <2> QED BY <2>1, <2>3, <1>3
<1>5. \E x \in Ids : P(x) BY <1>3, <1>4
<1> DEFINE id == CHOOSE x \in Ids : P(x)
<1>6. id \in Ids /\ P(id) BY <1>5, Zenon
<1> HIDE DEF id
<1>7. ~Exists(id)
  <2>1. id \in Nat /\ ~(id < id) BY <1>6, BoardAssumption DEF Ids
  <2> QED BY <1>6, <2>1
<1>8. cards[id] = NoCard BY <1>6, <1>7, BoardAssumption DEF Exists, Ids, None
<1> QED BY <1>6, <1>8 DEF id

LEMMA QuietRaises == ASSUME Versions, UNCHANGED cards PROVE Raises
BY DEF Versions, Raises

\* The rebalance lists as many cards as it counted: each is ranked, with its version raised.
LEMMA RespreadRaises ==
  ASSUME Rows, Requests, Versions, NEW r \in Reqs, Current(req[r]), Respread(r)
  PROVE  Raises /\ Current(req[r])'
<1> DEFINE m      == req[r]
           listed == {m.listed[i][1] : i \in DOMAIN m.listed}
           pos(c) == CHOOSE i \in DOMAIN m.listed : m.listed[i][1] = c
           ranked == {c \in listed : pos(c) <= m.count}
           fresh(c, row) == [row EXCEPT !.rank = RebalanceRanks[m.count][pos(c)],
                                        !.version = m.listed[pos(c)][2] + 1]
           pass1  == [c \in Ids |-> IF c \in listed
                                    THEN [cards[c] EXCEPT !.rank = Temp(pos(c))] ELSE cards[c]]
           pass2  == [c \in Ids |-> IF c \in ranked THEN fresh(c, pass1[c]) ELSE pass1[c]]
           mine   == IF m.card \in ranked THEN fresh(m.card, m.mine)
                     ELSE IF m.card \in listed THEN [m.mine EXCEPT !.rank = Temp(pos(m.card))]
                     ELSE m.mine
           n      == [m EXCEPT !.pc = Bounds(m), !.mine = mine, !.again = TRUE,
                               !.count = 0, !.listed = <<>>]
<1>1. /\ m.op = "move" /\ m.pc = "respread"
      /\ \/ Fail(r) /\ UNCHANGED cards
         \/ cards' = pass2 /\ Step(r, n)
  BY Zenon DEF Respread, At
<1>2. CASE Fail(r) /\ UNCHANGED cards
  BY <1>2, QuietRaises, IdleStaysCurrent
<1>3. CASE cards' = pass2 /\ Step(r, n)
  <2>1. Holds(m) BY <1>1, MoveHolds
  <2>2. ASSUME NEW c \in listed
        PROVE  c \in ranked /\ (c \in Ids => m.listed[pos(c)][2] = cards[c].version)
    <3>1. \E i \in DOMAIN m.listed : m.listed[i][1] = c BY <2>2
    <3>2. pos(c) \in DOMAIN m.listed /\ m.listed[pos(c)][1] = c BY <3>1, Zenon
    <3> HIDE DEF pos
    <3> QED BY <1>1, <2>2, <3>2 DEF Current
  <2> HIDE DEF listed, pos, ranked
  <2>3. ASSUME NEW c \in Ids
        PROVE  /\ c \in listed => DOMAIN pass2[c] = RowFields
                                    /\ pass2[c].version = cards[c].version + 1
               /\ c \notin listed => pass2[c] = cards[c]
    <3>1. CASE c \in listed
      <4>1. c \in ranked /\ m.listed[pos(c)][2] = cards[c].version BY <2>2, <3>1
      <4>2. DOMAIN pass1[c] = RowFields BY <3>1 DEF Rows, RowFields
      <4> HIDE DEF pass1
      <4> QED BY <3>1, <4>1, <4>2 DEF RowFields
    <3>2. CASE c \notin listed
      <4>1. c \notin ranked BY <3>2 DEF ranked
      <4> QED BY <3>2, <4>1
    <3> QED BY <3>1, <3>2
  <2>4. DOMAIN mine = RowFields /\ mine.version = pass2[m.card].version
    <3>1. m.card \in Ids /\ DOMAIN m.mine = RowFields /\ m.mine.version = cards[m.card].version
      BY <2>1 DEF Holds
    <3>2. CASE m.card \in listed
      <4>1. m.card \in ranked /\ m.listed[pos(m.card)][2] = cards[m.card].version
        BY <2>2, <3>1, <3>2
      <4>2. mine = fresh(m.card, m.mine) BY <4>1
      <4>3. DOMAIN mine = RowFields /\ mine.version = cards[m.card].version + 1
        BY <3>1, <4>1, <4>2 DEF RowFields
      <4> HIDE DEF mine, pass2
      <4> QED BY <2>3, <3>1, <3>2, <4>3
    <3>3. CASE m.card \notin listed
      <4>1. m.card \notin ranked BY <3>3 DEF ranked
      <4>2. mine = m.mine BY <3>3, <4>1
      <4> HIDE DEF mine, pass2
      <4> QED BY <2>3, <3>1, <3>3, <4>2
    <3> QED BY <3>2, <3>3
  <2> HIDE DEF mine, pass2, pass1
  <2>5. Raises
    <3> SUFFICES ASSUME NEW c \in Ids
                 PROVE  /\ cards'[c].version \in Nat
                        /\ cards[c] # NoCard /\ cards'[c] \notin {NoCard, cards[c]} =>
                             cards'[c].version > cards[c].version
      BY DEF Raises
    <3>1. cards[c].version \in Nat BY DEF Versions
    <3>2. cards'[c] = cards[c] \/ cards'[c].version = cards[c].version + 1 BY <1>3, <2>3
    <3> QED BY <3>1, <3>2
  <2>6. Current(req[r])'
    <3>1. /\ DOMAIN n = Fields /\ n.op = m.op /\ n.pc = Bounds(m) /\ n.card = m.card
          /\ n.mine = mine
      BY <2>1 DEF Holds, Fields
    <3>2. req'[r] = n BY <1>3 DEF Step, Requests
    <3> HIDE DEF n
    <3>3. m.card \in Ids /\ pass2[m.card] # NoCard
      <4>1. m.card \in Ids /\ cards[m.card] # NoCard BY <2>1 DEF Holds
      <4>2. cards[m.card].version + 1 # 0 BY <4>1 DEF Versions
      <4>3. NoCard.version = 0 BY DEF NoCard
      <4> QED BY <4>1, <4>2, <4>3, <2>3
    <3>4. Bounds(m) \notin {"list", "respread"} BY BoundsIsPlace
    <3> QED BY <1>1, <1>3, <2>4, <3>1, <3>2, <3>3, <3>4 DEF Current
  <2> QED BY <2>5, <2>6
<1> QED BY <1>1, <1>2, <1>3

\* A new card replaces none.
LEMMA InsertRaises ==
  ASSUME Rows, Requests, Versions, NEW r \in Reqs, InsertCard(r)
  PROVE  Raises /\ Current(req[r])'
<1> DEFINE m   == req[r]
           id  == CHOOSE c \in Ids : /\ \A d \in Ids : Exists(d) => d < c
                                     /\ c = 1 \/ Exists(c - 1)
           row == [col |-> m.to, rank |-> m.rank, version |-> 1]
           new == [cards EXCEPT ![id] = row]
<1>1. /\ ~Exists(MaxId)
      /\ \/ Fail(r) /\ UNCHANGED cards
         \/ cards' = new /\ End(r)
  BY Zenon DEF InsertCard
<1>2. Current(req[r])' BY <1>1, IdleStaysCurrent
<1>3. CASE UNCHANGED cards BY <1>2, <1>3, QuietRaises
<1>4. CASE cards' = new
  <2>1. MaxId # 0 => id \in Ids /\ cards[id] = NoCard BY <1>1, NewIdIsFree
  <2> HIDE DEF id
  <2>2. MaxId = 0 => Ids = {} BY DEF Ids
  <2>3. row.version = 1 OBVIOUS
  <2> HIDE DEF row
  <2> QED BY <1>2, <1>4, <2>1, <2>2, <2>3 DEF Raises, Rows, Versions
<1> QED BY <1>1, <1>3, <1>4

\* Moves and edits count on from the version they loaded.
LEMMA WriteRaises ==
  ASSUME Rows, Requests, Versions, NEW r \in Reqs, Current(req[r]),
         WriteEdit(r) \/ DeleteCard(r) \/ WriteMove(r)
  PROVE  Raises /\ Current(req[r])'
<1> DEFINE m == req[r]
           v == m.mine.version + 1
           moved == Updated(cards[m.card], m.mine, m.to, m.rank)
           edited == [cards[m.card] EXCEPT !.version = v]
<1>1. \/ Fail(r) /\ UNCHANGED cards
      \/ /\ End(r) /\ m.op \in {"move", "edit"} /\ m.pc = "write"
         /\ \/ cards' = [cards EXCEPT ![m.card] = [cards[m.card] EXCEPT !.version = v]]
            \/ cards' = [cards EXCEPT ![m.card] = moved]
      \/ End(r) /\ cards' = [cards EXCEPT ![m.card] = NoCard]
  BY Zenon DEF WriteEdit, DeleteCard, WriteMove, At
<1>2. Current(req[r])' BY <1>1, IdleStaysCurrent
<1>3. CASE UNCHANGED cards BY <1>2, <1>3, QuietRaises
<1>4. CASE cards' = [cards EXCEPT ![m.card] = NoCard]
  <2>1. NoCard.version = 0 BY DEF NoCard
  <2> QED BY <1>2, <1>4, <2>1 DEF Raises, Rows, Versions
<1>5. ASSUME NEW row, m.op \in {"move", "edit"}, m.pc = "write",
             cards' = [cards EXCEPT ![m.card] = row], row \in {edited, moved}
      PROVE  Raises
  <2>1. Holds(m) BY <1>5, MoveHolds
  <2>2. row.version = cards[m.card].version + 1
    <3>1. DOMAIN cards[m.card] = RowFields BY <2>1 DEF Holds, Rows
    <3>2. edited.version = v BY <3>1 DEF RowFields
    <3>3. moved.version = v BY DEF Updated
    <3> QED BY <1>5, <2>1, <3>2, <3>3 DEF Holds
  <2> HIDE DEF edited, moved
  <2>3. m.card \in Ids BY <2>1 DEF Holds
  <2> QED BY <1>5, <2>2, <2>3 DEF Raises, Rows, Versions
<1> HIDE DEF moved
<1>6. CASE /\ m.op \in {"move", "edit"} /\ m.pc = "write"
           /\ \/ cards' = [cards EXCEPT ![m.card] = edited]
              \/ cards' = [cards EXCEPT ![m.card] = moved]
  BY <1>2, <1>5, <1>6
<1> QED BY <1>1, <1>2, <1>3, <1>4, <1>6

\* The slot that steps keeps up with the table.
LEMMA StepRaises ==
  ASSUME Rows, Requests, Versions, NEW r \in Reqs, Current(req[r]),
         Submit(r) \/ MoveStep(r) \/ OtherStep(r)
  PROVE  Raises /\ Current(req[r])'
<1>1. CASE Submit(r)
  BY <1>1, SubmitQuiet, SubmitGoes, GoesStaysCurrent, QuietRaises
<1>2. CASE \/ LoadMove(r) \/ ReadDeps(r) \/ CheckDep(r) \/ ReadBefore(r) \/ ReadAfter(r)
           \/ ReadEnd(r) \/ CountCards(r) \/ ListCards(r)
  BY <1>2, QuietMove, MoveGoes, GoesStaysCurrent, QuietRaises
<1>3. CASE CountWip(r)
  BY <1>3, CountCounts, MoveGoes, GoesStaysCurrent, QuietRaises
<1>4. CASE \/ ReadTail(r) \/ LoadEdit(r) \/ LoadDelete(r) \/ LoadLink(r) \/ CheckCycle(r)
           \/ AddDep(r) \/ RemoveDep(r)
  BY <1>4, QuietOther, QuietOtherGoes, GoesStaysCurrent, QuietRaises
<1>5. CASE Respread(r) BY <1>5, RespreadRaises
<1>6. CASE InsertCard(r) BY <1>6, InsertRaises
<1>7. CASE WriteEdit(r) \/ DeleteCard(r) \/ WriteMove(r) BY <1>7, WriteRaises
<1> QED BY <1>1, <1>2, <1>3, <1>4, <1>5, <1>6, <1>7, Zenon DEF MoveStep, OtherStep

\* VersionGrows: served one after the other, every request that changes a card raises its
\* version, a rebalance of the column included.
THEOREM VersionGrowsAlways ==
  ASSUME \A q, r \in Reqs : q = r
  PROVE  Spec => VersionGrows
<1> DEFINE IInv == Rows /\ Requests /\ Versions /\ \A r \in Reqs : Current(req[r])
           Grows == \A c \in Ids : Exists(c) /\ cards'[c] \notin {NoCard, cards[c]} =>
                                     cards'[c].version > cards[c].version
<1>1. Init => IInv
  <2> SUFFICES ASSUME Init PROVE IInv OBVIOUS
  <2>1. Versions BY DEF Init, Versions, NoCard
  <2>2. \A r \in Reqs : Current(req[r]) BY IdleIsCurrent DEF Init
  <2> QED BY <2>1, <2>2, InitShape
<1>2. IInv /\ [Next]_vars => IInv' /\ [Grows]_vars
  <2> SUFFICES ASSUME IInv, [Next]_vars PROVE IInv' /\ [Grows]_vars OBVIOUS
  <2>1. CASE Next
    <3>1. PICK r \in Reqs : Submit(r) \/ MoveStep(r) \/ OtherStep(r) BY <2>1 DEF Next
    <3>2. Raises /\ Current(req[r])' BY <3>1, StepRaises
    <3>3. \A q \in Reqs : Current(req[q])' BY <3>2
    <3>4. Rows' /\ Requests' BY <2>1, EachStep
    <3>5. Versions' BY <3>2 DEF Raises, Versions
    <3>6. Grows BY <3>2 DEF Raises, Exists
    <3> QED BY <3>3, <3>4, <3>5, <3>6
  <2>2. CASE UNCHANGED vars
    BY <2>2 DEF vars, Rows, Requests, Versions, Current, InColumn, Exists
  <2> QED BY <2>1, <2>2
<1> QED BY <1>1, <1>2, PTL DEF Spec, VersionGrows

-----------------------------------------------------------------------------
(* Ranks of a column *)

LEMMA AnyRankIsString ==
  /\ AnyRank \subseteq String /\ Ids \subseteq Nat
  /\ \A r \in Rank : ~IsTemp(r)
  /\ \A r \in AnyRank : ~IsTemp(r) => r \in Rank
  /\ \A i, j \in Ids : Temp(i) = Temp(j) => i = j
  /\ \A i \in Ids : Temp(i) \notin Rank
  /\ ~IsTemp(Open)
<1>1. Ids \subseteq Nat /\ Base \in Nat BY BoardAssumption, RankAssumption DEF Ids
<1>2. \A i \in Ids : Temp(i) \in String /\ IsTemp(Temp(i))
  <2> SUFFICES ASSUME NEW i \in Ids PROVE Temp(i) \in String /\ IsTemp(Temp(i)) OBVIOUS
  <2>1. i \in Nat BY <1>1
  <2>2. Temp(i) \in Seq(Nat) /\ Len(Temp(i)) = 2 /\ Temp(i)[1] = Base BY <1>1, <2>1 DEF Temp
  <2>3. Temp(i) # Open BY <2>2 DEF Open
  <2> QED BY <2>2, <2>3 DEF String, IsTemp
<1>3. \A r \in Rank : ~IsTemp(r)
  <2> SUFFICES ASSUME NEW r \in Rank PROVE r[1] # Base BY DEF IsTemp
  <2>1. r \in Seq(Digits) /\ r # <<>> BY DEF Rank
  <2>2. r[1] \in Digits BY <2>1
  <2> QED BY <2>2, <1>1 DEF Digits
<1>4. \A i, j \in Ids : Temp(i) = Temp(j) => i = j
  <2> SUFFICES ASSUME NEW i \in Ids, NEW j \in Ids, Temp(i) = Temp(j) PROVE i = j OBVIOUS
  <2>1. Temp(i)[2] = i /\ Temp(j)[2] = j BY DEF Temp
  <2> QED BY <2>1
<1> QED BY <1>1, <1>2, <1>3, <1>4, RankIsString DEF AnyRank, IsTemp

\* f is RebalanceRanks.
IsSpread(f) ==
  f = [n \in Nat |->
         IF n = 0 THEN <<>>
         ELSE Append(f[n - 1], RankBetween(IF n = 1 THEN Open ELSE f[n - 1][n - 1], Open))]

\* One rank more, above the last.
OneMore(n, s) == Append(s, RankBetween(IF n = 1 THEN Open ELSE s[n - 1], Open))

\* A spread of n ranks ascends.
Ascends(s, n) ==
  /\ s \in Seq(Rank) /\ Len(s) = n
  /\ \A i, j \in 1..n : i < j => Less(s[i], s[j])

LEMMA OneMoreAscends ==
  ASSUME NEW n \in Nat, NEW s, Ascends(s, n)
  PROVE  Ascends(OneMore(n + 1, s), n + 1)
<1> DEFINE lo == IF n + 1 = 1 THEN Open ELSE s[(n + 1) - 1]
           x == RankBetween(lo, Open)
<1>1. s \in Seq(Rank) /\ Len(s) = n /\ \A i, j \in 1..n : i < j => Less(s[i], s[j]) BY DEF Ascends
<1>2. (n + 1) - 1 = n OBVIOUS
<1>3. lo \in Rank \cup {Open}
  <2>1. CASE n = 0 BY <2>1
  <2>2. CASE n # 0 BY <2>2, <1>1, <1>2
  <2> QED BY <2>1, <2>2
<1>4. n # 0 => lo = s[n] BY <1>2
<1> HIDE DEF lo
<1>5. x \in Rank /\ Less(lo, x) BY <1>3, RankBetweenIsBetween
<1>6. OneMore(n + 1, s) = Append(s, x) BY DEF OneMore, lo
<1> HIDE DEF x
<1>7. /\ Append(s, x) \in Seq(Rank) /\ Len(Append(s, x)) = n + 1
      /\ Append(s, x)[n + 1] = x /\ \A i \in 1..n : Append(s, x)[i] = s[i]
  BY <1>1, <1>5
<1>8. ASSUME NEW i \in 1..n PROVE Less(s[i], x)
  <2>1. n # 0 /\ n \in 1..n /\ s[n] \in Rank /\ s[i] \in Rank BY <1>1
  <2>2. CASE i = n BY <2>1, <2>2, <1>4, <1>5
  <2>3. CASE i # n
    <3>1. Less(s[i], s[n]) BY <2>1, <2>3, <1>1
    <3> QED BY <3>1, <2>1, <1>4, <1>5, LessTransitive, RankIsString
  <2> QED BY <2>2, <2>3
<1>9. ASSUME NEW i \in 1..(n + 1), NEW j \in 1..(n + 1), i < j
      PROVE  Less(Append(s, x)[i], Append(s, x)[j])
  <2>1. i \in 1..n BY <1>9
  <2>2. CASE j = n + 1 BY <2>1, <2>2, <1>7, <1>8
  <2>3. CASE j # n + 1
    <3>1. j \in 1..n BY <2>3
    <3> QED BY <2>1, <3>1, <1>1, <1>7, <1>9
  <2> QED BY <2>2, <2>3
<1> QED BY <1>6, <1>7, <1>9 DEF Ascends

LEMMA SpreadExists == \E f : IsSpread(f)
<1> DEFINE V == Seq(Rank)
           a == <<>>
           next == [n \in Nat |-> [s \in V |-> IF Len(s) = n - 1 THEN OneMore(n, s) ELSE s]]
<1>1. a \in V OBVIOUS
<1>2. ASSUME NEW n \in Nat, NEW s \in V, Len(s) = n - 1 PROVE OneMore(n, s) \in V
  <2> DEFINE lo == IF n = 1 THEN Open ELSE s[n - 1]
  <2>1. lo \in Rank \cup {Open}
    <3>1. CASE n = 1 BY <3>1
    <3>2. CASE n # 1
      <4>1. n - 1 \in 1..Len(s) BY <3>2, <1>2
      <4> QED BY <4>1, <3>2
    <3> QED BY <3>1, <3>2
  <2> HIDE DEF lo
  <2>2. RankBetween(lo, Open) \in Rank BY <2>1, RankBetweenIsBetween
  <2>3. OneMore(n, s) = Append(s, RankBetween(lo, Open)) BY DEF OneMore, lo
  <2> QED BY <2>2, <2>3
<1>3. Steps(next, V) BY <1>2 DEF Steps
<1>4. \A n \in Nat : \A s \in V : Len(s) = n => next[n + 1][s] = OneMore(n + 1, s)
  <2> SUFFICES ASSUME NEW n \in Nat, NEW s \in V, Len(s) = n
               PROVE  next[n + 1][s] = OneMore(n + 1, s)
    OBVIOUS
  <2>1. n + 1 \in Nat /\ (n + 1) - 1 = n OBVIOUS
  <2> QED BY <2>1
<1> HIDE DEF next, a
<1>5. PICK f \in [Nat -> V] : Follows(f, a, next)
  <2> HIDE DEF V
  <2> QED BY <1>1, <1>3, RecursionExists
<1> DEFINE T == {n \in Nat : Len(f[n]) = n}
<1>6. 0 \in T BY <1>5 DEF Follows, a
<1>7. ASSUME NEW n \in Nat, n \in T PROVE n + 1 \in T /\ f[n + 1] = OneMore(n + 1, f[n])
  <2>1. f[n + 1] = OneMore(n + 1, f[n]) BY <1>4, <1>5, <1>7 DEF Follows
  <2>2. Len(f[n + 1]) = n + 1 BY <2>1, <1>7 DEF OneMore
  <2> QED BY <2>1, <2>2
<1> HIDE DEF T
<1>8. \A n \in Nat : n \in T BY <1>6, <1>7, SetInduction
<1> DEFINE F == [n \in Nat |-> IF n = 0 THEN <<>> ELSE OneMore(n, f[n - 1])]
<1>9. ASSUME NEW n \in Nat PROVE f[n] = F[n]
  <2>1. CASE n = 0 BY <1>5, <2>1 DEF a, Follows
  <2>2. CASE n # 0
    <3>1. n - 1 \in Nat /\ (n - 1) + 1 = n BY <2>2
    <3>2. f[n] = OneMore(n, f[n - 1]) BY <3>1, <1>7, <1>8
    <3> QED BY <2>2, <3>2
  <2> QED BY <2>1, <2>2
<1>10. f = F
  <2>1. f = [n \in Nat |-> f[n]] BY <1>5
  <2>2. [n \in Nat |-> f[n]] = F BY <1>9
  <2> QED BY <2>1, <2>2
<1> QED BY <1>10 DEF IsSpread, OneMore

\* rebalance_ranks returns as many ranks as asked for, in ascending order.
LEMMA SpreadAscends ==
  \A n \in Nat : Ascends(RebalanceRanks[n], n)
<1> DEFINE G(f) == [n \in Nat |->
                      IF n = 0 THEN <<>>
                      ELSE LET before == f[n - 1]
                           IN  Append(before, RankBetween(IF n = 1 THEN Open ELSE before[n - 1], Open))]
<1>1. \A f : IsSpread(f) <=> f = G(f) BY Zenon DEF IsSpread
<1>2. RebalanceRanks = CHOOSE f : f = G(f) BY Zenon DEF RebalanceRanks
<1> HIDE DEF G
<1>3. RebalanceRanks = G(RebalanceRanks) BY <1>1, <1>2, SpreadExists, Zenon
<1>4. IsSpread(RebalanceRanks) BY <1>1, <1>3, Zenon
<1>5. PICK f : f = RebalanceRanks OBVIOUS
<1>6. f[0] = <<>> /\ \A n \in Nat : f[n + 1] = OneMore(n + 1, f[n])
  <2>1. f[0] = <<>> BY <1>4, <1>5 DEF IsSpread
  <2>2. ASSUME NEW n \in Nat PROVE f[n + 1] = OneMore(n + 1, f[n])
    <3>1. n + 1 \in Nat /\ n + 1 # 0 /\ (n + 1) - 1 = n OBVIOUS
    <3>2. f[n + 1] = OneMore(n + 1, f[(n + 1) - 1]) BY <3>1, <1>4, <1>5 DEF IsSpread, OneMore
    <3> QED BY <3>1, <3>2
  <2> QED BY <2>1, <2>2
<1> DEFINE T == {n \in Nat : Ascends(f[n], n)}
<1>7. 0 \in T
  <2>1. <<>> \in Seq(Rank) /\ Len(<<>>) = 0 /\ 1..0 = {} OBVIOUS
  <2>2. Ascends(<<>>, 0) BY <2>1 DEF Ascends
  <2> QED BY <2>2, <1>6
<1>8. ASSUME NEW n \in Nat, n \in T PROVE n + 1 \in T BY <1>6, <1>8, OneMoreAscends
<1> HIDE DEF T
<1>9. \A n \in Nat : n \in T BY <1>7, <1>8, SetInduction
<1> QED BY <1>5, <1>9 DEF T

-----------------------------------------------------------------------------
(* The order of a column *)

\* Cards that have ranks of their own.
Sortable(S) ==
  /\ S \subseteq Ids
  /\ \A c \in S : cards[c].rank \in String
  /\ \A c, d \in S : c # d => cards[c].rank # cards[d].rank

Before(c, d) == Less(cards[c].rank, cards[d].rank)

Below(S, c) == {d \in S : Before(d, c)}

LEMMA SortableIsFinite ==
  ASSUME NEW S, Sortable(S)
  PROVE  IsFiniteSet(S) /\ Cardinality(S) \in Nat
<1>1. S \subseteq 1..MaxId BY DEF Sortable, Ids
<1>2. IsFiniteSet(1..MaxId) BY BoardAssumption, FS_Interval
<1> QED BY <1>1, <1>2, FS_Subset, FS_CardinalityType

\* Before is a strict total order of such cards.
LEMMA BeforeIsOrder ==
  ASSUME NEW S, Sortable(S)
  PROVE  /\ \A c \in S : ~Before(c, c)
         /\ \A c, d \in S : c # d => Before(c, d) \/ Before(d, c)
         /\ \A c, d, e \in S : Before(c, d) /\ Before(d, e) => Before(c, e)
         /\ \A c, d \in S : Before(c, d) => ~Before(d, c)
<1>1. \A c \in S : ~Before(c, c) BY LessIrreflexive DEF Sortable, Before
<1>2. \A c, d \in S : c # d => Before(c, d) \/ Before(d, c) BY LessTotal DEF Sortable, Before
<1>3. \A c, d, e \in S : Before(c, d) /\ Before(d, e) => Before(c, e)
  BY LessTransitive DEF Sortable, Before
<1> QED BY <1>1, <1>2, <1>3

\* One of them is the last.
LEMMA LastExists ==
  ASSUME NEW S, Sortable(S), S # {}
  PROVE  \E c \in S : \A d \in S \ {c} : Before(d, c)
<1> DEFINE T == {n \in Nat : \A R \in SUBSET Ids :
                   Sortable(R) /\ R # {} /\ Cardinality(R) = n =>
                     \E c \in R : \A d \in R \ {c} : Before(d, c)}
<1>1. 0 \in T
  <2>1. ASSUME NEW R \in SUBSET Ids, Sortable(R), R # {}, Cardinality(R) = 0 PROVE FALSE
    BY <2>1, SortableIsFinite, FS_EmptySet
  <2> QED BY <2>1
<1>2. ASSUME NEW n \in Nat, n \in T PROVE n + 1 \in T
  <2> SUFFICES ASSUME NEW R \in SUBSET Ids, Sortable(R), R # {}, Cardinality(R) = n + 1
               PROVE  \E c \in R : \A d \in R \ {c} : Before(d, c)
    OBVIOUS
  <2>1. PICK x \in R : TRUE OBVIOUS
  <2> DEFINE Q == R \ {x}
  <2>2. Sortable(Q) /\ Q \in SUBSET Ids BY DEF Sortable
  <2>3. Cardinality(Q) = n
    <3>1. IsFiniteSet(R) BY SortableIsFinite
    <3>2. Cardinality(Q) = Cardinality(R) - 1 BY <3>1, <2>1, FS_RemoveElement
    <3> QED BY <3>2
  <2>4. CASE Q = {} BY <2>1, <2>4
  <2>5. CASE Q # {}
    <3>1. PICK y \in Q : \A d \in Q \ {y} : Before(d, y) BY <1>2, <2>2, <2>3, <2>5
    <3>2. CASE Before(y, x)
      <4>1. ASSUME NEW d \in R \ {x} PROVE Before(d, x)
        <5>1. d = y \/ Before(d, y) BY <3>1
        <5> QED BY <5>1, <3>2, <2>1, <3>1, BeforeIsOrder
      <4> QED BY <4>1, <2>1
    <3>3. CASE Before(x, y) BY <3>1, <3>3
    <3>4. x # y /\ y \in R BY <3>1
    <3> QED BY <3>2, <3>3, <3>4, <2>1, BeforeIsOrder
  <2> QED BY <2>4, <2>5
<1> HIDE DEF T
<1>3. \A n \in Nat : n \in T BY <1>1, <1>2, SetInduction
<1>4. S \in SUBSET Ids BY DEF Sortable
<1> QED BY <1>3, <1>4, SortableIsFinite DEF T

\* The numbers of cards below are 0, 1, ... up to the last.
LEMMA PlacesExist ==
  ASSUME NEW S, Sortable(S), NEW i \in 1..Cardinality(S)
  PROVE  \E c \in S : Cardinality(Below(S, c)) = i - 1
<1> DEFINE T == {n \in Nat : \A R \in SUBSET Ids :
                   Sortable(R) /\ Cardinality(R) = n =>
                     \A j \in 1..n : \E c \in R : Cardinality(Below(R, c)) = j - 1}
<1>1. 0 \in T OBVIOUS
<1>2. ASSUME NEW n \in Nat, n \in T PROVE n + 1 \in T
  <2> SUFFICES ASSUME NEW R \in SUBSET Ids, Sortable(R), Cardinality(R) = n + 1,
                      NEW j \in 1..(n + 1)
               PROVE  \E c \in R : Cardinality(Below(R, c)) = j - 1
    OBVIOUS
  <2>1. R # {} BY FS_EmptySet
  <2>2. PICK x \in R : \A d \in R \ {x} : Before(d, x) BY <2>1, LastExists
  <2> DEFINE Q == R \ {x}
  <2>3. Sortable(Q) /\ Q \in SUBSET Ids BY DEF Sortable
  <2>4. Cardinality(Q) = n
    <3>1. IsFiniteSet(R) BY SortableIsFinite
    <3>2. Cardinality(Q) = Cardinality(R) - 1 BY <3>1, <2>2, FS_RemoveElement
    <3> QED BY <3>2
  <2>5. CASE j = n + 1
    <3>1. Below(R, x) = Q BY <2>2, BeforeIsOrder DEF Below
    <3>2. Cardinality(Below(R, x)) = n BY <3>1, <2>4
    <3> QED BY <3>2, <2>5, <2>2
  <2>6. CASE j # n + 1
    <3>1. j \in 1..n BY <2>6
    <3>2. PICK c \in Q : Cardinality(Below(Q, c)) = j - 1 BY <3>1, <1>2, <2>3, <2>4
    <3>3. Below(R, c) = Below(Q, c) BY <3>2, <2>2, BeforeIsOrder DEF Below
    <3> QED BY <3>2, <3>3
  <2> QED BY <2>5, <2>6
<1> HIDE DEF T
<1>3. \A n \in Nat : n \in T BY <1>1, <1>2, SetInduction
<1>4. S \in SUBSET Ids BY DEF Sortable
<1> QED BY <1>3, <1>4, SortableIsFinite DEF T

\* A card has fewer cards below than one that it is below.
LEMMA BelowGrows ==
  ASSUME NEW S, Sortable(S), NEW c \in S, NEW d \in S, Before(c, d)
  PROVE  Cardinality(Below(S, c)) < Cardinality(Below(S, d))
<1>1. IsFiniteSet(S) BY SortableIsFinite
<1>2. IsFiniteSet(Below(S, d)) /\ IsFiniteSet(Below(S, c)) BY <1>1, FS_Subset DEF Below
<1>3. Below(S, c) \subseteq Below(S, d) BY BeforeIsOrder DEF Below
<1>4. c \in Below(S, d) /\ c \notin Below(S, c) BY BeforeIsOrder DEF Below
<1> QED BY <1>2, <1>3, <1>4, FS_Subset, FS_CardinalityType

\* Order lists every card of the column once, in the order of the ranks.
LEMMA OrderLists ==
  ASSUME NEW k, Sortable(InColumn(k))
  PROVE  /\ Cardinality(InColumn(k)) \in Nat /\ DOMAIN Order(k) = 1..Cardinality(InColumn(k))
         /\ \A i \in DOMAIN Order(k) : Order(k)[i] \in InColumn(k)
         /\ \A c \in InColumn(k) : \E i \in DOMAIN Order(k) : Order(k)[i] = c
         /\ \A i, j \in DOMAIN Order(k) : i < j => Before(Order(k)[i], Order(k)[j])
<1> DEFINE S == InColumn(k)
           n == Cardinality(S)
           at(i) == CHOOSE c \in S :
                      Cardinality({d \in S : Less(cards[d].rank, cards[c].rank)}) = i - 1
<1>1. Order(k) = [i \in 1..n |-> at(i)] BY Zenon DEF Order
<1>2. ASSUME NEW i \in 1..n PROVE at(i) \in S /\ Cardinality(Below(S, at(i))) = i - 1
  <2>1. \E c \in S : Cardinality(Below(S, c)) = i - 1 BY PlacesExist
  <2>2. \A c \in S : Below(S, c) = {d \in S : Less(cards[d].rank, cards[c].rank)}
    BY DEF Below, Before
  <2>3. \E c \in S : Cardinality({d \in S : Less(cards[d].rank, cards[c].rank)}) = i - 1
    BY <2>1, <2>2
  <2>4. /\ at(i) \in S
        /\ Cardinality({d \in S : Less(cards[d].rank, cards[at(i)].rank)}) = i - 1
    BY <2>3, Zenon
  <2> HIDE DEF at
  <2> QED BY <2>2, <2>4
<1> HIDE DEF at
<1>3. IsFiniteSet(S) /\ n \in Nat BY SortableIsFinite
<1>4. ASSUME NEW c \in S PROVE \E i \in 1..n : at(i) = c
  <2> DEFINE b == Cardinality(Below(S, c))
  <2>1. Below(S, c) \subseteq S /\ c \notin Below(S, c) BY BeforeIsOrder DEF Below
  <2>2. b \in Nat /\ b < n BY <2>1, <1>3, FS_Subset, FS_CardinalityType
  <2>3. b + 1 \in 1..n /\ (b + 1) - 1 = b BY <2>2, <1>3
  <2>4. at(b + 1) \in S /\ Cardinality(Below(S, at(b + 1))) = b BY <1>2, <2>3
  <2>5. at(b + 1) = c
    <3> HIDE DEF b
    <3>1. ~Before(at(b + 1), c) BY <2>2, <2>4, BelowGrows DEF b
    <3>2. ~Before(c, at(b + 1)) BY <2>2, <2>4, BelowGrows DEF b
    <3> QED BY <3>1, <3>2, <2>4, BeforeIsOrder
  <2> QED BY <2>3, <2>5
<1>5. ASSUME NEW i \in 1..n, NEW j \in 1..n, i < j PROVE Before(at(i), at(j))
  <2>1. /\ at(i) \in S /\ Cardinality(Below(S, at(i))) = i - 1
        /\ at(j) \in S /\ Cardinality(Below(S, at(j))) = j - 1
    BY <1>2
  <2>2. at(i) # at(j) BY <2>1, <1>5
  <2>3. ~Before(at(j), at(i))
    <3>1. ASSUME Before(at(j), at(i)) PROVE FALSE
      <4>1. Cardinality(Below(S, at(j))) < Cardinality(Below(S, at(i))) BY <3>1, <2>1, BelowGrows
      <4> QED BY <4>1, <2>1, <1>5
    <3> QED BY <3>1
  <2> QED BY <2>1, <2>2, <2>3, BeforeIsOrder
<1> QED BY <1>1, <1>2, <1>3, <1>4, <1>5

\* The last rank is that of a card.
LEMMA LastRankIs ==
  ASSUME NEW S, Sortable(S)
  PROVE  LastRank(S) = Open \/ \E c \in S : LastRank(S) = cards[c].rank
<1>1. CASE S = {} BY <1>1 DEF LastRank
<1>2. CASE S # {}
  <2>1. \E c \in S : \A d \in S \ {c} : Less(cards[d].rank, cards[c].rank)
    BY <1>2, LastExists DEF Before
  <2> DEFINE x == CHOOSE c \in S : \A d \in S \ {c} : Less(cards[d].rank, cards[c].rank)
  <2>2. x \in S BY <2>1, Zenon
  <2>3. LastRank(S) = cards[x].rank BY <1>2 DEF LastRank
  <2> QED BY <2>2, <2>3
<1> QED BY <1>1, <1>2

-----------------------------------------------------------------------------
(* Types *)

\* A request that is typed, with what its progress adds to the types of its fields.
Well(m) ==
  /\ m \in Request /\ Len(m.listed) <= MaxId
  /\ m.op = "move" /\ m.pc # "failed" => m.card \in Ids /\ m.to \in Columns
  /\ m.op = "move" /\ m.pc \notin {"load", "failed"} => m.mine \in Row
  /\ m.op = "move" /\ m.pc \in {"wip", "write"} => m.rank \in Rank
  /\ m.op = "edit" /\ m.pc # "failed" => m.card \in Ids
  /\ m.op = "edit" /\ m.pc = "write" => m.mine \in Row
  /\ m.op = "create" /\ m.pc \in {"tail", "insert"} => m.to \in Columns
  /\ m.op = "create" /\ m.pc = "insert" => m.rank \in Rank
  /\ m.op \in {"link", "unlink"} /\ m.pc # "failed" => m.card \in Ids /\ m.to \in Ids

\* Request r goes on as one of those.
Keeps(r) == \E n : req' = [req EXCEPT ![r] = n] /\ Well(n)

LEMMA StepKeeps == ASSUME NEW r, NEW n, Step(r, n), Well(n) PROVE Keeps(r)
BY DEF Step, Keeps

LEMMA FreeWell == Well(Free)
<1>1. Free \in Request
  <2>1. Free.listed \in Listing BY DEF Free, Listing
  <2>2. "free" \in Places BY DEF Places
  <2> QED BY <2>1, <2>2 DEF Free, Request
<1>2. Len(Free.listed) = 0 BY DEF Free
<1>3. Free.op = "none" BY DEF Free
<1> QED BY <1>1, <1>2, <1>3, BoardAssumption DEF Well

LEMMA EndKeeps == ASSUME NEW r, End(r) PROVE Keeps(r)
BY FreeWell, StepKeeps DEF End

LEMMA FailedIsRequest ==
  ASSUME NEW m \in Request, NEW op \in Ops \cup {"none"}
  PROVE  [m EXCEPT !.pc = "failed", !.op = op] \in Request
<1>1. "failed" \in Places BY DEF Places
<1> QED BY <1>1 DEF Request

LEMMA FailedWell ==
  ASSUME NEW op \in Ops \cup {"none"} PROVE Well([Free EXCEPT !.pc = "failed", !.op = op])
<1> DEFINE n == [Free EXCEPT !.pc = "failed", !.op = op]
<1>1. Free \in Request BY FreeWell DEF Well
<1>2. n \in Request BY <1>1, FailedIsRequest
<1>3. n.pc = "failed" /\ Len(n.listed) = 0 /\ n.op = op BY DEF Free
<1> HIDE DEF n
<1>4. Well(n) BY <1>2, <1>3, BoardAssumption DEF Well
<1> QED BY <1>4 DEF n

LEMMA FailKeeps ==
  ASSUME NEW r, Fail(r), req[r].op \in Ops \cup {"none"} PROVE Keeps(r)
<1> DEFINE n == [Free EXCEPT !.pc = "failed", !.op = req[r].op]
<1>1. Well(n) BY FailedWell
<1>2. Step(r, n) BY DEF Fail
<1> HIDE DEF n
<1> QED BY <1>1, <1>2, StepKeeps

\* A move goes on with the same card and destination.
LEMMA AdvanceKeeps ==
  ASSUME NEW r, NEW m, NEW p, Well(m), m.op = "move", m.pc # "failed", m.mine \in Row,
         p \in {"gate", "gating", "before", "after", "end"},
         Step(r, [m EXCEPT !.pc = p])
  PROVE  Keeps(r)
<1> DEFINE n == [m EXCEPT !.pc = p]
<1>0. p \in Places BY DEF Places
<1>1. n \in Request BY <1>0 DEF Well, Request
<1>2. /\ n.pc = p /\ n.op = m.op /\ n.card = m.card /\ n.to = m.to /\ n.mine = m.mine
      /\ n.listed = m.listed
  BY DEF Well, Request
<1> HIDE DEF n
<1>3. Well(n) BY <1>1, <1>2 DEF Well
<1>4. Step(r, n) BY DEF n
<1> QED BY <1>3, <1>4, StepKeeps

\* A rank is computed between strings of digits, one below the other.
LEMMA PlacedRank ==
  ASSUME NEW lo \in AnyRank \cup {Open}, NEW hi \in AnyRank \cup {Open},
         ~(lo # Open /\ hi # Open /\ ~Less(lo, hi)), ~(IsTemp(lo) \/ IsTemp(hi))
  PROVE  /\ RankBetween(lo, hi) \in Rank /\ Less(lo, RankBetween(lo, hi))
         /\ hi # Open => Less(RankBetween(lo, hi), hi)
<1>1. lo \in Rank \cup {Open} /\ hi \in Rank \cup {Open} BY AnyRankIsString
<1>2. hi # Open => Less(lo, hi)
  <2>1. hi # Open => hi \in String BY <1>1, RankIsString
  <2> QED BY <2>1, OpenIsLowest
<1> QED BY <1>1, <1>2, RankBetweenIsBetween

LEMMA PlacedKeeps ==
  ASSUME NEW r, NEW m, Well(m), m.op = "move", m.pc \in {"before", "after", "end"},
         req[r].op = "move", Placed(r, m)
  PROVE  Keeps(r)
<1> DEFINE rank == RankBetween(m.lo, m.hi)
           long == [m EXCEPT !.pc = "count", !.lo = Open, !.hi = Open]
           p == IF Limited(m) THEN "wip" ELSE "write"
           short == [m EXCEPT !.pc = p, !.rank = rank, !.lo = Open, !.hi = Open]
<1>1. \/ End(r) \/ Fail(r)
      \/ /\ ~(m.lo # Open /\ m.hi # Open /\ ~Less(m.lo, m.hi))
         /\ ~(IsTemp(m.lo) \/ IsTemp(m.hi))
         /\ Step(r, long) \/ Step(r, short)
  BY Zenon DEF Placed
<1>2. CASE Step(r, long)
  <2>0. "count" \in Places BY DEF Places
  <2>1. long \in Request BY <2>0 DEF Well, Request
  <2>2. /\ long.pc = "count" /\ long.op = m.op /\ long.card = m.card /\ long.to = m.to
        /\ long.mine = m.mine /\ long.listed = m.listed
    BY DEF Well, Request
  <2> HIDE DEF long
  <2>3. Well(long) BY <2>1, <2>2 DEF Well
  <2> QED BY <1>2, <2>3, StepKeeps
<1>3. CASE /\ ~(m.lo # Open /\ m.hi # Open /\ ~Less(m.lo, m.hi))
           /\ ~(IsTemp(m.lo) \/ IsTemp(m.hi))
           /\ Step(r, short)
  <2>1. m.lo \in AnyRank \cup {Open} /\ m.hi \in AnyRank \cup {Open} BY DEF Well, Request
  <2>2. rank \in Rank BY <1>3, <2>1, PlacedRank
  <2>a. p \in {"wip", "write"} /\ p \in Places BY DEF Places
  <2> HIDE DEF rank, p
  <2>3. short \in Request BY <2>2, <2>a DEF Well, Request
  <2>4. /\ short.pc \in {"wip", "write"} /\ short.op = m.op /\ short.card = m.card
        /\ short.to = m.to /\ short.mine = m.mine /\ short.listed = m.listed /\ short.rank = rank
    BY <2>a DEF Well, Request
  <2> HIDE DEF short
  <2>5. Well(short) BY <2>2, <2>3, <2>4 DEF Well
  <2> QED BY <1>3, <2>5, StepKeeps
<1>4. CASE End(r) BY <1>4, EndKeeps
<1>5. CASE Fail(r)
  <2>1. m.op \in Ops \cup {"none"} BY DEF Well, Request
  <2> QED BY <1>5, <2>1, FailKeeps
<1> QED BY <1>1, <1>2, <1>3, <1>4, <1>5

\* The table.
Typed == cards \in [Ids -> Row \cup {NoCard}] /\ deps \in SUBSET (Ids \X Ids)

LEMMA ColumnSortable ==
  ASSUME Typed, UniqueIn(cards), NEW k
  PROVE  Sortable(InColumn(k)) /\ \A c \in InColumn(k) : cards[c] \in Row /\ cards[c].rank \in AnyRank
<1>1. ASSUME NEW c \in InColumn(k) PROVE cards[c] \in Row /\ cards[c].rank \in AnyRank
  <2>1. c \in Ids /\ cards[c] # NoCard BY DEF InColumn, Exists
  <2>2. cards[c] \in Row BY <2>1 DEF Typed
  <2> QED BY <2>2 DEF Row
<1>2. \A c, d \in InColumn(k) : c # d => cards[c].rank # cards[d].rank
  BY DEF UniqueIn, InColumn, Exists
<1>3. InColumn(k) \subseteq Ids BY DEF InColumn
<1> QED BY <1>1, <1>2, <1>3, AnyRankIsString DEF Sortable

LEMMA CardinalityOfColumn ==
  ASSUME NEW k
  PROVE  Cardinality(InColumn(k)) \in Nat /\ Cardinality(InColumn(k)) <= MaxId
<1>1. InColumn(k) \subseteq 1..MaxId BY DEF InColumn, Ids
<1>2. IsFiniteSet(1..MaxId) /\ Cardinality(1..MaxId) = MaxId BY BoardAssumption, FS_Interval
<1> QED BY <1>1, <1>2, FS_Subset, FS_CardinalityType

LEMMA QuietMoveKeeps ==
  ASSUME Typed, UniqueIn(cards), NEW r \in Reqs, Well(req[r]),
         LoadMove(r) \/ ReadDeps(r) \/ CheckDep(r) \/ ReadBefore(r) \/ ReadAfter(r)
           \/ ReadEnd(r) \/ CountCards(r) \/ ListCards(r) \/ CountWip(r)
  PROVE  Keeps(r)
<1> DEFINE m == req[r]
<1>0. m \in Request /\ Well(m) BY DEF Well
<1>1. CASE LoadMove(r)
  <2> DEFINE n == [m EXCEPT !.mine = cards[m.card]]
             g == [n EXCEPT !.pc = "gate"]
             b == [n EXCEPT !.pc = Bounds(n)]
  <2>1. /\ m.op = "move" /\ m.pc = "load"
        /\ End(r) \/ (Exists(n.card) /\ (Step(r, g) \/ Step(r, b)))
    BY <1>1, Zenon DEF LoadMove, At
  <2>2. ASSUME Exists(n.card) PROVE Well(n) /\ n.op = "move" /\ n.pc = "load" /\ n.mine \in Row
    <3>1. m.card \in Ids /\ n.card = m.card BY <1>0, <2>1 DEF Well, Request
    <3>2. cards[m.card] \in Row BY <2>2, <3>1 DEF Exists, Typed
    <3>3. n \in Request BY <1>0, <3>2 DEF Request
    <3>4. /\ n.pc = m.pc /\ n.op = m.op /\ n.card = m.card /\ n.to = m.to
          /\ n.listed = m.listed /\ n.mine = cards[m.card]
      BY <1>0 DEF Request
    <3> HIDE DEF n
    <3>5. Well(n) BY <1>0, <2>1, <3>3, <3>4 DEF Well
    <3> QED BY <2>1, <3>2, <3>4, <3>5
  <2> HIDE DEF n
  <2>3. Bounds(n) \in {"before", "after", "end"} BY BoundsIsPlace
  <2>4. CASE Exists(n.card) /\ Step(r, g)
    <3>1. PICK p : p = "gate" OBVIOUS
    <3> QED BY <3>1, <2>2, <2>4, AdvanceKeeps
  <2>5. CASE Exists(n.card) /\ Step(r, b)
    <3>1. PICK p : p = Bounds(n) OBVIOUS
    <3> QED BY <3>1, <2>2, <2>3, <2>5, AdvanceKeeps
  <2> QED BY <2>1, <2>4, <2>5, EndKeeps
<1>2. CASE ReadDeps(r)
  <2> DEFINE D == {d \in Ids : <<m.card, d>> \in deps}
             n == [m EXCEPT !.todo = D]
             p == IF n.todo = {} THEN Bounds(n) ELSE "gating"
  <2>1. m.op = "move" /\ m.pc = "gate" /\ Step(r, [n EXCEPT !.pc = p])
    BY <1>2, Zenon DEF ReadDeps, At
  <2>2. D \in SUBSET Ids OBVIOUS
  <2> HIDE DEF D
  <2>3. n \in Request BY <1>0, <2>2 DEF Request
  <2>4. /\ n.pc = m.pc /\ n.op = m.op /\ n.card = m.card /\ n.to = m.to
        /\ n.listed = m.listed /\ n.mine = m.mine
    BY <1>0 DEF Request
  <2>5. p \in {"gating", "before", "after", "end"} BY BoundsIsPlace
  <2> HIDE DEF n, p
  <2>6. Well(n) BY <1>0, <2>1, <2>3, <2>4 DEF Well
  <2>7. n.mine \in Row BY <2>1, <2>4, <2>6 DEF Well
  <2> QED BY <2>1, <2>4, <2>5, <2>6, <2>7, AdvanceKeeps
<1>3. CASE CheckDep(r)
  <2>1. m.op = "move" /\ m.pc = "gating" BY <1>3 DEF CheckDep, At
  <2>2. PICK d \in m.todo :
          LET n == [m EXCEPT !.todo = @ \ {d}]
          IN  IF Exists(d) /\ cards[d].col \notin DoneColumns THEN End(r)
              ELSE Step(r, IF n.todo = {} THEN [n EXCEPT !.pc = Bounds(n)] ELSE n)
    BY <1>3 DEF CheckDep
  <2> DEFINE D == m.todo \ {d}
             n == [m EXCEPT !.todo = D]
             p == Bounds(n)
  <2>3. End(r) \/ Step(r, n) \/ Step(r, [n EXCEPT !.pc = p]) BY <2>2, Zenon
  <2>4. D \in SUBSET Ids BY <1>0 DEF Request
  <2> HIDE DEF D
  <2>5. n \in Request BY <1>0, <2>4 DEF Request
  <2>6. /\ n.pc = m.pc /\ n.op = m.op /\ n.card = m.card /\ n.to = m.to
        /\ n.listed = m.listed /\ n.mine = m.mine
    BY <1>0 DEF Request
  <2>7. p \in {"gating", "before", "after", "end"} BY BoundsIsPlace
  <2> HIDE DEF n, p
  <2>8. Well(n) BY <1>0, <2>1, <2>5, <2>6 DEF Well
  <2>9. n.mine \in Row BY <2>1, <2>6, <2>8 DEF Well
  <2> QED BY <2>1, <2>3, <2>6, <2>7, <2>8, <2>9, AdvanceKeeps, EndKeeps, StepKeeps
<1>4. CASE ReadBefore(r)
  <2> DEFINE x == cards[m.before].rank
             n == [m EXCEPT !.lo = x]
             p == "after"
  <2>1. /\ m.op = "move" /\ m.pc = "before"
        /\ End(r) \/ (Anchors(m, m.before) /\ (Step(r, [n EXCEPT !.pc = p]) \/ Placed(r, n)))
    BY <1>4, Zenon DEF ReadBefore, At
  <2>2. CASE Anchors(m, m.before) /\ (Step(r, [n EXCEPT !.pc = p]) \/ Placed(r, n))
    <3>1. m.before \in Ids BY <1>0, <2>2 DEF Request, Anchors, Exists
    <3>2. cards[m.before] \in Row BY <2>2, <3>1 DEF Anchors, Exists, Typed
    <3>3. x \in AnyRank BY <3>2 DEF Row
    <3> HIDE DEF x
    <3>4. n \in Request BY <1>0, <3>3 DEF Request
    <3>5. /\ n.pc = m.pc /\ n.op = m.op /\ n.card = m.card /\ n.to = m.to
          /\ n.listed = m.listed /\ n.mine = m.mine
      BY <1>0 DEF Request
    <3> HIDE DEF n
    <3>6. Well(n) BY <1>0, <2>1, <3>4, <3>5 DEF Well
    <3>7. n.mine \in Row BY <2>1, <3>5, <3>6 DEF Well
    <3>8. CASE Step(r, [n EXCEPT !.pc = p])
      <4>1. p \in {"after"} OBVIOUS
      <4> HIDE DEF p
      <4> QED BY <2>1, <3>5, <3>6, <3>7, <3>8, <4>1, AdvanceKeeps
    <3> QED BY <2>1, <2>2, <3>5, <3>6, <3>8, PlacedKeeps
  <2> QED BY <2>1, <2>2, EndKeeps
<1>5. CASE ReadAfter(r)
  <2> DEFINE x == cards[m.after].rank
             n == [m EXCEPT !.hi = x]
  <2>1. /\ m.op = "move" /\ m.pc = "after"
        /\ End(r) \/ (Anchors(m, m.after) /\ Placed(r, n))
    BY <1>5, Zenon DEF ReadAfter, At
  <2>2. CASE Anchors(m, m.after) /\ Placed(r, n)
    <3>1. m.after \in Ids BY <1>0, <2>2 DEF Request, Anchors, Exists
    <3>2. cards[m.after] \in Row BY <2>2, <3>1 DEF Anchors, Exists, Typed
    <3>3. x \in AnyRank BY <3>2 DEF Row
    <3> HIDE DEF x
    <3>4. n \in Request BY <1>0, <3>3 DEF Request
    <3>5. /\ n.pc = m.pc /\ n.op = m.op /\ n.card = m.card /\ n.to = m.to
          /\ n.listed = m.listed /\ n.mine = m.mine
      BY <1>0 DEF Request
    <3> HIDE DEF n
    <3>6. Well(n) BY <1>0, <2>1, <3>4, <3>5 DEF Well
    <3> QED BY <2>1, <2>2, <3>5, <3>6, PlacedKeeps
  <2> QED BY <2>1, <2>2, EndKeeps
<1>6. CASE ReadEnd(r)
  <2> DEFINE x == LastRank(InColumn(m.to) \ {m.card})
             n == [m EXCEPT !.lo = x]
  <2>1. m.op = "move" /\ m.pc = "end" /\ Placed(r, n)
    BY <1>6, Zenon DEF ReadEnd, At
  <2>2. x \in AnyRank \cup {Open}
    <3> DEFINE S == InColumn(m.to) \ {m.card}
    <3>1. Sortable(S) /\ \A c \in S : cards[c].rank \in AnyRank
      BY ColumnSortable DEF Sortable
    <3> QED BY <3>1, LastRankIs
  <2> HIDE DEF x
  <2>4. n \in Request BY <1>0, <2>2 DEF Request
  <2>5. /\ n.pc = m.pc /\ n.op = m.op /\ n.card = m.card /\ n.to = m.to
        /\ n.listed = m.listed /\ n.mine = m.mine
    BY <1>0 DEF Request
  <2> HIDE DEF n
  <2>6. Well(n) BY <1>0, <2>1, <2>4, <2>5 DEF Well
  <2> QED BY <2>1, <2>5, <2>6, PlacedKeeps
<1>7. CASE CountCards(r)
  <2> DEFINE x == Cardinality(InColumn(m.to))
             n == [m EXCEPT !.pc = "list", !.count = x]
  <2>1. m.op = "move" /\ m.pc = "count" /\ Step(r, n) BY <1>7, Zenon DEF CountCards, At
  <2>2. x \in Nat /\ "list" \in Places BY CardinalityOfColumn DEF Places
  <2> HIDE DEF x
  <2>3. n \in Request BY <1>0, <2>2 DEF Request
  <2>4. /\ n.pc = "list" /\ n.op = m.op /\ n.card = m.card /\ n.to = m.to
        /\ n.listed = m.listed /\ n.mine = m.mine
    BY <1>0 DEF Request
  <2> HIDE DEF n
  <2>5. Well(n) BY <1>0, <2>1, <2>3, <2>4 DEF Well
  <2> QED BY <2>1, <2>5, StepKeeps
<1>8. CASE ListCards(r)
  <2> DEFINE v(c) == IF c = m.card THEN m.mine.version ELSE cards[c].version
             l == [i \in DOMAIN Order(m.to) |-> <<Order(m.to)[i], v(Order(m.to)[i])>>]
             n == [m EXCEPT !.pc = "respread", !.listed = l]
  <2>1. m.op = "move" /\ m.pc = "list" /\ Step(r, n) BY <1>8, Zenon DEF ListCards, At
  <2>2. m.mine \in Row BY <1>0, <2>1 DEF Well
  <2>3. ASSUME NEW c \in InColumn(m.to) PROVE v(c) \in Nat
    <3>1. cards[c] \in Row BY ColumnSortable
    <3> QED BY <2>2, <3>1 DEF Row
  <2>4. /\ DOMAIN Order(m.to) = 1..Cardinality(InColumn(m.to))
        /\ \A i \in DOMAIN Order(m.to) : Order(m.to)[i] \in InColumn(m.to)
    BY ColumnSortable, OrderLists
  <2>5. Cardinality(InColumn(m.to)) \in Nat /\ Cardinality(InColumn(m.to)) <= MaxId
    BY CardinalityOfColumn
  <2>6. InColumn(m.to) \subseteq Ids BY DEF InColumn
  <2> HIDE DEF v
  <2>7. /\ l \in [1..Cardinality(InColumn(m.to)) -> Ids \X Nat]
    BY <2>3, <2>4, <2>6
  <2> HIDE DEF l
  <2>8. l \in Listing /\ Len(l) <= MaxId BY <2>5, <2>7 DEF Listing
  <2>9. n \in Request
    <3>1. "respread" \in Places BY DEF Places
    <3> QED BY <1>0, <2>8, <3>1 DEF Request
  <2>10. /\ n.pc = "respread" /\ n.op = m.op /\ n.card = m.card /\ n.to = m.to
         /\ n.listed = l /\ n.mine = m.mine
    BY <1>0 DEF Request
  <2> HIDE DEF n
  <2>11. Well(n) BY <1>0, <2>1, <2>2, <2>8, <2>9, <2>10 DEF Well
  <2> QED BY <2>1, <2>11, StepKeeps
<1>9. CASE CountWip(r)
  <2> DEFINE n == [m EXCEPT !.pc = "write"]
  <2>1. m.op = "move" /\ m.pc = "wip" /\ (End(r) \/ Step(r, n)) BY <1>9, Zenon DEF CountWip, At
  <2>2. n \in Request
    <3>1. "write" \in Places BY DEF Places
    <3> QED BY <1>0, <3>1 DEF Request
  <2>3. /\ n.pc = "write" /\ n.op = m.op /\ n.card = m.card /\ n.to = m.to
        /\ n.listed = m.listed /\ n.mine = m.mine /\ n.rank = m.rank
    BY <1>0 DEF Request
  <2> HIDE DEF n
  <2>4. Well(n) BY <1>0, <2>1, <2>2, <2>3 DEF Well
  <2> QED BY <2>1, <2>4, StepKeeps, EndKeeps
<1> QED BY <1>1, <1>2, <1>3, <1>4, <1>5, <1>6, <1>7, <1>8, <1>9

\* What a new request names.
Asked(p, op, c, k) ==
  /\ p \in {"load", "tail"}
  /\ op # "create" => c \in Ids /\ p = "load"
  /\ op \in {"move", "create"} => k \in Columns
  /\ op \in {"link", "unlink"} => k \in Ids

LEMMA NewRequestKeeps ==
  ASSUME NEW r, NEW p \in Places, NEW op \in Ops, NEW c \in Ids \cup {None},
         NEW k \in Columns \cup Ids \cup {None}, NEW b \in Ids \cup {None},
         NEW a \in Ids \cup {None}, NEW v \in Nat,
         Asked(p, op, c, k),
         Step(r, [Free EXCEPT !.pc = p, !.op = op, !.card = c, !.to = k,
                              !.before = b, !.after = a, !.expected = v])
  PROVE  Keeps(r)
<1> DEFINE n == [Free EXCEPT !.pc = p, !.op = op, !.card = c, !.to = k,
                             !.before = b, !.after = a, !.expected = v]
<1>1. Free \in Request /\ Free.listed = <<>> BY FreeWell DEF Well, Free
<1>2. n \in Request
  <2> DEFINE x == [Free EXCEPT !.pc = p, !.op = op, !.card = c]
             y == [x EXCEPT !.to = k, !.before = b]
             z == [y EXCEPT !.after = a, !.expected = v]
  <2>1. x \in Request BY <1>1 DEF Request
  <2> HIDE DEF x
  <2>2. y \in Request BY <2>1 DEF Request
  <2> HIDE DEF y
  <2>3. z \in Request BY <2>2 DEF Request
  <2>4. n = z BY <1>1 DEF x, y, Request
  <2> QED BY <2>3, <2>4
<1>3. n.pc = p /\ n.op = op /\ n.card = c /\ n.to = k /\ n.listed = <<>> BY <1>1 DEF Request
<1> HIDE DEF n
<1>4. Well(n) BY <1>2, <1>3, BoardAssumption DEF Well, Asked
<1>5. Step(r, n) BY DEF n
<1> QED BY <1>4, <1>5, StepKeeps

LEMMA SubmitKeeps ==
  ASSUME Typed, NEW r \in Reqs, Submit(r) PROVE Keeps(r)
<1>1. PICK op \in Ops, c \in Ids :
       \/ /\ op = "move" /\ Exists(c) /\ cards[c].version < MaxVersion
          /\ \A d \in Ids : cards[d].version <= MaxVersion
          /\ \E k \in Columns, b, a \in Ids \cup {None}, v \in 1..cards[c].version :
               /\ AnyAnchors \/ Adjacent(c, k, b, a)
               /\ Step(r, [Free EXCEPT !.pc = "load", !.op = op, !.card = c, !.to = k,
                                       !.before = b, !.after = a, !.expected = v])
       \/ /\ op = "create" /\ c = 1 /\ ~Exists(MaxId)
          /\ \E k \in Entry :
               Step(r, [Free EXCEPT !.pc = "tail", !.op = op, !.to = k])
       \/ /\ op = "edit" /\ Exists(c) /\ cards[c].version < MaxVersion
          /\ \E v \in {0, cards[c].version} :
               Step(r, [Free EXCEPT !.pc = "load", !.op = op, !.card = c, !.expected = v])
       \/ /\ op = "delete" /\ Exists(c)
          /\ Step(r, [Free EXCEPT !.pc = "load", !.op = op, !.card = c])
       \/ /\ op = "link" /\ Exists(c)
          /\ \E d \in Ids \ {c} : Exists(d) /\
               Step(r, [Free EXCEPT !.pc = "load", !.op = op, !.card = c, !.to = d])
       \/ /\ op = "unlink"
          /\ \E d \in Ids : <<c, d>> \in deps /\
               Step(r, [Free EXCEPT !.pc = "load", !.op = op, !.card = c, !.to = d])
  BY Zenon DEF Submit
<1> DEFINE n(p, d, k, b, a, v) == [Free EXCEPT !.pc = p, !.op = op, !.card = d, !.to = k,
                                               !.before = b, !.after = a, !.expected = v]
<1>2. "load" \in Places /\ "tail" \in Places BY DEF Places
<1> DEFINE t == Free.to
           f == Free.before
           g == Free.after
           e == Free.expected
<1>a. /\ Free \in Request /\ t = None /\ f = None /\ g = None /\ e = 0 /\ Free.card = None
  BY FreeWell DEF Well, Free
<1>3. ASSUME NEW k \in Columns, NEW b \in Ids \cup {None}, NEW a \in Ids \cup {None},
             NEW v \in Nat, op = "move", Step(r, n("load", c, k, b, a, v))
      PROVE  Keeps(r)
  <2>1. PICK p : p = "load" OBVIOUS
  <2>2. Step(r, n(p, c, k, b, a, v)) BY <1>3, <2>1
  <2>3. Asked(p, op, c, k) BY <1>3, <2>1 DEF Asked
  <2> QED BY <1>2, <2>1, <2>2, <2>3, NewRequestKeeps
<1>4. ASSUME NEW k \in Entry, op = "create",
             Step(r, [Free EXCEPT !.pc = "tail", !.op = op, !.to = k])
      PROVE  Keeps(r)
  <2> DEFINE d == Free.card
  <2>1. [Free EXCEPT !.pc = "tail", !.op = op, !.to = k] = n("tail", d, k, f, g, e)
    BY <1>a DEF Request
  <2>2. k \in Columns BY BoardAssumption
  <2>3. PICK p : p = "tail" OBVIOUS
  <2>4. Step(r, n(p, d, k, f, g, e)) BY <1>4, <2>1, <2>3, Zenon
  <2> HIDE DEF d, f, g, e
  <2>5. Asked(p, op, d, k) BY <1>4, <2>2, <2>3 DEF Asked
  <2>6. d = None BY <1>a DEF d
  <2> QED BY <1>2, <1>a, <2>2, <2>3, <2>4, <2>5, <2>6, NewRequestKeeps
<1>5. ASSUME NEW v \in Nat, op = "edit",
             Step(r, [Free EXCEPT !.pc = "load", !.op = op, !.card = c, !.expected = v])
      PROVE  Keeps(r)
  <2>1. [Free EXCEPT !.pc = "load", !.op = op, !.card = c, !.expected = v]
          = n("load", c, t, f, g, v)
    BY <1>a DEF Request
  <2>2. PICK p : p = "load" OBVIOUS
  <2>3. Step(r, n(p, c, t, f, g, v)) BY <1>5, <2>1, <2>2, Zenon
  <2> HIDE DEF t, f, g
  <2>4. Asked(p, op, c, t) BY <1>5, <2>2 DEF Asked
  <2> QED BY <1>2, <1>a, <2>2, <2>3, <2>4, NewRequestKeeps
<1>6. ASSUME op = "delete", Step(r, [Free EXCEPT !.pc = "load", !.op = op, !.card = c])
      PROVE  Keeps(r)
  <2>1. [Free EXCEPT !.pc = "load", !.op = op, !.card = c] = n("load", c, t, f, g, e)
    BY <1>a DEF Request
  <2>2. PICK p : p = "load" OBVIOUS
  <2>3. Step(r, n(p, c, t, f, g, e)) BY <1>6, <2>1, <2>2, Zenon
  <2> HIDE DEF t, f, g, e
  <2>4. Asked(p, op, c, t) BY <1>6, <2>2 DEF Asked
  <2> QED BY <1>2, <1>a, <2>2, <2>3, <2>4, NewRequestKeeps
<1>7. ASSUME NEW d \in Ids, op \in {"link", "unlink"},
             Step(r, [Free EXCEPT !.pc = "load", !.op = op, !.card = c, !.to = d])
      PROVE  Keeps(r)
  <2>1. [Free EXCEPT !.pc = "load", !.op = op, !.card = c, !.to = d]
          = n("load", c, d, f, g, e)
    BY <1>a DEF Request
  <2>2. PICK p : p = "load" OBVIOUS
  <2>3. Step(r, n(p, c, d, f, g, e)) BY <1>7, <2>1, <2>2, Zenon
  <2> HIDE DEF f, g, e
  <2>4. Asked(p, op, c, d) BY <1>7, <2>2 DEF Asked
  <2> QED BY <1>2, <1>a, <2>2, <2>3, <2>4, NewRequestKeeps
<1>8. Exists(c) => cards[c].version \in Nat
  <2>1. Exists(c) => cards[c] \in Row BY DEF Exists, Typed
  <2> QED BY <2>1 DEF Row
<1>9. CASE op = "move"
  <2>1. PICK k \in Columns, b \in Ids \cup {None}, a \in Ids \cup {None}, v \in 1..cards[c].version :
          Step(r, n("load", c, k, b, a, v)) /\ Exists(c)
    BY <1>1, <1>9, Zenon
  <2>2. v \in Nat BY <2>1, <1>8
  <2> QED BY <1>3, <1>9, <2>1, <2>2
<1>10. CASE op # "move"
  <2>1. 0 \in Nat OBVIOUS
  <2> QED BY <1>1, <1>4, <1>5, <1>6, <1>7, <1>8, <1>10, <2>1, ZenonT(60)
<1> QED BY <1>9, <1>10

LEMMA QuietOtherKeeps ==
  ASSUME Typed, UniqueIn(cards), NEW r \in Reqs, Well(req[r]),
         ReadTail(r) \/ LoadEdit(r) \/ LoadDelete(r) \/ LoadLink(r) \/ CheckCycle(r)
  PROVE  Keeps(r)
<1> DEFINE m == req[r]
<1>0. m \in Request /\ Well(m) /\ m.op \in Ops \cup {"none"} BY DEF Well, Request
<1>1. CASE ReadTail(r)
  <2> DEFINE last == LastRank(InColumn(m.to))
             x == RankBetween(last, Open)
             n == [m EXCEPT !.pc = "insert", !.rank = x]
  <2>1. /\ m.op = "create" /\ m.pc = "tail"
        /\ Fail(r) \/ (~IsTemp(last) /\ Step(r, n))
    BY <1>1, Zenon DEF ReadTail, At
  <2>2. CASE ~IsTemp(last) /\ Step(r, n)
    <3>1. last \in AnyRank \cup {Open}
      <4>1. Sortable(InColumn(m.to)) /\ \A c \in InColumn(m.to) : cards[c].rank \in AnyRank
        BY ColumnSortable
      <4> QED BY <4>1, LastRankIs
    <3>2. x \in Rank
      <4> HIDE DEF last
      <4> QED BY <2>2, <3>1, PlacedRank, AnyRankIsString
    <3> HIDE DEF x
    <3>3. n \in Request
      <4>1. "insert" \in Places BY DEF Places
      <4> QED BY <1>0, <3>2, <4>1 DEF Request
    <3>4. /\ n.pc = "insert" /\ n.op = m.op /\ n.card = m.card /\ n.to = m.to
          /\ n.listed = m.listed /\ n.mine = m.mine /\ n.rank = x
      BY <1>0 DEF Request
    <3> HIDE DEF n
    <3>5. Well(n) BY <1>0, <2>1, <3>2, <3>3, <3>4 DEF Well
    <3> QED BY <2>2, <3>5, StepKeeps
  <2> QED BY <1>0, <2>1, <2>2, FailKeeps
<1>2. CASE LoadEdit(r)
  <2> DEFINE n == [m EXCEPT !.mine = cards[m.card]]
             w == [n EXCEPT !.pc = "write"]
  <2>1. /\ m.op = "edit" /\ m.pc = "load"
        /\ End(r) \/ (Exists(n.card) /\ Step(r, w))
    BY <1>2, Zenon DEF LoadEdit, At
  <2>2. CASE Exists(n.card) /\ Step(r, w)
    <3>1. m.card \in Ids /\ n.card = m.card BY <1>0, <2>1 DEF Well, Request
    <3>2. cards[m.card] \in Row BY <2>2, <3>1 DEF Exists, Typed
    <3>3. n \in Request BY <1>0, <3>2 DEF Request
    <3>4. /\ n.pc = m.pc /\ n.op = m.op /\ n.card = m.card /\ n.to = m.to
          /\ n.listed = m.listed /\ n.mine = cards[m.card]
      BY <1>0 DEF Request
    <3> HIDE DEF n
    <3>5. w \in Request
      <4>1. "write" \in Places BY DEF Places
      <4> QED BY <3>3, <4>1 DEF Request
    <3>6. /\ w.pc = "write" /\ w.op = n.op /\ w.card = n.card /\ w.to = n.to
          /\ w.listed = n.listed /\ w.mine = n.mine
      BY <3>3 DEF Request
    <3> HIDE DEF w
    <3>7. Well(w) BY <1>0, <2>1, <3>2, <3>4, <3>5, <3>6 DEF Well
    <3> QED BY <2>2, <3>7, StepKeeps
  <2> QED BY <2>1, <2>2, EndKeeps
<1>3. CASE LoadDelete(r) \/ LoadLink(r) \/ CheckCycle(r)
  <2>1. PICK p : /\ m.op \in {"delete", "link"} /\ m.pc \in {"load", "check"}
                 /\ p \in {"write", "check"}
                 /\ End(r) \/ Step(r, [m EXCEPT !.pc = p])
    BY <1>3, Zenon DEF LoadDelete, LoadLink, CheckCycle, At
  <2> DEFINE n == [m EXCEPT !.pc = p]
  <2>2. n \in Request
    <3>1. p \in Places BY <2>1 DEF Places
    <3> QED BY <1>0, <3>1 DEF Request
  <2>3. /\ n.pc = p /\ n.op = m.op /\ n.card = m.card /\ n.to = m.to
        /\ n.listed = m.listed /\ n.mine = m.mine
    BY <1>0 DEF Request
  <2>4. End(r) \/ Step(r, n) BY <2>1
  <2> HIDE DEF n
  <2>5. Well(n) BY <1>0, <2>1, <2>2, <2>3 DEF Well
  <2> QED BY <2>4, <2>5, EndKeeps, StepKeeps
<1> QED BY <1>1, <1>2, <1>3

LEMMA DepsKeep ==
  ASSUME Typed, NEW r \in Reqs, Well(req[r]), AddDep(r) \/ RemoveDep(r)
  PROVE  Keeps(r) /\ Typed'
<1> DEFINE m == req[r]
<1>1. m.op \in Ops \cup {"none"} BY DEF Well, Request
<1>2. CASE AddDep(r)
  <2>1. /\ m.op = "link" /\ m.pc = "write" /\ cards' = cards
        /\ (End(r) /\ deps' = deps \cup {<<m.card, m.to>>}) \/ (Fail(r) /\ deps' = deps)
    BY <1>2, Zenon DEF AddDep, At
  <2>2. m.card \in Ids /\ m.to \in Ids BY <2>1 DEF Well
  <2> QED BY <1>1, <2>1, <2>2, EndKeeps, FailKeeps DEF Typed
<1>3. CASE RemoveDep(r) BY <1>3, EndKeeps DEF RemoveDep, Typed
<1> QED BY <1>2, <1>3

LEMMA InsertKeeps ==
  ASSUME Typed, NEW r \in Reqs, Well(req[r]), InsertCard(r)
  PROVE  Keeps(r) /\ Typed'
<1> DEFINE m   == req[r]
           id  == CHOOSE c \in Ids : /\ \A d \in Ids : Exists(d) => d < c
                                     /\ c = 1 \/ Exists(c - 1)
           row == [col |-> m.to, rank |-> m.rank, version |-> 1]
           new == [cards EXCEPT ![id] = row]
<1>1. /\ m.op = "create" /\ m.pc = "insert" /\ deps' = deps
      /\ (Fail(r) /\ UNCHANGED cards) \/ (cards' = new /\ End(r))
  BY Zenon DEF InsertCard, At
<1>2. m.op \in Ops \cup {"none"} BY DEF Well, Request
<1>3. row \in Row
  <2>1. m.to \in Columns /\ m.rank \in Rank BY <1>1 DEF Well
  <2> QED BY <2>1 DEF Row, AnyRank
<1> HIDE DEF row, id
<1>4. new \in [Ids -> Row \cup {NoCard}] BY <1>3 DEF Typed
<1> HIDE DEF new
<1> QED BY <1>1, <1>2, <1>4, EndKeeps, FailKeeps DEF Typed

LEMMA EditKeeps ==
  ASSUME Typed, NEW r \in Reqs, Well(req[r]), WriteEdit(r) \/ DeleteCard(r)
  PROVE  Keeps(r) /\ Typed'
<1> DEFINE m == req[r]
           v == m.mine.version + 1
           row == [cards[m.card] EXCEPT !.version = v]
<1>1. /\ m.op \in {"edit", "delete"} /\ m.pc = "write" /\ deps' = deps
      /\ \/ Fail(r) /\ UNCHANGED cards
         \/ /\ End(r) /\ Exists(m.card) /\ m.op = "edit"
            /\ cards' = [cards EXCEPT ![m.card] = [cards[m.card] EXCEPT !.version = v]]
         \/ End(r) /\ cards' = [cards EXCEPT ![m.card] = NoCard]
  BY Zenon DEF WriteEdit, DeleteCard, At
<1>2. m.op \in Ops \cup {"none"} BY DEF Well, Request
<1>3. ASSUME Exists(m.card), m.op = "edit" PROVE row \in Row
  <2>1. m.card \in Ids /\ m.mine \in Row BY <1>1, <1>3 DEF Well
  <2>2. cards[m.card] \in Row BY <2>1, <1>3 DEF Exists, Typed
  <2>3. v \in Nat \ {0} BY <2>1 DEF Row
  <2> HIDE DEF v
  <2> QED BY <2>2, <2>3 DEF Row
<1> HIDE DEF v
<1>4. CASE Fail(r) /\ UNCHANGED cards BY <1>1, <1>2, <1>4, FailKeeps DEF Typed
<1>5. CASE End(r) /\ Exists(m.card) /\ m.op = "edit" /\ cards' = [cards EXCEPT ![m.card] = row]
  <2>1. row \in Row BY <1>3, <1>5
  <2> HIDE DEF row
  <2>2. cards' \in [Ids -> Row \cup {NoCard}] BY <1>5, <2>1 DEF Typed
  <2> QED BY <1>1, <1>5, <2>2, EndKeeps DEF Typed
<1>6. CASE End(r) /\ cards' = [cards EXCEPT ![m.card] = NoCard]
  <2>1. cards' \in [Ids -> Row \cup {NoCard}] BY <1>6 DEF Typed
  <2> QED BY <1>1, <1>6, <2>1, EndKeeps DEF Typed
<1> QED BY <1>1, <1>4, <1>5, <1>6

LEMMA MoveKeeps ==
  ASSUME Typed, NEW r \in Reqs, Well(req[r]), WriteMove(r)
  PROVE  Keeps(r) /\ Typed'
<1> DEFINE m   == req[r]
           row == Updated(cards[m.card], m.mine, m.to, m.rank)
           new == [cards EXCEPT ![m.card] = row]
<1>1. /\ m.op = "move" /\ m.pc = "write" /\ deps' = deps
      /\ (Fail(r) /\ UNCHANGED cards) \/ (Exists(m.card) /\ cards' = new /\ End(r))
  BY Zenon DEF WriteMove, At
<1>2. m.op \in Ops \cup {"none"} BY DEF Well, Request
<1>3. ASSUME Exists(m.card) PROVE row \in Row
  <2>1. m.card \in Ids /\ m.mine \in Row /\ m.to \in Columns /\ m.rank \in Rank
    BY <1>1 DEF Well
  <2>2. cards[m.card] \in Row BY <2>1, <1>3 DEF Exists, Typed
  <2> QED BY <2>1, <2>2 DEF Updated, Row, AnyRank
<1> HIDE DEF row
<1>4. Exists(m.card) => new \in [Ids -> Row \cup {NoCard}] BY <1>3 DEF Typed
<1> HIDE DEF new
<1> QED BY <1>1, <1>2, <1>4, EndKeeps, FailKeeps DEF Typed

LEMMA RespreadKeeps ==
  ASSUME Typed, NEW r \in Reqs, Well(req[r]), Respread(r)
  PROVE  Keeps(r) /\ Typed'
<1> DEFINE m      == req[r]
           listed == {m.listed[i][1] : i \in DOMAIN m.listed}
           pos(c) == CHOOSE i \in DOMAIN m.listed : m.listed[i][1] = c
           ranked == {c \in listed : pos(c) <= m.count}
           fresh(c, row) == [row EXCEPT !.rank = RebalanceRanks[m.count][pos(c)],
                                        !.version = m.listed[pos(c)][2] + 1]
           pass1  == [c \in Ids |-> IF c \in listed
                                    THEN [cards[c] EXCEPT !.rank = Temp(pos(c))] ELSE cards[c]]
           pass2  == [c \in Ids |-> IF c \in ranked THEN fresh(c, pass1[c]) ELSE pass1[c]]
           mine   == IF m.card \in ranked THEN fresh(m.card, m.mine)
                     ELSE IF m.card \in listed THEN [m.mine EXCEPT !.rank = Temp(pos(m.card))]
                     ELSE m.mine
           p      == Bounds(m)
           n      == [m EXCEPT !.pc = p, !.mine = mine, !.again = TRUE,
                               !.count = 0, !.listed = <<>>]
<1>1. /\ m.op = "move" /\ m.pc = "respread" /\ deps' = deps
      /\ \/ Fail(r) /\ UNCHANGED cards
         \/ /\ \A c \in listed : Exists(c)
            /\ cards' = pass2 /\ Step(r, n)
  BY Zenon DEF Respread, At
<1>2. m \in Request /\ m.op \in Ops \cup {"none"} /\ m.listed \in Listing /\ m.count \in Nat
      /\ Len(m.listed) <= MaxId /\ m.mine \in Row
  BY <1>1 DEF Well, Request
<1>3. CASE Fail(r) /\ UNCHANGED cards BY <1>1, <1>2, <1>3, FailKeeps DEF Typed
<1>4. CASE (\A c \in listed : Exists(c)) /\ cards' = pass2 /\ Step(r, n)
  <2>1. ASSUME NEW i \in DOMAIN m.listed
        PROVE  i \in Ids /\ i \in Nat /\ m.listed[i][1] \in Ids /\ m.listed[i][2] \in Nat
    <3>1. MaxId \in Nat BY BoardAssumption
    <3>2. PICK l \in Seq(Ids \X Nat) : l = m.listed BY <1>2 DEF Listing
    <3>3. /\ DOMAIN l = 1..Len(l) /\ Len(l) \in Nat /\ Len(l) <= MaxId BY <1>2, <3>2
    <3>4. i \in 1..MaxId /\ l[i] \in Ids \X Nat BY <3>1, <3>2, <3>3
    <3> QED BY <3>1, <3>2, <3>4 DEF Ids
  <2>2. ASSUME NEW c \in listed
        PROVE  pos(c) \in Ids /\ m.listed[pos(c)][2] + 1 \in Nat \ {0}
               /\ (c \in ranked => RebalanceRanks[m.count][pos(c)] \in AnyRank)
    <3>1. \E i \in DOMAIN m.listed : m.listed[i][1] = c BY <2>2
    <3>2. pos(c) \in DOMAIN m.listed BY <3>1, Zenon
    <3>3. ASSUME c \in ranked PROVE RebalanceRanks[m.count][pos(c)] \in AnyRank
      <4>1. pos(c) \in 1..m.count
        <5>1. pos(c) <= m.count BY <3>3
        <5> HIDE DEF pos, ranked, listed
        <5> QED BY <1>2, <2>1, <3>2, <5>1, BoardAssumption DEF Ids
      <4>2. RebalanceRanks[m.count] \in Seq(Rank) /\ Len(RebalanceRanks[m.count]) = m.count
        BY <1>2, SpreadAscends DEF Ascends
      <4> HIDE DEF pos, ranked, listed
      <4> QED BY <4>1, <4>2 DEF AnyRank
    <3> HIDE DEF pos, ranked, listed
    <3> QED BY <2>1, <3>2, <3>3
  <2>3. ranked \subseteq listed /\ \A c \in listed : c \in Ids BY <2>1
  <2> HIDE DEF pos, listed, ranked
  <2>4. ASSUME NEW c \in listed, NEW row \in Row
        PROVE  /\ [row EXCEPT !.rank = Temp(pos(c))] \in Row
               /\ c \in ranked => fresh(c, row) \in Row
    <3> DEFINE R == RebalanceRanks[m.count][pos(c)]
               v == m.listed[pos(c)][2] + 1
    <3>1. Temp(pos(c)) \in AnyRank BY <2>2 DEF AnyRank
    <3>2. v \in Nat \ {0} /\ (c \in ranked => R \in AnyRank) BY <2>2
    <3> HIDE DEF R, v
    <3>3. [row EXCEPT !.rank = Temp(pos(c))] \in Row BY <3>1 DEF Row
    <3>4. c \in ranked => [row EXCEPT !.rank = R, !.version = v] \in Row BY <3>2 DEF Row
    <3> QED BY <3>3, <3>4 DEF R, v
  <2>5. mine \in Row BY <1>2, <2>3, <2>4
  <2> HIDE DEF fresh
  <2>6. ASSUME NEW c \in Ids
        PROVE  pass1[c] \in Row \cup {NoCard} /\ (c \in listed => pass1[c] \in Row)
    <3>1. CASE c \in listed
      <4>1. cards[c] \in Row BY <1>4, <2>3, <3>1 DEF Exists, Typed
      <4>2. pass1[c] = [cards[c] EXCEPT !.rank = Temp(pos(c))] BY <3>1
      <4> QED BY <2>4, <3>1, <4>1, <4>2
    <3>2. CASE c \notin listed
      <4>1. pass1[c] = cards[c] BY <3>2
      <4> QED BY <3>2, <4>1 DEF Typed
    <3> QED BY <3>1, <3>2
  <2> HIDE DEF pass1, mine
  <2>7. pass2 \in [Ids -> Row \cup {NoCard}]
    <3>1. ASSUME NEW c \in Ids
          PROVE  (IF c \in ranked THEN fresh(c, pass1[c]) ELSE pass1[c]) \in Row \cup {NoCard}
      BY <2>3, <2>4, <2>6
    <3> QED BY <3>1
  <2> HIDE DEF pass2
  <2>8. Typed' BY <1>1, <1>4, <2>7 DEF Typed
  <2>9. p \in Places /\ p \in {"before", "after", "end"} BY BoundsIsPlace DEF Places
  <2> HIDE DEF p
  <2>10. n \in Request
    <3> DEFINE x == [m EXCEPT !.pc = p, !.mine = mine, !.again = TRUE]
               y == [x EXCEPT !.count = 0, !.listed = <<>>]
    <3>1. x \in Request BY <1>2, <2>5, <2>9 DEF Request
    <3> HIDE DEF x
    <3>2. <<>> \in Listing BY DEF Listing
    <3>3. y \in Request BY <3>1, <3>2 DEF Request
    <3>4. n = y BY <1>2 DEF Request, x
    <3> QED BY <3>3, <3>4
  <2>11. /\ n.pc = p /\ n.op = m.op /\ n.card = m.card /\ n.to = m.to /\ n.mine = mine
         /\ n.listed = <<>>
    BY <1>2 DEF Request
  <2> HIDE DEF n
  <2>12. Well(n) BY <1>1, <2>5, <2>9, <2>10, <2>11, BoardAssumption DEF Well
  <2> QED BY <1>4, <2>8, <2>12, StepKeeps
<1> QED BY <1>1, <1>3, <1>4

AllWell == req \in [Reqs -> Request] /\ \A r \in Reqs : Well(req[r])

LEMMA StepKeepsTypes ==
  ASSUME Typed, UniqueIn(cards), AllWell, NEW r \in Reqs, Submit(r) \/ MoveStep(r) \/ OtherStep(r)
  PROVE  Typed' /\ AllWell'
<1>1. Well(req[r]) BY DEF AllWell
<1>2. Keeps(r) /\ Typed'
  <2>1. ASSUME UNCHANGED <<cards, deps>> PROVE Typed' BY <2>1 DEF Typed
  <2>2. CASE Submit(r)
    <3>1. UNCHANGED <<cards, deps>> BY <2>2 DEF Submit
    <3> QED BY <2>1, <2>2, <3>1, SubmitKeeps
  <2>3. CASE \/ LoadMove(r) \/ ReadDeps(r) \/ CheckDep(r) \/ ReadBefore(r) \/ ReadAfter(r)
             \/ ReadEnd(r) \/ CountCards(r) \/ ListCards(r) \/ CountWip(r)
    <3>1. UNCHANGED <<cards, deps>>
      BY <2>3, Zenon DEF LoadMove, ReadDeps, CheckDep, ReadBefore, ReadAfter, ReadEnd, CountCards,
                  ListCards, CountWip
    <3> QED BY <1>1, <2>1, <2>3, <3>1, QuietMoveKeeps
  <2>4. CASE ReadTail(r) \/ LoadEdit(r) \/ LoadDelete(r) \/ LoadLink(r) \/ CheckCycle(r)
    <3>1. UNCHANGED <<cards, deps>>
      BY <2>4, Zenon DEF ReadTail, LoadEdit, LoadDelete, LoadLink, CheckCycle
    <3> QED BY <1>1, <2>1, <2>4, <3>1, QuietOtherKeeps
  <2>5. CASE AddDep(r) \/ RemoveDep(r) BY <1>1, <2>5, DepsKeep
  <2>6. CASE InsertCard(r) BY <1>1, <2>6, InsertKeeps
  <2>7. CASE WriteEdit(r) \/ DeleteCard(r) BY <1>1, <2>7, EditKeeps
  <2>8. CASE WriteMove(r) BY <1>1, <2>8, MoveKeeps
  <2>9. CASE Respread(r) BY <1>1, <2>9, RespreadKeeps
  <2> QED BY <2>2, <2>3, <2>4, <2>5, <2>6, <2>7, <2>8, <2>9, Zenon DEF MoveStep, OtherStep
<1>3. PICK n : req' = [req EXCEPT ![r] = n] /\ Well(n) BY <1>2 DEF Keeps
<1>4. n \in Request BY <1>3 DEF Well
<1>5. req' \in [Reqs -> Request] BY <1>3, <1>4 DEF AllWell
<1>6. \A q \in Reqs : req'[q] = IF q = r THEN n ELSE req[q] BY <1>3 DEF AllWell
<1>7. \A q \in Reqs : Well(req'[q]) BY <1>3, <1>6 DEF AllWell
<1>8. Ops' = Ops /\ AllWell' BY <1>5, <1>7 DEF AllWell, Well, Request, Row, AnyRank, Listing, Places
<1> QED BY <1>2, <1>8

\* The shape of the table, its types, and the types of the requests.
TypesHold == Rows /\ Requests /\ UniqueIn(cards) /\ Typed /\ AllWell

LEMMA TypesHoldFirst == ASSUME Init PROVE TypesHold
<1>1. Typed BY DEF Init, Typed
<1>2. AllWell
  <2>1. req = [r \in Reqs |-> Free] BY DEF Init
  <2>2. Free \in Request BY FreeWell DEF Well
  <2> QED BY <2>1, <2>2, FreeWell DEF AllWell
<1> QED BY <1>1, <1>2, InitShape DEF TypesHold

LEMMA TypesHoldNext == ASSUME TypesHold, [Next]_vars PROVE TypesHold'
<1>1. CASE Next
  <2>1. PICK r \in Reqs : Submit(r) \/ MoveStep(r) \/ OtherStep(r) BY <1>1 DEF Next
  <2>2. Typed' /\ AllWell' BY <2>1, StepKeepsTypes DEF TypesHold
  <2> QED BY <1>1, <2>2, EachStep DEF TypesHold
<1>2. CASE UNCHANGED vars
  BY <1>2 DEF vars, TypesHold, Rows, Requests, Typed, AllWell
<1> QED BY <1>1, <1>2

\* TypeOK: every card has a column, a rank and a version, and every request has in its
\* fields what its progress says, however requests interleave.
THEOREM KanbanTypeOK == Spec => []TypeOK
<1>1. Init => TypesHold BY TypesHoldFirst
<1>2. TypesHold /\ [Next]_vars => TypesHold' BY TypesHoldNext
<1>3. TypesHold => TypeOK BY DEF TypesHold, Typed, AllWell, TypeOK
<1> QED BY <1>1, <1>2, <1>3, PTL DEF Spec

=============================================================================
