\* One request at a time, anchors as the panel names them: moves, rebalances,
\* dependencies and the gate of a done column.
SPECIFICATION Spec
CONSTANTS
  todo = todo
  doing = doing
  done = done
  r1 = r1
  r2 = r2
  Base = 2
  RankLenMax = 2
  Reqs = {r1}
  MaxId = 3
  Columns = {todo, done}
  Wip <- NoLimit
  DoneColumns = {done}
  Entry = {todo}
  Ops = {"create", "move", "link", "unlink"}
  AnyAnchors = FALSE
  MaxVersion = 2
  MaxRankLen = 3
INVARIANTS
  NoCycle
  RebalanceIsSafe
PROPERTIES
  ImplementsBoard
CHECK_DEADLOCK FALSE
