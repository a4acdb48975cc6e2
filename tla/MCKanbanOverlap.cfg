\* Two requests in progress: what holds however they interleave.
SPECIFICATION Spec
CONSTANTS
  todo = todo
  doing = doing
  done = done
  r1 = r1
  r2 = r2
  Base = 2
  RankLenMax = 2
  Reqs = {r1, r2}
  MaxId = 3
  Columns = {todo, doing}
  Wip <- DoingOne
  DoneColumns = {}
  Entry = {todo}
  Ops = {"move", "create"}
  AnyAnchors = FALSE
  MaxVersion = 2
  MaxRankLen = 3
INVARIANTS
  TypeOK
  UniqueRanks
  WipOvershootBounded
CHECK_DEADLOCK FALSE
