\* Two requests load the same version of a card.
SPECIFICATION Spec
CONSTANTS
  todo = todo
  doing = doing
  done = done
  r1 = r1
  r2 = r2
  Base = 2
  RankLenMax = 2
  Reqs = {r1, r2}
  MaxId = 2
  Columns = {todo, doing}
  Wip <- NoLimit
  DoneColumns = {}
  Entry = {todo}
  Ops = {"create", "move", "edit"}
  AnyAnchors = FALSE
  MaxVersion = 3
  MaxRankLen = 3
PROPERTIES
  VersionGrows
CHECK_DEADLOCK FALSE
