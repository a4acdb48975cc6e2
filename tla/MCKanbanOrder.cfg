\* One request at a time, with any anchors: order, limits and versions.
SPECIFICATION Spec
CONSTANTS
  todo = todo
  doing = doing
  done = done
  r1 = r1
  r2 = r2
  Base = 2
  RankLenMax = 2
  Reqs = {r1}
  MaxId = 3
  Columns = {todo, doing}
  Wip <- DoingOne
  DoneColumns = {}
  Entry = {todo}
  Ops = {"move", "create", "edit", "delete"}
  AnyAnchors = TRUE
  MaxVersion = 3
  MaxRankLen = 3
PROPERTIES
  ImplementsBoard
  VersionGrows
  LandsBetween
CHECK_DEADLOCK FALSE
