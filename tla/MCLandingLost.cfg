\* The columns of one board: requests one at a time, none of them cut short.
SPECIFICATION WorkSpec
CONSTANTS
  c1 = c1
  c2 = c2
  own = own
  u1 = u1
  u2 = u2
  b1 = b1
  Parts = {"columns"}
  Drafts = {d1, d2}
  Deciders = {h1, h2}
  MaxTries = 3
  MaxStops = 1
  Tasks = {t1, t2}
  MaxOpen = 1
  Sockets = 2
  MaxAnswers = 2
  MaxHalts = 1
  Schedules = {s1, s2}
  Editors = {e1, e2}
  MaxEvents = 3
  MaxEdits = 2
  CronSpecs <- WorkSpecs
  StartDays <- WorkDays
  HoursPerDay = 2
  LastYear = 2029
  Names = {"a", "b", "g"}
  Clerks = {c1, c2}
  Caster = "a"
  Presets = {1, 2, 3}
  Seeds <- WorkSeeds
  Renamed = "renamed"
  MaxRounds = 5
  Subjects = {"card", "message"}
  Reasons = {"state_change", "task_assigned", "mention"}
  Notifiers = {c1, c2}
  MaxNewPerHour = 1
  MaxEpisodes = 4
  Base = 4
  RankLenMax = 2
  MaxCards = 4
  MaxRankLen = 3
  DefaultColumns <- SecondLands
  Clients = {c1, c2}
  Slips = {1}
  MaxColumns = 4
  MaxAsked = 5
  Owner = own
  Mates = {u1, u2}
  Bots = {b1}
  Keeper <- WorkKeeper
  MaxChanges = 3
INVARIANTS
  LandingExists
CHECK_DEADLOCK FALSE
