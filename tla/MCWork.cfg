\* 2 drafts, 2 decisions at a time of 3, 1 halt or failed sweep; 2 tasks under a
\* cap of 1, 2 sockets, 2 answers each, 1 halt; cron over 2023 to 2029 with days of
\* 2 hours; 3 names, 2 clerks, 3 presets, 5 rounds; 2 subjects, 3 reasons, 2 calls at
\* once, 4 episodes; 4 cards with ranks of 4 digits; 2 requests at a time of 5 about
\* 4 columns and a card; 2 mates, an agent, 3 changes; 2 schedules, one
\* for an instant and one at intervals, 2 of the owner's requests at a time among
\* the first 2 of 3 events.
SPECIFICATION WorkSpec
CONSTANTS
  c1 = c1
  c2 = c2
  own = own
  u1 = u1
  u2 = u2
  b1 = b1
  Parts = {"approval", "delegation", "cron", "slug", "preset",
    "schedule", "inbox", "rank", "columns", "access"}
  Drafts = {d1, d2}
  Deciders = {h1, h2}
  MaxTries = 3
  MaxStops = 1
  Tasks = {t1, t2}
  MaxOpen = 1
  Sockets = 2
  MaxAnswers = 2
  MaxHalts = 1
  Schedules = {s1, s2}
  Editors = {e1, e2}
  MaxEvents = 3
  MaxEdits = 2
  CronSpecs <- WorkSpecs
  StartDays <- WorkDays
  HoursPerDay = 2
  LastYear = 2029
  Names = {"a", "b", "g"}
  Clerks = {c1, c2}
  Caster = "a"
  Presets = {1, 2, 3}
  Seeds <- WorkSeeds
  Renamed = "renamed"
  MaxRounds = 5
  Subjects = {"card", "message"}
  Reasons = {"state_change", "task_assigned", "mention"}
  Notifiers = {c1, c2}
  MaxNewPerHour = 1
  MaxEpisodes = 4
  Base = 4
  RankLenMax = 2
  MaxCards = 4
  MaxRankLen = 3
  DefaultColumns <- SecondLands
  Clients = {c1, c2}
  Slips = {1}
  MaxColumns = 4
  MaxAsked = 5
  Owner = own
  Mates = {u1, u2}
  Bots = {b1}
  Keeper <- WorkKeeper
  MaxChanges = 3
INVARIANTS
  WorkTypeOK
  DelegationsHold
  YearlyCronFires
  ShownAsIntended
  ColumnsHold
  AccessHolds
PROPERTIES
  ApprovalsHold
  SchedulesHold
  
  DirectoryHolds
  InboxHolds
CHECK_DEADLOCK FALSE
