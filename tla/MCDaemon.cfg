\* Two overlapping runs, three settings; a thread of 4 messages under a cap of
\* 2 replies, or 3 ticks with hours and days of 2; two changes of settings,
\* socket or process; a file of 4 lines, two torn appends and one cut rewrite.
SPECIFICATION DaemonSpec
CONSTANTS
  a1 = a1
  r1 = r1
  e1 = e1
  s1 = s1
  s2 = s2
  hidden = hidden
  Asks = {a1, r1, e1}
  Roots = {r1}
  Elsewhere = {e1}
  Slots = {s1, s2}
  Profiles <- DaemonProfiles
  Rules = {hidden}
  MaxHops = 2
  Recent = 4
  Hour = 2
  Day = 2
  Costs = {1}
  MaxTime = 2
  MaxTalk = 4
  MaxTurns = 2
  Mail = {m1, m2, m3}
  NoId = NoId
  MaxLines = 4
  MaxCuts = 2
SYMMETRY DaemonSymm
INVARIANTS
  DaemonTypeOK
  ThreadIsBounded
PROPERTIES
  RunsAreMetered
  OwnerRules
  
CHECK_DEADLOCK FALSE
