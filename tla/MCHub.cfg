\* Accounts: two requests at a time out of five, three accounts.  Control: two
\* administrators, two sockets, a restart.  Limits: two events in a window of 2.
SPECIFICATION HubSpec
CONSTANTS
  ana = ana
  bia = bia
  caio = caio
  r1 = r1
  r2 = r2
  c1 = c1
  c2 = c2
  Emails = {ana, bia, caio}
  Requests = {r1, r2}
  MaxAttempts = 2
  LockBase = 1
  MaxLock = 1
  Life = 1
  MaxUsers = 3
  MaxInvites = 1
  MaxResets = 2
  MaxRequests = 5
  MaxNow = 2
  Columns = {"auto_paused"}
  NoConn = NoConn
  Conns = {c1, c2}
  Handlers = {r1, r2}
  MaxActs = 3
  MaxKeys = 2
  MaxEvents = 2
  Window = 2
  RatePerMinute = 20
  MaxClock = 5
  MaxPerTick = 3
SYMMETRY HubSymm
INVARIANTS
  HubTypeOK
  AdminsHold
  CredentialsHold
  ControlTakesEffect
  PanelSeesPresence
  LimitsHold
CHECK_DEADLOCK FALSE
