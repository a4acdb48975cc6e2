\* Liveness: alice's session, or the panel, hands a message to bob's sessions, and
\* bob's daemon reconnects while its old session lingers.
SPECIFICATION FairSpec
CONSTANTS
  alice = alice
  bob = bob
  a1 = a1
  b1 = b1
  b2 = b2
  NoConn = NoConn
  Agents <- MCAgents
  Conns <- MCConns
  Owner <- MCOwner
  MaxSends = 1
  MaxFaults = 1
PROPERTIES
  HandoverIsConfirmed
  EventuallyOnline
CHECK_DEADLOCK FALSE
