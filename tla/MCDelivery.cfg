\* One message, one connection for its sender and two for its recipient, which
\* reconnects while its old session lingers.
SPECIFICATION Spec
CONSTANTS
  alice = alice
  bob = bob
  a1 = a1
  b1 = b1
  b2 = b2
  NoConn = NoConn
  Agents <- MCAgents
  Conns <- MCConns
  Owner <- MCOwner
  MaxSends = 1
  MaxFaults = 2
INVARIANTS
  TypeOK
  DeliveredIsStored
  StoredOnce
  Custody
  AttachedIsRegistered
PROPERTIES
  OnlyOwnSessionDeregisters
  ImplementsContract
CHECK_DEADLOCK FALSE
