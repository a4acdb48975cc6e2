\* connection_manager.py says that a dead connection is removed by its own loop.
SPECIFICATION Spec
CONSTANTS
  alice = alice
  bob = bob
  a1 = a1
  b1 = b1
  b2 = b2
  NoConn = NoConn
  Agents <- MCAgents
  Conns = {b1, b2}
  Owner <- MCOwnerB
  MaxSends = 1
  MaxFaults = 2
INVARIANTS
  DeadConnectionIsRemoved
CHECK_DEADLOCK FALSE
