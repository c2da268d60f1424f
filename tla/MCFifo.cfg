SPECIFICATION Spec
CONSTANTS
  Names = {n1}
  Quantities <- MCQuantities
  IntMax <- MCIntMax
  Absent = Absent
  Procs = {p1, p2}
  Idle = Idle
  Gone = Gone
  NoMessage = NoMessage
  Pending = Pending
  MaxCalls = 2
  MaxFaults = 2
INVARIANTS
  FifoInv
  OneConnected
PROPERTIES
  OnlyFaultsStopServer
  ServesAtMostOnce
  FreshAnswered
CHECK_DEADLOCK FALSE
