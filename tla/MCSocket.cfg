SPECIFICATION Spec
CONSTANTS
  Names = {n1}
  Quantities <- MCQuantities
  IntMax <- MCIntMax
  Absent = Absent
  Empty = Empty
  Procs = {p1, p2}
  Idle = Idle
  Gone = Gone
  NoMessage = NoMessage
  Pending = Pending
  MaxCalls = 2
  MaxFaults = 2
  MaxFds = 3
INVARIANTS
  SocketInv
PROPERTIES
  OnlyFaultsStopServer
  DamageConfined
  ServesAtMostOnce
  CallsReturn
CHECK_DEADLOCK FALSE
