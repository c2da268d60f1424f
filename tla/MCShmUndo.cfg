SPECIFICATION Spec
CONSTANTS
  Names = {n1}
  Quantities <- MCQuantities
  IntMax <- MCIntMax
  Absent = Absent
  Procs = {p1, p2}
  Server = Server
  Idle = Idle
  Gone = Gone
  NoMessage = NoMessage
  Pending = Pending
  Wiped = Wiped
  SysV = TRUE
  MaxCalls = 1
  MaxFaults = 0
INVARIANTS
  NoneGarbled
CHECK_DEADLOCK FALSE
