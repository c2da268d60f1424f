SPECIFICATION Spec
CONSTANTS
  Names = {n1}
  Quantities <- MCQuantities
  IntMax <- MCIntMax
  Absent = Absent
  Procs = {p1}
  Idle = Idle
  Gone = Gone
  NoMessage = NoMessage
  Pending = Pending
  MaxCalls = 2
  MaxFaults = 0
PROPERTIES
  CallsAnswered
CHECK_DEADLOCK FALSE
