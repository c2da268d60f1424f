SPECIFICATION Spec
CONSTANTS
  Names = {n1}
  Quantities <- MCQuantities
  IntMax <- MCIntMax
  Absent = Absent
  Procs = {p1, p2}
  Server = Server
  Idle = Idle
  Gone = Gone
  NoMessage = NoMessage
  Pending = Pending
  NoFile = NoFile
  Blank = Blank
  MaxCalls = 2
  MaxFaults = 0
PROPERTIES
  RequestsKept
CHECK_DEADLOCK FALSE
