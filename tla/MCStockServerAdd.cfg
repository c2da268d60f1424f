SPECIFICATION FairServerSpec
CONSTANTS
  Names = {n1}
  Quantities <- MCQuantities
  IntMax <- MCIntMax
  Absent = Absent
  Procs = {p1, p2}
  Idle = Idle
  Gone = Gone
  NoMessage = NoMessage
  Pending = Pending
PROPERTIES
  AddsNewProducts
CHECK_DEADLOCK FALSE
