SPECIFICATION Spec
CONSTANTS
  Names = {n1}
  Quantities <- MCQuantities
  IntMax <- MCIntMax
  Absent = Absent
  Procs = {p1, p2}
  Idle = Idle
  Gone = Gone
  Pending = Pending
  Empty = Empty
  MaxCalls = 2
  MaxCrashes = 0
INVARIANTS
  NoTornRead
PROPERTIES
  AtomicStock
  CallsReturn
