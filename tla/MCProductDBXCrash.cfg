SPECIFICATION CrashSpec
CONSTANTS
  Names = {n1, n2}
  Quantities <- MCOneQuantity
  IntMax <- MCIntMax
  Absent = Absent
  Procs = {p1, p2}
  Idle = Idle
  Gone = Gone
  Pending = Pending
  Empty = Empty
  MaxCalls = 1
  MaxCrashes = 2
INVARIANTS
  DbInv
  NoLiveTornRead
PROPERTIES
  DamageConfined
  CallsReturn
