SPECIFICATION FairSpec
CONSTANTS
  Request = {r1, r2}
  Key = {k1}
  MaxRecycles = 1
  MaxSessions = 3
  MaxEvents = 1
  MaxWire = 1
INVARIANTS OwnEventsOnly OneResponseSeen DeltaNeverFirst
PROPERTY EveryCallEnds
CHECK_DEADLOCK FALSE
