SPECIFICATION PartSpec
CONSTANTS
  Message = m1
  Requests = {r1, r2}
  Devices = {d1, d2}
INVARIANTS TypeOK 
PROPERTIES SeenInTheEnd WaitingEnds
CHECK_DEADLOCK FALSE
