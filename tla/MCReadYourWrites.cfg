\* Three researchers' requests on one study, and no fault at all.
CONSTANTS
  Servers = {v1}
  Requests = {r1, r2, r3}
  Analysts = {a1}
  Menu <- StatusAndSettings
  MaxSeq = 6
  TailMax = 3
  MaxFaults = 0
SPECIFICATION Spec
INVARIANT ReadYourWrites
CHECK_DEADLOCK FALSE
