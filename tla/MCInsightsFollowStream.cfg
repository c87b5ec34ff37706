\* One interview of a live study, its analysis, a queue with room for every event, and no fault.
CONSTANTS
  Servers = {v1}
  Requests = {r1}
  Analysts = {a1}
  Menu <- Interviews
  MaxSeq = 7
  TailMax = 4
  MaxFaults = 0
SPECIFICATION Spec
INVARIANT InsightsFollowStream
CHECK_DEADLOCK FALSE
