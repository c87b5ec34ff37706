\* Nothing fails: the run ends between the two reads of the stream.
CONSTANTS
  look = look
  invite = invite
  NoCall = NoCall
  Servers = {s1}
  Calls = {look, invite}
  Outward = {invite}
  MaxTurns = 1
  MaxBatch = 1
  MaxUpsets = 0
SPECIFICATION WatchedSpec
INVARIANTS SettledPanelSawAll
CHECK_DEADLOCK FALSE
