\* One server, an ordinary call and one that needs a confirmation.
CONSTANTS
  look = look
  invite = invite
  NoCall = NoCall
  Servers = {s1}
  Calls = {look, invite}
  Outward = {invite}
  MaxTurns = 2
  MaxBatch = 2
  MaxUpsets = 1
SPECIFICATION WatchedSpec
INVARIANTS ActsOnlyIfApproved ModelKnowsEffects StatusMatchesLog ShownInOrder
PROPERTIES EndedStaysEnded RunSettles PanelSettles
CHECK_DEADLOCK FALSE
