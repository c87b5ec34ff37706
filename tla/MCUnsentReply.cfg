\* A respondent on the page itself, and nothing fails.
CONSTANTS
  Questions = 2
  MaxReplies = 2
  MaxSessions = 2
  MaxFaults = 0
  MaxOpens = 2
  Surfaces = {"direct"}
SPECIFICATION Spec
INVARIANT ReceiptIsTrue
CHECK_DEADLOCK FALSE
