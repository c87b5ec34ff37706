\* One tab; the respondent may stay away for too long and the model may fail.
CONSTANTS
  i1 = i1
  i2 = i2
  i3 = i3
  NoItem = NoItem
  Items = {i1, i2}
  Limit <- OneProbe
  Guides <- OneGuide
  Clients = {c1}
  MaxReplies = 7
  Upsets = {"llm", "lapse"}
  MaxUpsets = 1
SPECIFICATION Spec
INVARIANTS TypeOK TranscriptInOrder RepliesBounded
CHECK_DEADLOCK FALSE
