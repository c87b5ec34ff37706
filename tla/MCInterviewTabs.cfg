\* Two tabs on one interview; the memory may expire, a handler may die and the
\* researcher may add an item.
CONSTANTS
  i1 = i1
  i2 = i2
  i3 = i3
  NoItem = NoItem
  Items = {i1, i2}
  Limit <- NoProbe
  Guides <- GrowingGuides
  Clients = {c1, c2}
  MaxReplies = 3
  Upsets = {"abort", "expire", "refine"}
  MaxUpsets = 1
SPECIFICATION Spec
INVARIANTS CompletionCoversGuide MemoryBehindLog
SYMMETRY TabSymmetry
CHECK_DEADLOCK FALSE
