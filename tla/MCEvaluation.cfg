\* Two reviewers on one case, a researcher who refines it, and one failure.
CONSTANTS
  c1 = c1
  j1 = j1
  Cases = {c1}
  Slice <- CoreSlice
  CriticalSlices = {"core"}
  Bindings = {b1}
  NoBinding = NoBinding
  Scores = {8000}
  Batches <- OneBatch
  MinReps = 1
  MinOverall = 8000
  MinSlice = 7000
  MaxCritical = 0
  MinExamples = 0
  MinHoldout = 0
  MinAgreement = 8000
  Editors = {e1, e2}
  Artifacts = {a1}
  Drafts <- Redrafts
  MaxSeq = 4
  MaxRep = 2
  MaxFaults = 1
SPECIFICATION Spec
INVARIANTS TypeOK DecisionIsCurrent ClaimsCiteAttachedEvidence RepetitionsDistinct
SYMMETRY EditorSymmetry
\* It stops when MaxSeq events have been appended.
CHECK_DEADLOCK FALSE
