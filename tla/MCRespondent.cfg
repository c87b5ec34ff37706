\* One respondent on each of the three surfaces.
CONSTANTS
  Questions = 2
  MaxReplies = 2
  MaxSessions = 2
  MaxFaults = 1
  MaxOpens = 2
  Surfaces = {"element", "direct", "headless"}
SPECIFICATION Spec
INVARIANTS QuestionsInOrder CapturedIsSaved HostCompleteIsReal LateReadyIsShown SdkAnswersSaved
CHECK_DEADLOCK FALSE
PROPERTY StageComesBack
