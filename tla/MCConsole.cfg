\* The researcher's pages, one at a time.
CONSTANTS
  MaxVersion = 3
  MaxTyped   = 1
  MaxFaults  = 1
  Drafts     <- MCDrafts
  Findings   <- MCFindings
  Fields     = {"welcome"}
  MaxTurns   = 3
  MaxBeside  = 1
  MaxMishaps = 1
  Scripts    <- MCScripts
  MaxRuns    = 1
  MaxVisits  = 2
  MaxCuts    = 1
  Documents  <- MCDocuments
  Queries    <- MCQueries
  Lists      <- MCLists
  Items      <- MCItems
  MaxMoves   = 3
  MaxNotices = 2
SPECIFICATION Spec
INVARIANTS
  RunsRecordedOnce
  PollingGoesOn
  RetriesMakeOneStudy
  TypingIsAwaited
  CardsMatchEvents
  NotesMatchTheText
  OfferedUndoWorks
PROPERTIES
  EvaluationNeverGoesBack
  ButtonsComeBack
\* Each page comes to an end at its bounds.
CHECK_DEADLOCK FALSE
