SPECIFICATION ViewerSpec
CONSTANTS
  Parts = {"cors", "page", "readers", "update"}
  MaxSessions = 2
  MaxGeneration = 3
  MaxOthers = 1
  MaxPolls = 1
  Datasets <- MCDatasets
  TurnLimit = 2
  DelayLimit = 2
  Rates = {1, 2}
  Horizon = 5
  MaxInputs = 4
  Directories <- MCDirectories
  Epoch = 10
  Jitter = 1
  JumpFloor = 5
  JumpFactor = 3
  ChunkTarget = 5
  Period = 4
  AnchorGap = 2
  AnchorReach = 2
  Attempts = 2
  Grace = 1
  Patience = 1
  MaxPresses = 3
INVARIANTS LeftRunningIsReported SettledPanel ShownIsAtCursor NoStaleImage
  OldOrNewSurvives BagHoldsTheDataset ValidIsUsable ViewerSurvives
PROPERTIES StopReturns PageSettles HelpersEnd
CHECK_DEADLOCK FALSE
