SPECIFICATION Spec
CONSTANTS
  Cameras <- MCCameras
  Direct = {"imu", "lidarImu", "timeSync", "base", "gnss"}
  Policies = {"received", "aligned"}
  Modes = {"full"}
  QueueFrames = 2
  QueueBatches = 1
  QueueBytes = 3
  ChunkBytes = 3
  FrameSets <- MCFrameSets
  Batches <- MCBatches
  Times <- MCTimes
  MaxFrames = 2
  MaxBatches = 1
  MaxSessions = 1
INVARIANTS FramesCompleteHasAll
CHECK_DEADLOCK FALSE
