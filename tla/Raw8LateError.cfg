SPECIFICATION Spec
CONSTANTS
  Cameras <- MCCameras
  Sensors <- MCSensors
  Sizes <- MCSizes
  Origins <- MCOrigins
  RequiredSensors <- MCRequired
  IdSpace = 4
  QueueFrames = 2
  QueueBytes = 3
  LimitBytes = 4
  ImuQueueSamples = 2
  ImuBatch = 2
  RecordAnyImu = TRUE
  RequireAllCameras = FALSE
  MaxSamples = 2
INVARIANT CompleteHasNoError
