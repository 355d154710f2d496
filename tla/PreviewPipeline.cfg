CONSTANTS
    Cameras <- MCCameras
    Workers <- MCWorkers
    GroupSpace = 4
    Paths = {"grouped", "independent", "legacy"}
    SentGroups = {0, 3}
    MayVanish = {1}
    MaxReceived = 2
    MaxGeneration = 1
SPECIFICATION Spec
INVARIANTS OneGroupPerPaint BoundedWork
PROPERTIES NeverOlder NothingFromBeforeAbsence HealthyNeverWait
