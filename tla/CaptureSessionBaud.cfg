CONSTANTS
    MaxRequests = 1
    MaxCaptures = 1
SPECIFICATION Spec
PROPERTY BaudChangesDuringCapture
CHECK_DEADLOCK FALSE
