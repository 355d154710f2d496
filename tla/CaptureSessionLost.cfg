CONSTANTS
    MaxRequests = 1
    MaxCaptures = 1
SPECIFICATION Spec
PROPERTY UnconfirmedIsReported
CHECK_DEADLOCK FALSE
