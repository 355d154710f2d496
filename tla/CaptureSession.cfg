CONSTANTS
    MaxRequests <- MCRequests
    MaxCaptures <- MCCaptures
SPECIFICATION Spec
INVARIANTS OneThread ClosedIsQuiet ExchangeEndsWithCapture
PROPERTIES TakenIsAnswered JoinsReturn
\* The user may leave the viewer alone: an idle GUI is not a deadlock.
CHECK_DEADLOCK FALSE
