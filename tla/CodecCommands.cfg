SPECIFICATION Spec
CONSTANTS
    Kinds = {"airconditioner", "ventilation", "gasvalve"}
    Statuses <- MCStatuses
    Calls <- MCCalls
    MaxCalls = 1
    MaxMoves = 4
    None = None
INVARIANTS ConfirmedByReport
CHECK_DEADLOCK FALSE
