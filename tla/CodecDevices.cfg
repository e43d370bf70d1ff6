SPECIFICATION Spec
CONSTANTS
    Kinds = {"airconditioner", "ventilation", "gasvalve", "elevator", "thermostat", "motion", "airquality"}
    Statuses <- MCStatuses
    Calls <- MCCalls
    MaxCalls = 1
    MaxMoves = 5
    None = None
INVARIANTS TypeOK ObeyedIsConfirmed ConfirmedIsDone ShownIsReported DirectionAgrees
CHECK_DEADLOCK FALSE
