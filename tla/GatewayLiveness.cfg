SPECIFICATION FairSpec
CONSTANTS
    c1 = c1
    c2 = c2
    light = light
    None = None
    Rooms = {1, 2}
    Others = {}
    Restored = {1, 2}
    Commands = {c1}
    KeyOf <- RoomKey
    WantOf <- RoomWant
    Values = {"on"}
    RetryMax = 2
    MaxGen = 3
INVARIANTS FirstBeforeRetry NoneForgotten
PROPERTIES EveryCallAnswered StopEnds AskedUntilHeard
CHECK_DEADLOCK FALSE
