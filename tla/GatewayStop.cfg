SPECIFICATION Spec
CONSTANTS
    c1 = c1
    c2 = c2
    light = light
    None = None
    Rooms = {1}
    Others = {light}
    Restored = {1}
    Commands = {c1, c2}
    KeyOf <- TwoKeys
    WantOf <- TwoWants
    Values = {"on", "off"}
    RetryMax = 2
    MaxGen = 4
INVARIANT StopSettlesAll
CHECK_DEADLOCK FALSE
