SPECIFICATION Spec
CONSTANTS
    Rooms = {r1, r2}
    Settings = {s1, s2}
    Temps = {t1, t2}
    Contexts = {}
    Window = 0
    MaxLabels = 3
    MaxFrames = 0
    None = None
SYMMETRY Symmetry
INVARIANT EveryChangeRecorded
CHECK_DEADLOCK FALSE
