SPECIFICATION Spec
CONSTANTS
    Rooms = {r1, r2}
    Settings = {s1, s2}
    Temps = {t1, t2}
    Contexts = {ctx}
    Window = 1
    MaxLabels = 2
    MaxFrames = 2
    None = None
SYMMETRY Symmetry
INVARIANTS TypeOK RecordedOnce RecordedAtOnce
PROPERTIES SourceIsTrue ComparedInSession
CHECK_DEADLOCK FALSE
