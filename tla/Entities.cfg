SPECIFICATION Spec
CONSTANTS
    Lights = {l1, l2}
    Fan = fan
    Support = {co2}
    Rooms = {r1}
    MaxFrames = 3
    MaxStarts = 2
    None = None
SYMMETRY Symmetry
INVARIANTS TypeOK ShownAgrees AvailableIsReported KnownComeBack NamedAreAsked PresetsComeBack
CHECK_DEADLOCK FALSE
