SPECIFICATION Spec
CONSTANTS
    r1 = r1
    Relays = {r1, r2, r3}
    Zero = r1
    RetryMax = 2
    MaxMoves = 2
    MaxCalls = 2
    None = None
SYMMETRY Symmetry
INVARIANTS TypeOK ShownAsReported
PROPERTIES OthersAsReported Transmits
CHECK_DEADLOCK FALSE
