SPECIFICATION Spec
CONSTANTS
    r1 = r1
    Relays = {r1, r2}
    Zero = r1
    RetryMax = 2
    MaxMoves = 2
    MaxCalls = 2
    None = None
INVARIANT CutoffIsNoLight
CHECK_DEADLOCK FALSE
