SPECIFICATION Spec
CONSTANTS
    Procs = {p1, p2, p3}
    Idle = idle
    NULL = null
    TIME = 3
    PERIOD = 2
    SLEEPS <- MCSleeps
PROPERTY ScanAlwaysReturns
