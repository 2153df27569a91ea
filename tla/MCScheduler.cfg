SPECIFICATION Spec
CONSTANTS
    Procs = {p1, p2, p3}
    Idle = idle
    NULL = null
    TIME = 2
    PERIOD = 2
    SLEEPS <- MCSleeps
INVARIANTS TypeOK ListIsLive OnlyRunnableRuns FallbackIsReady IdleHasInterrupts
PROPERTIES ScanReturns RoundRobin
