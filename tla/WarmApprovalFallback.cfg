SPECIFICATION Spec
CONSTANTS
    MaxMounts = 3
    MaxPresses = 3
    MaxGlitches = 2
INVARIANT FallbackRuns
CHECK_DEADLOCK FALSE
