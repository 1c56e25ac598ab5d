CONSTANTS
    None = None
    MaxPackets = 2
    MaxStops = 2
    MaxFaults = 2
    MaxLine = 2
SPECIFICATION Spec
INVARIANTS StopsOnce PacketsOnce NewerStopKept
CHECK_DEADLOCK FALSE
