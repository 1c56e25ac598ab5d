SPECIFICATION Spec
CONSTANTS
    Object = {o1}
    Name = {main}
    Workspace = {w1}
    None = None
    Optimized = TRUE
    MaxLog = 9
    MaxFaults = 1
INVARIANTS AlwaysRecoverable RecoveryExact
