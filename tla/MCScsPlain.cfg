SPECIFICATION Spec
CONSTANTS
    Object = {o1}
    Name = {main, dev}
    Workspace = {w1, w2}
    None = None
    Optimized = FALSE
    MaxLog = 6
    MaxFaults = 1
SYMMETRY Sym
INVARIANTS TreesComplete RecoveryExact SnapshotsDurable
PROPERTIES NoLostUpdate ImplementsNamedRoots
