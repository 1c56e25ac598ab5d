CONSTANTS
    Worker = {w1, w2}
    Buffer = {b1, b2, b3, b4, b5}
    None = None
    MaxConnections = 2
    MaxRequests = 2
SPECIFICATION Spec
INVARIANTS ReadsInOrder RequestsServed CloseHitsOwn
PROPERTY ConnectionEnds
