CONSTANTS
    k1 = k1
    k2 = k2
    k3 = k3
    k4 = k4
    Key = {k1, k2, k3, k4}
    Proc = {p1, p2}
    Entry = {e1, e2, e3, e4, e5, e6}
    Length <- Sizes
    MaxBytes = 2
    None = None
SPECIFICATION Spec
INVARIANT CacheConsistent
PROPERTY CallsServed
