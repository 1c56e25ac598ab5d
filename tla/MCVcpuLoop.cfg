CONSTANTS
    CPU = {c1, c2}
    Caller = {k1}
    Buffer = 1
    None = None
SPECIFICATION LiveSpec
INVARIANTS Quiet ExitsHandled LiveEpoch
PROPERTY CallsEnd
