CONSTANTS
    Call = {c1, c2}
    None = None
SPECIFICATION LiveSpec
INVARIANT AnsweredOnce
PROPERTIES CancelHitsOwnWrite CallsEnd
