CONSTANTS
    o1 = o1
    o2 = o2
    o3 = o3
    Opener = {o1, o2}
    Cache = {o1, o2}
    Using <- OwnCache
    Size <- RightSizes
    Validated = {}
    Pinned = TRUE
    Length = 2
    Maximum = 2
    Ranges = {TRUE, FALSE}
    Inode = {1, 2, 3, 4}
    None = None
    MaxTries = 1
    MaxFaults = 0
    MaxCrashes = 0
SPECIFICATION Spec
INVARIANT VerifiedStays
