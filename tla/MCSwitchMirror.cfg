CONSTANTS
    Port = {p1, p2, p3}
    Mac = {a, b, g}
    Group = {g}
    MaxQueue = 2
    MaxLearned = 1
    MaxSends = 3
    NoPort = NoPort
    o1 = o1
    o2 = o2
    o3 = o3
    Opener = {o1, o2, o3}
    Cache = {shared}
    Using <- OneCache
    Size <- Sizes
    Validated = {o3}
    Pinned = TRUE
    Length = 2
    Maximum = 3
    Ranges = {TRUE, FALSE}
    Inode = {1, 2, 3, 4, 5}
    None = None
    MaxTries = 2
    MaxFaults = 1
    MaxCrashes = 1
SPECIFICATION EitherSpec
INVARIANTS LearnedPortsConnected DeliveredInOrder VerifiedStays
PROPERTY UnicastFollowsStation
