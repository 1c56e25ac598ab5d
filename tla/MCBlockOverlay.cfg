CONSTANTS
    Size = 3
    ChunkSizes = {1, 2}
    MaxDirty = 2
    Byte = {0, 1}
    Zero = 0
    Buffer = {1, 2, 3, 4, 5, 6, 7, 8, 9, 10, 11, 12}
    Holder = {h1, h2}
    Free = Free
    BaseImage <- Stripes
    MaxSnapshots <- Snapshots
    MaxLeases <- Leases
SYMMETRY Sym
SPECIFICATION Spec
INVARIANTS AccountsExact LeasedIsWritable WritesExact ExtentMapsExact
PROPERTY ImplementsFlatDisk
