SPECIFICATION Spec
CONSTANTS
    Cids = {c1, c2}
    Capacity = 3
    Word = 6
    NoFile = NoFile
    Envs <- EnvsAll
    MaxTime = 3
    MaxSlips = 2
SYMMETRY CidSymmetry
INVARIANTS
    TypeOK
    CacheOnDisk
    CountTracksDisk
    BoundedOverrun
    HistoryRetained
PROPERTIES
    ImplementsRetention
