SPECIFICATION Spec
CONSTANTS
    Cids = {c1, c2}
    Periodicity = periodicity
    Capacity = 3
    Word = 64
    Envs <- EnvsAll
    MaxTime = 3
    MaxSlips = 2
SYMMETRY CidSymmetry
INVARIANTS
    TypeOK
    NeverUndercounts
    CountTracksDisk
    BoundedOverrun
    HistoryRetained
PROPERTIES
    ImplementsRetention
