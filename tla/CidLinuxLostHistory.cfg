SPECIFICATION Spec
CONSTANTS
    Cids = {c1}
    Periodicity = periodicity
    Capacity = 3
    Word = 64
    Envs <- EnvsOpen
    MaxTime = 4
    MaxSlips = 2
INVARIANTS
    FullHistoryRetained
