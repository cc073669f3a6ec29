SPECIFICATION Spec
CONSTANTS
    Cids = {c1}
    Capacity = 3
    Word = 64
    NoFile = NoFile
    Envs <- EnvsRemove
    MaxTime = 8
    MaxSlips = 2
INVARIANTS
    BoundedOverrunAlways
