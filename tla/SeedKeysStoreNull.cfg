SPECIFICATION Spec
CONSTANTS
    SeedSize = 2
    Seeds = {s1, s2, s3}
    Zero = zero
    NoKeys = NoKeys
    Env <- EnvNone
    MaxNulls = 2
INVARIANTS
    FileHoldsChosenSeed
