SPECIFICATION Spec
CONSTANTS
    SeedSize = 2
    Seeds = {s1, s2, s3}
    Zero = zero
    NoKeys = NoKeys
    Env <- EnvFaults
    MaxNulls = 2
INVARIANTS
    TypeOK
    CacheCoherent
    IdentityWasStored
    NoForeignIdentity
PROPERTIES
    KeysFromFile
