SPECIFICATION Spec
CONSTANTS
    Seeds = {s1, s2}
    NoKeys = NoKeys
    Blocks = {1, 2}
    MaxCalls = 3
    Arena = 2
    Envs <- EnvsAll
INVARIANTS
    TypeOK
    SignedByStoredSeed
    RejectedOnlyByOverlap
    NotarizedByAttested
    ChallengeFitsBlock
PROPERTIES
    ImplementsDelivery
    ClearRunDelivered
