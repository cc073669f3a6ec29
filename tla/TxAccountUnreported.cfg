SPECIFICATION Spec
CONSTANTS
    Seeds = {s1, s2}
    NoKeys = NoKeys
    Blocks = {1}
    MaxCalls = 1
    Arena = 2
    Envs <- EnvsWorking
INVARIANT
    AccountReported
