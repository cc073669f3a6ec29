SPECIFICATION Spec
CONSTANTS
    t1 = t1
    t2 = t2
    Texts = {t1, t2}
    Shorter <- OneBeginsTwo
    Mixed = Mixed
    Absent = Absent
    NoTx = NoTx
    Env <- EnvNone
INVARIANTS
    TxAsDocumented
