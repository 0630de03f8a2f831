CONSTANTS
    Threads = {t1, t2}
    Used = {"C_REGISTER"}
    MaxBatch = 2
    Freed = Freed
    Nothing = Nothing
SPECIFICATION Spec
INVARIANT AccessMeansInserted
