CONSTANTS
    Threads = {t1, t2}
    Used = {"C_REGISTER", "C_ADMIN_LOGIN", "C_GET_REQUEST", "C_REQUEST_PASS", "C_GET_LOG"}
    MaxBatch = 2
    Nothing = Nothing
    Freed = Freed
SPECIFICATION FairSpec
INVARIANTS Typed OnlyOverlapIntrudes
PROPERTIES CutShortOnlyFor 
