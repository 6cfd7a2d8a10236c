CONSTANTS
    i1 = i1
    i2 = i2
    p1 = p1
    p2 = p2
    p3 = p3
    IDs = {i1, i2}
    Paths = {p1, p2, p3}
    OtherWallets <- MCOtherWallets
    DirFiles <- MCDirFiles
    OfflineIDs = {i2}
    OfflinePaths = {p2}
    FirstLoadSetting = FALSE
    LoadCountSetting = 9
    NoPath = NoPath
SPECIFICATION Spec
INVARIANTS
    LoadFailureSkipped
CHECK_DEADLOCK FALSE
