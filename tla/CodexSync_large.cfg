\* The same with every file read in a stream, as files over 64 MiB are.
CONSTANTS
    path1 = path1
    path2 = path2
    sync1 = sync1
    Path = {path1}
    Removable = {}
    Proc = {sync1}
    MaxLen = 3
    LargeLen = 1
    Thresholds = {9}
    MaxEdits = 2
    MaxTroubles = 0
    MaxUpgrades = 0
SPECIFICATION Spec
INVARIANTS ShownIsOneCapture
