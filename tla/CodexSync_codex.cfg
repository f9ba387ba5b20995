\* Two Codex files, one of which may disappear, and the sync that runs again and
\* again; two changes of the files, one failure or crash, one new parser.
CONSTANTS
    path1 = path1
    path2 = path2
    sync1 = sync1
    Path = {path1, path2}
    Removable = {path2}
    Proc = {sync1}
    MaxLen = 3
    LargeLen = 9
    Thresholds = {2, 9}
    MaxEdits = 2
    MaxTroubles = 1
    MaxUpgrades = 1
SPECIFICATION Spec
INVARIANTS TypeOK ShownIsOneCapture StatsTellContent
PROPERTIES StoreCatchesUp
