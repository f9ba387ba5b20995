CONSTANTS
    p1 = p1
    p2 = p2
    s1 = s1
    s2 = s2
    x = x
    y = y
    both = both
    damaged = damaged
    plain = plain
    Process = {p1, p2}
    Source = {s1, s2}
    Blob = {x, y}
    Bundle = {both, damaged, plain}
    Contents <- BundleContents
    HasRaw = {both, damaged}
    Broken <- BrokenPayloads
    Runs <- BesideServer
    MaxCommands = 1
SPECIFICATION Spec
CHECK_DEADLOCK FALSE
INVARIANT NamedFilesExist
