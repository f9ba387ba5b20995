CONSTANTS
    c1 = c1
    c2 = c2
    Conn = {c1, c2}
    NoConn = NoConn
    MaxWrites = 3
    MaxGeneration = 1
SPECIFICATION Spec
SYMMETRY ConnSymmetry
INVARIANTS TypeOK IndexIsCurrent PagesAreCoherent SnapshotIsCurrent MapsAreCurrent NoUncommittedReads
