CONSTANTS
    s = s
    t1 = t1
    t2 = t2
    p1 = p1
    p2 = p2
    Process = {p1, p2}
    Source = {s}
    Turn = {t1, t2}
    V1Turns = {t1}
    NoBaseline = NoBaseline
    MaxCommands = 2
    MaxCrashes = 1
    MaxWrites = 1
    SourceOf <- SourceOfTurn
    SourceOrder <- Listed
SPECIFICATION FairSpec
CHECK_DEADLOCK FALSE
INVARIANTS TypeOK DroppedTurnsAreKept BackfilledSourcesAreComplete HandoffKeepsTurns
PROPERTIES RunningEnds
