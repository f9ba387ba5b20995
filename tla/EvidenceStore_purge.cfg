\* One source file that grows by a turn, disappears or comes back, a syncing process beside
\* one that purges turns, collects candidates or prunes evidence, one crash anywhere.
CONSTANTS
    q1 = q1
    q2 = q2
    s1 = s1
    s2 = s2
    p1 = p1
    p2 = p2
    c1 = c1
    c2 = c2
    slotA = slotA
    slotB = slotB
    Missing = Missing
    Proc = {q1, q2}
    Source = {s1}
    Path = {p1}
    Content = {c1, c2}
    Slot = {slotA}
    TurnNo = {1, 2}
    Runs <- BesidePurges
    Sees <- SeesAll
    SlotOf <- OneSlot
    TurnsIn <- Appended
    Remote = {}
    MaxCrashes = 1
    MaxEdits = 2
    MaxEvents = 2
SPECIFICATION Spec
CHECK_DEADLOCK FALSE
INVARIANTS TypeOK RowsHaveFiles TurnsKeepTheirEvidence
PROPERTIES CapturesAreRetained CurrentEvidenceStays
