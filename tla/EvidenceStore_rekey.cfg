\* One slot under two host names (host rekey), whose evidence is shared: a syncing
\* process beside uploads, syncs and project deletions under the other name.
CONSTANTS
    q1 = q1
    q2 = q2
    s1 = s1
    s2 = s2
    p1 = p1
    p2 = p2
    c1 = c1
    c2 = c2
    slotA = slotA
    slotB = slotB
    Missing = Missing
    Proc = {q1, q2}
    Source = {s1, s2}
    Path = {p1}
    Content = {c1}
    Slot = {slotA}
    TurnNo = {1}
    Runs <- BesideUploads
    Sees <- SeesOwn
    SlotOf <- OneSlot
    TurnsIn <- OneTurn
    Remote = {}
    MaxCrashes = 0
    MaxEdits = 1
    MaxEvents = 1
SPECIFICATION Spec
CHECK_DEADLOCK FALSE
INVARIANTS OwnersHaveRows DeferredPruneIsPaid
