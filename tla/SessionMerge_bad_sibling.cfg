CONSTANTS
    path1 = path1
    path2 = path2
    session1 = session1
    session2 = session2
    a1 = a1
    a2 = a2
    a3 = a3
    b1 = b1
    b2 = b2
    Path = {path1, path2}
    Session = {session1, session2}
    Content = {a1, a2, b1, b2}
    Bad = {b2}
    Gone = Gone
    Thin = FALSE
    MaxEdits = 1
    MaxUpgrades = 0
    Users <- Prompts
    PathOf <- PathOfContent
    SessionOf <- SessionOfContent
    MsgsOf <- MsgsOfContent
    SizeOf <- SizeOfContent
SPECIFICATION Spec
CHECK_DEADLOCK FALSE
PROPERTIES PromptsAreRetained
