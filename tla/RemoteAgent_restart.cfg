\* One CLI process that uploads and pulls, one request at a time, a lost message,
\* a client that gives up on a request or is killed, and a restart of the server at any step.
CONSTANTS
    a1 = a1
    a2 = a2
    h1 = h1
    cli = cli
    cron = cron
    x1 = x1
    x2 = x2
    k1 = k1
    k2 = k2
    l1 = l1
    Everyone = Everyone
    Nobody = Nobody
    Torn = Torn
    NoFile = NoFile
    Unreadable = Unreadable
    Agent = {a1}
    Host = {h1}
    HostOf <- OneHost
    OwnerOf <- OwnedByIt
    Client = {cli}
    Runs <- Alone
    Source = {x1}
    Scopes <- AllSources
    Label = {}
    Selectors <- ForAll
    Expectations <- AlwaysExpected
    Presences = {"present", "absent", "unreadable"}
    Conn = {k1}
    RawBlobs = TRUE
    MayAbandon = TRUE
    Retries = 0
    MaxVersion = 2
    MaxGeneration = 2
    MaxJobs = 1
    MaxLeases = 3
    MaxRelabels = 0
    MaxLosses = 1
    MaxCrashes = 1
SPECIFICATION FairSpec
CHECK_DEADLOCK FALSE
INVARIANTS RecordedIsStored SucceededIsStored AnsweredIsSaved
PROPERTIES JobsEnd
