\* Two CLI processes of one host share the agent state file: one pulls two labelled
\* jobs and uploads, the other uploads on a schedule, so that requests overlap on the server,
\* beside those of the operator.  Uploads carry no raw blobs.
CONSTANTS
    a1 = a1
    a2 = a2
    h1 = h1
    cli = cli
    cron = cron
    x1 = x1
    x2 = x2
    k1 = k1
    k2 = k2
    l1 = l1
    Everyone = Everyone
    Nobody = Nobody
    Torn = Torn
    NoFile = NoFile
    Unreadable = Unreadable
    Agent = {a1}
    Host = {h1}
    HostOf <- OneHost
    OwnerOf <- OwnedByIt
    Client = {cli, cron}
    Runs <- WithUploads
    Source = {x1}
    Scopes <- AllSources
    Label = {l1}
    Selectors <- ForLabel
    Expectations <- NoExpectation
    Presences = {"present"}
    Conn = {k1, k2}
    RawBlobs = FALSE
    MayAbandon = FALSE
    Retries = 0
    MaxVersion = 2
    MaxGeneration = 1
    MaxJobs = 2
    MaxLeases = 2
    MaxRelabels = 1
    MaxLosses = 0
    MaxCrashes = 0
SPECIFICATION Spec
CHECK_DEADLOCK FALSE
INVARIANTS TypeOK OneActiveLease RecordedIsStored
PROPERTIES StoreNeverRegresses ControlStateOnlyAdvances
SYMMETRY SameConn
