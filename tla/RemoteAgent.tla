---------------------------- MODULE RemoteAgent ----------------------------
(***************************************************************************)
(* Remote collection: CLI agents on other hosts probe their sources and    *)
(* upload them to the API server, which keeps agents and collection jobs   *)
(* in one in-memory control state and saves it to a file after every       *)
(* change, before it answers.                                              *)
(*                                                                         *)
(* The server is one event loop: a handler runs alone from one await to    *)
(* the next.  Every handler computes a new control state from the one it   *)
(* read when it started; only an upload that carries raw blobs awaits in   *)
(* between, so only there other handlers come in the middle.               *)
(*                                                                         *)
(* What a source holds is a version that grows.                            *)
(***************************************************************************)
EXTENDS Naturals, FiniteSets

CONSTANTS
    Agent,       \* agent ids that pairing hands out
    Host,        \* machines with an agent state file
    Client,      \* CLI processes
    HostOf,      \* [Client -> Host]
    Runs,        \* [Client -> SUBSET {"pair", "upload", "pull"}]
    Source,      \* source instances
    OwnerOf,     \* [Source -> Host]
    Scopes,      \* the source selections in use, on command lines and in jobs
    Label,       \* labels an agent may carry
    Selectors,   \* what jobs select: Everyone, or a set of agent ids or labels
    Everyone,
    Expectations, \* the expected_generation values in use, 0 for none
    Presences,   \* how probes find sources: among "present", "absent", "unreadable"
    Conn,        \* requests the server handles at the same time
    RawBlobs,    \* uploads carry raw blobs
    MayAbandon,  \* a client may stop waiting for a request that still runs
    Retries,     \* --retry-attempts
    MaxVersion, MaxGeneration, MaxJobs, MaxLeases, MaxRelabels, MaxLosses, MaxCrashes, \* bounds
    Nobody, Torn, NoFile, Unreadable

Job == 1..MaxJobs  \* in the order of their creation

ASSUME RemoteAgentAssumption ==
    /\ HostOf \in [Client -> Host]
    /\ Runs \in [Client -> SUBSET {"pair", "upload", "pull"}]
    /\ OwnerOf \in [Source -> Host]
    /\ Scopes \subseteq SUBSET Source
    /\ Selectors \subseteq {Everyone} \cup SUBSET (Agent \cup Label)
    /\ Expectations \subseteq Nat
    /\ Presences \subseteq {"present", "absent", "unreadable"}
    /\ RawBlobs \in BOOLEAN /\ MayAbandon \in BOOLEAN
    /\ {Retries, MaxVersion, MaxGeneration, MaxJobs, MaxLeases, MaxRelabels, MaxLosses, MaxCrashes}
          \subseteq Nat
    /\ MaxVersion > 0
    /\ Nobody \notin Client /\ Nobody \notin Agent
    /\ Unreadable \notin 0..MaxVersion

----------------------------------------------------------------------------
(* The control state.                                                      *)

Generations == [Source -> 0..MaxGeneration]

AgentRecord == [known : BOOLEAN, labels : SUBSET Label, gen : Generations]
NoAgent == [known |-> FALSE, labels |-> {}, gen |-> [s \in Source |-> 0]]

\* A job and, for every agent, its assignment.
JobRecord == [known : BOOLEAN, selector : Selectors \cup {Everyone}, scope : SUBSET Source,
              expected : Nat,
              status : [Agent -> {"pending", "leased", "succeeded", "failed"}],
              lease : [Agent -> 0..MaxLeases]]
NewJob(known, selector, scope, expected) ==
    [known |-> known, selector |-> selector, scope |-> scope, expected |-> expected,
     status |-> [a \in Agent |-> "pending"], lease |-> [a \in Agent |-> 0]]
NoJob == NewJob(FALSE, Everyone, {}, 0)

ControlState == [agents : [Agent -> AgentRecord], jobs : [Job -> JobRecord]]
EmptyState == [agents |-> [a \in Agent |-> NoAgent], jobs |-> [j \in Job |-> NoJob]]

\* What an agent keeps on its host: who it is, and for each source the accepted
\* generation and what was uploaded with it.
FileState ==
    [agent : Agent, gen : Generations, sum : [Source -> 0..MaxVersion \cup {Unreadable}]]

\* A state file that is absent or cannot be parsed has no content.
ASSUME FileAssumption ==
    /\ Torn # NoFile /\ Torn \notin ControlState /\ NoFile \notin ControlState
    /\ Torn \notin FileState /\ NoFile \notin FileState

VARIABLES
    \* the hosts
    version,    \* [Source -> what the source holds]
    local,      \* [Host -> agent state file]
    client,     \* [Client -> what the process is doing]
    \* the server process
    state,      \* the control state in memory
    server,     \* [Conn -> the handler of a request]
    \* what survives the server
    store,      \* [Source -> the version last written to the store, or 0]
    main, tmp,  \* the state file and its temporary file
    \* time and history
    expired,    \* leases whose time is over
    leases,     \* leases given so far
    created,    \* jobs created so far
    paired,     \* agent ids handed out so far
    relabels,   \* changes of labels so far
    collected,  \* [Job -> [Agent -> the versions it bundled for the job, 0 for none]]
    losses, crashes

hosts == <<version, local, client>>
files == <<main, tmp>>
history == <<leases, created, paired, relabels, collected>>
vars == <<hosts, state, server, store, files, expired, history, losses, crashes>>

----------------------------------------------------------------------------
(* Operations on the control state.                                        *)

Matches(st, a, selector) ==
    \/ selector = Everyone
    \/ selector # Everyone /\ selector \cap ({a} \cup st.agents[a].labels) # {}

Leased(st, j, a) == st.jobs[j].known /\ st.jobs[j].status[a] = "leased"

HasActiveLease(st, j, a) == Leased(st, j, a) /\ st.jobs[j].lease[a] \notin expired

\* Mutation of IsLeaseCandidate: an expired lease is never given again.
NeverLeasedBefore(st, j, a) ==
    st.jobs[j].known /\ Matches(st, a, st.jobs[j].selector) /\ st.jobs[j].status[a] = "pending"

IsLeaseCandidate(st, j, a) ==
    /\ st.jobs[j].known
    /\ Matches(st, a, st.jobs[j].selector)
    /\ \/ st.jobs[j].status[a] = "pending"
       \/ st.jobs[j].status[a] = "leased" /\ st.jobs[j].lease[a] \in expired

Oldest(jobs) == CHOOSE j \in jobs : \A i \in jobs : j <= i

WithStatus(st, j, a, status, lease) ==
    [st EXCEPT !.jobs[j] = [@ EXCEPT !.status[a] = status, !.lease[a] = lease]]

WithJob(st, j, selector, scope, expected) ==
    [st EXCEPT !.jobs[j] = NewJob(TRUE, selector, scope, expected)]

\* Only the generations of the bundled sources advance.
AfterUpload(st, req) ==
    [st EXCEPT !.agents[req.agent].gen =
        [s \in Source |-> IF s \in req.bundled THEN req.gen[s] ELSE @[s]]]

----------------------------------------------------------------------------
(* Requests and the processes that send and handle them.                   *)

NoRequest == [stage |-> "free"]
Free(k) == server[k] = NoRequest

Idle == [pc |-> "idle"]
Readable(h) == local[h] \notin {NoFile, Torn}

Send(c, k, req) ==
    /\ Free(k)
    /\ server' = [server EXCEPT ![k] = [stage |-> "arriving", client |-> c, req |-> req]]

Waiting(c) == \E k \in Conn : ~Free(k) /\ server[k].client = c

Asks(k, kind) == ~Free(k) /\ server[k].stage = "arriving" /\ server[k].req.kind = kind

Reporting(agent, job, status) ==
    [pc |-> "reporting", agent |-> agent, job |-> job, status |-> status]

\* Mutation of Failed: a job whose upload failed is reported as succeeded.
FailedUnnoticed(p) ==
    CASE p.pc = "uploading" /\ p.tries > 0 -> [p EXCEPT !.pc = "sending", !.tries = @ - 1]
      [] p.pc = "uploading" /\ p.tries = 0 /\ p.req.job # 0 ->
            Reporting(p.puller, p.req.job, "succeeded")
      [] OTHER -> Idle

\* What a client does when its request failed: an upload is tried again as it is,
\* a leased job is reported as failed, also when reporting its success failed;
\* everything else ends the command.
Failed(p) ==
    CASE p.pc = "uploading" /\ p.tries > 0 -> [p EXCEPT !.pc = "sending", !.tries = @ - 1]
      [] p.pc = "uploading" /\ p.tries = 0 /\ p.req.job # 0 ->
            Reporting(p.puller, p.req.job, "failed")
      [] p.pc = "completing" /\ p.status = "succeeded" -> Reporting(p.agent, p.job, "failed")
      [] OTHER -> Idle

Init ==
    /\ version = [s \in Source |-> 1]
    /\ local = [h \in Host |-> NoFile]
    /\ client = [c \in Client |-> Idle]
    /\ state = EmptyState
    /\ server = [k \in Conn |-> NoRequest]
    /\ store = [s \in Source |-> 0]
    /\ main = NoFile /\ tmp = NoFile
    /\ expired = {} /\ leases = 0 /\ created = 0 /\ paired = {} /\ relabels = 0
    /\ collected = [j \in Job |-> [a \in Agent |-> [s \in Source |-> 0]]]
    /\ losses = 0 /\ crashes = 0

\* The assistant on the host writes to a source.
EditSource(s) ==
    /\ version[s] < MaxVersion
    /\ version' = [version EXCEPT ![s] = @ + 1]
    /\ UNCHANGED <<local, client, state, server, store, files, expired, history, losses, crashes>>

\* Time passes.
Expire(l) ==
    /\ l \in 1..leases /\ l \notin expired
    /\ expired' = expired \cup {l}
    /\ UNCHANGED <<hosts, state, server, store, files, history, losses, crashes>>

----------------------------------------------------------------------------
(* The CLI: pair, upload (schedule repeats it), pull.                      *)

\* Bounded by the agent ids that are left for requests on the way.
BeginPair(c, k) ==
    /\ client[c] = Idle /\ "pair" \in Runs[c]
    /\ Cardinality(paired) + Cardinality({i \in Conn : Asks(i, "pair")}) < Cardinality(Agent)
    /\ Send(c, k, [kind |-> "pair"])
    /\ client' = [client EXCEPT ![c] = [pc |-> "pairing"]]
    /\ UNCHANGED <<version, local, state, store, files, expired, history, losses, crashes>>

\* runAgentUploadCycle reads the state file and works on what it read.
Cycle(c, puller, job, scope) ==
    [pc |-> "probing", file |-> local[HostOf[c]], scope |-> scope, puller |-> puller, job |-> job]

BeginUpload(c, scope) ==
    /\ client[c] = Idle /\ "upload" \in Runs[c] /\ Readable(HostOf[c])
    /\ client' = [client EXCEPT ![c] = Cycle(c, Nobody, 0, scope)]
    /\ UNCHANGED <<version, local, state, server, store, files, expired, history, losses, crashes>>

BeginPull(c, k) ==
    LET file == local[HostOf[c]] IN
    /\ client[c] = Idle /\ "pull" \in Runs[c] /\ Readable(HostOf[c])
    /\ Send(c, k, [kind |-> "lease", agent |-> file.agent])
    /\ client' = [client EXCEPT ![c] = [pc |-> "leasing", agent |-> file.agent]]
    /\ UNCHANGED <<version, local, state, store, files, expired, history, losses, crashes>>

\* The collection for a leased job reads the state file again.
ReadLocalState(c) ==
    LET p == client[c] IN
    /\ p.pc = "leased"
    /\ client' = [client EXCEPT ![c] =
           IF Readable(HostOf[c]) THEN Cycle(c, p.agent, p.job, p.scope)
           ELSE Reporting(p.agent, p.job, "failed")]
    /\ UNCHANGED <<version, local, state, server, store, files, expired, history, losses, crashes>>

\* Probe the selected sources of the host and list them in the manifest.  The
\* dirty fingerprint contains the times of the probe, so it never equals the
\* recorded one: every source that is not absent is bundled, one generation after
\* the recorded one.  A source that cannot be read is bundled as an empty payload.
Probe(c, presence) ==
    LET p == client[c]
        listed == {s \in p.scope : OwnerOf[s] = HostOf[c]}
        bundled == {s \in listed : presence[s] # "absent"}
        data == [s \in Source |-> IF presence[s] = "unreadable" THEN Unreadable ELSE version[s]]
        gen == [s \in Source |-> p.file.gen[s] + (IF s \in bundled THEN 1 ELSE 0)]
    IN
    /\ p.pc = "probing"
    /\ \A s \in bundled : p.file.gen[s] < MaxGeneration
    /\ client' = [client EXCEPT ![c] =
           [pc |-> "sending", file |-> p.file, puller |-> p.puller, tries |-> Retries,
            req |-> [kind |-> "upload", agent |-> p.file.agent, job |-> p.job,
                     listed |-> listed, bundled |-> bundled, gen |-> gen, data |-> data]]]
    /\ collected' = [j \in Job |->
           IF j # p.job THEN collected[j]
           ELSE [collected[j] EXCEPT ![p.file.agent] =
                    [s \in Source |-> IF s \in bundled /\ data[s] # Unreadable
                                      THEN version[s] ELSE 0]]]
    /\ UNCHANGED <<version, local, state, server, store, files, expired, leases, created, paired, relabels,
                   losses, crashes>>

SendUpload(c, k) ==
    /\ client[c].pc = "sending"
    /\ Send(c, k, client[c].req)
    /\ client' = [client EXCEPT ![c].pc = "uploading"]
    /\ UNCHANGED <<version, local, state, store, files, expired, history, losses, crashes>>

\* Mutation of Uploaded: the next generation is recorded as the one accepted.
UploadedNext(file, req) ==
    [file EXCEPT !.gen = [s \in Source |-> IF s \in req.bundled THEN req.gen[s] + 1 ELSE @[s]],
                 !.sum = [s \in Source |-> IF s \in req.bundled THEN req.data[s] ELSE @[s]]]

\* applyRemoteUploadSuccess on what the cycle read when it started; the accepted
\* generation of a bundled source is the one that was sent.
Uploaded(file, req) ==
    [file EXCEPT !.gen = [s \in Source |-> IF s \in req.bundled THEN req.gen[s] ELSE @[s]],
                 !.sum = [s \in Source |-> IF s \in req.bundled THEN req.data[s] ELSE @[s]]]

\* Write the agent state file in place, then report a leased job.
WriteLocalState(c) ==
    LET p == client[c] IN
    /\ p.pc = "recording"
    /\ local' = [local EXCEPT ![HostOf[c]] = p.file]
    /\ client' = [client EXCEPT ![c] =
           IF p.job = 0 THEN Idle ELSE Reporting(p.puller, p.job, "succeeded")]
    /\ UNCHANGED <<version, state, server, store, files, expired, history, losses, crashes>>

Report(c, k) ==
    LET p == client[c] IN
    /\ p.pc = "reporting"
    /\ Send(c, k, [kind |-> "complete", agent |-> p.agent, job |-> p.job, status |-> p.status])
    /\ client' = [client EXCEPT ![c].pc = "completing"]
    /\ UNCHANGED <<version, local, state, store, files, expired, history, losses, crashes>>

Recording(file, puller, job) ==
    [pc |-> "recording", file |-> file, puller |-> puller, job |-> job]

\* What a client does with a good answer.
Succeeded(p, answer) ==
    CASE p.pc = "pairing" ->
            Recording([agent |-> answer.agent, gen |-> [s \in Source |-> 0],
                       sum |-> [s \in Source |-> 0]], Nobody, 0)
      [] p.pc = "leasing" /\ answer.job # 0 ->
            [pc |-> "leased", agent |-> p.agent, job |-> answer.job, scope |-> answer.scope]
      [] p.pc = "uploading" -> Recording(Uploaded(p.file, p.req), p.puller, p.req.job)
      [] OTHER -> Idle

Receive(k) ==
    LET c == server[k].client IN
    /\ server[k].stage = "answering"
    /\ client' = IF c = Nobody THEN client
                 ELSE [client EXCEPT ![c] = IF server[k].answer.ok
                                            THEN Succeeded(@, server[k].answer) ELSE Failed(@)]
    /\ server' = [server EXCEPT ![k] = NoRequest]
    /\ UNCHANGED <<version, local, state, store, files, expired, history, losses, crashes>>

\* A request or an answer is lost with its connection, or the client stops waiting
\* for a request that the server goes on with.
LoseMessage(k) ==
    /\ losses < MaxLosses
    /\ ~Free(k) /\ server[k].client # Nobody /\ server[k].stage \in {"arriving", "answering"}
    /\ losses' = losses + 1
    /\ client' = [client EXCEPT ![server[k].client] = Failed(@)]
    /\ server' = [server EXCEPT ![k] = NoRequest]
    /\ UNCHANGED <<version, local, state, store, files, expired, history, crashes>>

Abandon(k) ==
    /\ MayAbandon /\ losses < MaxLosses
    /\ ~Free(k) /\ server[k].client # Nobody /\ server[k].stage # "answering"
    /\ losses' = losses + 1
    /\ client' = [client EXCEPT ![server[k].client] = Failed(@)]
    /\ server' = [server EXCEPT ![k].client = Nobody]
    /\ UNCHANGED <<version, local, state, store, files, expired, history, crashes>>

\* The probe, the bundle or writing the state file fails: a leased job is reported
\* as failed, although its upload may have been accepted.
CommandFails(c) ==
    LET p == client[c] IN
    /\ losses < MaxLosses
    /\ p.pc \in {"probing", "recording"}
    /\ losses' = losses + 1
    /\ client' = [client EXCEPT ![c] =
           IF p.job = 0 THEN Idle ELSE Reporting(p.puller, p.job, "failed")]
    /\ UNCHANGED <<version, local, state, server, store, files, expired, history, crashes>>

\* The client is killed; killed in a write, it leaves half a state file.
Kill(c, torn) ==
    /\ losses < MaxLosses
    /\ client[c] # Idle /\ ~Waiting(c)
    /\ torn => client[c].pc = "recording"
    /\ losses' = losses + 1
    /\ client' = [client EXCEPT ![c] = Idle]
    /\ local' = IF torn THEN [local EXCEPT ![HostOf[c]] = Torn] ELSE local
    /\ UNCHANGED <<version, state, server, store, files, expired, history, crashes>>

----------------------------------------------------------------------------
(* The server's handlers.                                                  *)

\* Nothing else runs while an upload without raw blobs does.
LoopFree(k) ==
    RawBlobs \/ \A i \in Conn \ {k} : ~Free(i) => server[i].stage # "storing"

NoAnswer == [ok |-> TRUE, agent |-> Nobody, job |-> 0, scope |-> {}]

\* Mutation of SetState: the control state is set and answered, and never saved.
SetStateUnsaved(k, c, st, answer) ==
    /\ state' = st
    /\ server' = [server EXCEPT ![k] =
           [stage |-> "answering", client |-> c, answer |-> answer]]

\* Handler k sets the control state, saves what it set and answers.
SetState(k, c, st, answer) ==
    /\ state' = st
    /\ server' = [server EXCEPT ![k] =
           [stage |-> "saving", client |-> c, save |-> st, fd |-> "none", answer |-> answer]]

Respond(k, answer) ==
    server' = [server EXCEPT ![k] =
                   [stage |-> "answering", client |-> server[k].client, answer |-> answer]]

Refuse(k) == Respond(k, [NoAnswer EXCEPT !.ok = FALSE]) /\ UNCHANGED state

Arrives(k, kind) == Asks(k, kind) /\ LoopFree(k)

Pair(k, a) ==
    /\ Arrives(k, "pair") /\ a \notin paired
    /\ paired' = paired \cup {a}
    /\ SetState(k, server[k].client, [state EXCEPT !.agents[a].known = TRUE],
                [NoAnswer EXCEPT !.agent = a])
    /\ UNCHANGED <<hosts, store, files, expired, leases, created, relabels, collected, losses, crashes>>

\* A heartbeat or the operator changes an agent's labels.
Relabel(k, a, labels) ==
    /\ Free(k) /\ LoopFree(k)
    /\ state.agents[a].known
    /\ relabels < MaxRelabels
    /\ relabels' = relabels + 1
    /\ SetState(k, Nobody, [state EXCEPT !.agents[a].labels = labels], NoAnswer)
    /\ UNCHANGED <<hosts, store, files, expired, leases, created, paired, collected,
                   losses, crashes>>

\* createRemoteAgentJob: agents selected by id must be known.
CreateJob(k, selector, scope, expected) ==
    /\ Free(k) /\ LoopFree(k)
    /\ created < MaxJobs
    /\ selector # Everyone => \A a \in Agent \cap selector : state.agents[a].known
    /\ created' = created + 1
    /\ SetState(k, Nobody, WithJob(state, created + 1, selector, scope, expected), NoAnswer)
    /\ UNCHANGED <<hosts, store, files, expired, leases, paired, relabels, collected, losses, crashes>>

\* Mutation of LeaseJob: an agent that holds a lease gets one more.
LeaseAnother(k) ==
    LET a == server[k].req.agent
        candidates == {j \in Job : IsLeaseCandidate(state, j, a)}
    IN
    /\ Arrives(k, "lease")
    /\ state.agents[a].known /\ candidates # {} /\ leases < MaxLeases
    /\ leases' = leases + 1
    /\ SetState(k, server[k].client,
                WithStatus(state, Oldest(candidates), a, "leased", leases + 1),
                [NoAnswer EXCEPT !.job = Oldest(candidates),
                                 !.scope = state.jobs[Oldest(candidates)].scope])
    /\ UNCHANGED <<hosts, store, files, expired, created, paired, relabels, collected, losses, crashes>>

\* leaseRemoteAgentJob: the agent's active lease again, else the oldest candidate.
LeaseJob(k) ==
    LET a == server[k].req.agent
        active == {j \in Job : HasActiveLease(state, j, a)}
        candidates == {j \in Job : IsLeaseCandidate(state, j, a)}
        lease(st, j) == SetState(k, server[k].client, st,
                                 [NoAnswer EXCEPT !.job = j, !.scope = st.jobs[j].scope])
    IN
    /\ Arrives(k, "lease")
    /\ IF ~state.agents[a].known
       THEN Refuse(k) /\ UNCHANGED leases
       ELSE IF active # {} THEN lease(state, Oldest(active)) /\ UNCHANGED leases
       ELSE IF candidates # {}
       THEN /\ leases < MaxLeases
            /\ leases' = leases + 1
            /\ lease(WithStatus(state, Oldest(candidates), a, "leased", leases + 1),
                     Oldest(candidates))
       ELSE SetState(k, server[k].client, state, NoAnswer) /\ UNCHANGED leases
    /\ UNCHANGED <<hosts, store, files, expired, created, paired, relabels, collected, losses, crashes>>

\* Mutation of CompleteJob: a job that is not leased any more is completed again.
CompleteAnyJob(k) ==
    LET r == server[k].req IN
    /\ Arrives(k, "complete")
    /\ IF state.agents[r.agent].known /\ state.jobs[r.job].known
       THEN SetState(k, server[k].client,
                     WithStatus(state, r.job, r.agent, r.status,
                                state.jobs[r.job].lease[r.agent]), NoAnswer)
       ELSE Refuse(k)
    /\ UNCHANGED <<hosts, store, files, expired, history, losses, crashes>>

\* completeRemoteAgentJob: a lease that is over may still be completed.
CompleteJob(k) ==
    LET r == server[k].req IN
    /\ Arrives(k, "complete")
    /\ IF state.agents[r.agent].known /\ Leased(state, r.job, r.agent)
       THEN SetState(k, server[k].client,
                     WithStatus(state, r.job, r.agent, r.status,
                                state.jobs[r.job].lease[r.agent]), NoAnswer)
       ELSE Refuse(k)
    /\ UNCHANGED <<hosts, store, files, expired, history, losses, crashes>>

\* What applyRemoteAgentUpload checks before the first payload.
Acceptable(st, r) ==
    /\ st.agents[r.agent].known
    /\ r.job # 0 =>
          /\ HasActiveLease(st, r.job, r.agent)
          /\ r.bundled \subseteq st.jobs[r.job].scope
          /\ st.jobs[r.job].expected # 0 =>
                \A s \in r.bundled : r.gen[s] = st.jobs[r.job].expected

ReceiveUpload(k) ==
    LET r == server[k].req IN
    /\ Arrives(k, "upload")
    /\ IF ~Acceptable(state, r) THEN Refuse(k)
       ELSE IF r.bundled = {} THEN SetState(k, server[k].client, AfterUpload(state, r), NoAnswer)
       ELSE /\ server' = [server EXCEPT ![k] =
                  [stage |-> "storing", client |-> server[k].client, req |-> r,
                   snap |-> state, left |-> r.bundled]]
            /\ UNCHANGED state
    /\ UNCHANGED <<hosts, store, files, expired, history, losses, crashes>>

\* Mutation of Fresh: the generation that was accepted last is accepted again.
FreshOrSame(k, s) ==
    server[k].req.gen[s] >= server[k].snap.agents[server[k].req.agent].gen[s]

Fresh(k, s) ==
    server[k].req.gen[s] > server[k].snap.agents[server[k].req.agent].gen[s]

\* Merge or import one payload (an empty one changes nothing, and one that is
\* stored already is skipped); after the last one the control state is set.  All
\* decisions rest on the control state read when the request arrived.
StorePayload(k, s) ==
    LET h == server[k] IN
    /\ ~Free(k) /\ h.stage = "storing" /\ s \in h.left /\ Fresh(k, s)
    /\ store' = [store EXCEPT ![s] = IF h.req.data[s] = Unreadable THEN @ ELSE h.req.data[s]]
    /\ IF h.left = {s} THEN SetState(k, h.client, AfterUpload(h.snap, h.req), NoAnswer)
       ELSE server' = [server EXCEPT ![k].left = @ \ {s}] /\ UNCHANGED state
    /\ UNCHANGED <<hosts, files, expired, history, losses, crashes>>

\* Mutation of RejectStale: a stale payload is skipped and counts as uploaded.
SkipStale(k) ==
    LET h == server[k] IN
    /\ ~Free(k) /\ h.stage = "storing"
    /\ \A s \in h.left : ~Fresh(k, s)
    /\ SetState(k, h.client, h.snap, NoAnswer)
    /\ UNCHANGED <<hosts, store, files, expired, history, losses, crashes>>

\* A stale payload ends the upload; payloads before it stay stored.
RejectStale(k) ==
    /\ ~Free(k) /\ server[k].stage = "storing"
    /\ \E s \in server[k].left : ~Fresh(k, s)
    /\ Refuse(k)
    /\ UNCHANGED <<hosts, store, files, expired, history, losses, crashes>>

\* Writing a raw blob or the payload throws; payloads before it stay stored.
StoreFails(k) ==
    /\ ~Free(k) /\ server[k].stage = "storing"
    /\ losses < MaxLosses
    /\ losses' = losses + 1
    /\ Refuse(k)
    /\ UNCHANGED <<hosts, store, files, expired, history, crashes>>

----------------------------------------------------------------------------
(* writeRemoteAgentState: write a temporary file and rename it.  Handlers  *)
(* that save at the same time share the temporary file; a handler that has *)
(* it open goes on writing to it where it was renamed to.                  *)

AtStage(k, stage) == ~Free(k) /\ server[k].stage = stage

OpenTemporary(k) ==
    /\ AtStage(k, "saving")
    /\ tmp' = Torn
    /\ server' = [server EXCEPT ![k].stage = "opened", ![k].fd = "tmp"]
    /\ UNCHANGED <<hosts, state, store, main, expired, history, losses, crashes>>

SharesFile(i, k) == i # k /\ AtStage(i, "opened") /\ server[i].fd = server[k].fd

Renamed(h) ==
    IF h # NoRequest /\ h.stage = "opened"
    THEN [h EXCEPT !.fd = IF @ = "tmp" THEN "main" ELSE "gone"] ELSE h

\* Write the content and rename the file.  Two states written over each other may
\* leave neither.  If another handler renamed the file away, this one fails,
\* although the state it set stays.
RenameTemporary(k, content) ==
    /\ AtStage(k, "opened")
    /\ \/ content = server[k].save
       \/ content = Torn /\ \E i \in Conn : SharesFile(i, k)
    /\ IF tmp = NoFile
       THEN /\ main' = IF server[k].fd = "main" THEN content ELSE main
            /\ Respond(k, [NoAnswer EXCEPT !.ok = FALSE])
            /\ UNCHANGED tmp
       ELSE /\ main' = IF server[k].fd = "tmp" THEN content ELSE tmp
            /\ tmp' = NoFile
            /\ server' = [i \in Conn |->
                   IF i = k THEN [stage |-> "answering", client |-> server[k].client,
                                  answer |-> server[k].answer]
                   ELSE Renamed(server[i])]
    /\ UNCHANGED <<hosts, state, store, expired, history, losses, crashes>>

\* readRemoteAgentState: whatever cannot be read is an empty state.
ReadState == IF main \in {NoFile, Torn} THEN EmptyState ELSE main

\* The server process dies with its connections and starts again.
CrashServer ==
    /\ crashes < MaxCrashes
    /\ crashes' = crashes + 1
    /\ state' = ReadState
    /\ server' = [k \in Conn |-> NoRequest]
    /\ client' = [c \in Client |-> IF Waiting(c) THEN Failed(client[c]) ELSE client[c]]
    /\ UNCHANGED <<version, local, store, files, expired, history, losses>>

----------------------------------------------------------------------------
\* What client c goes on to do by itself once its command runs.
Continue(c) ==
    \/ ReadLocalState(c)
    \/ \E presence \in [Source -> Presences] : Probe(c, presence)
    \/ \E k \in Conn : SendUpload(c, k)
    \/ WriteLocalState(c)
    \/ \E k \in Conn : Report(c, k)

Pull(c) == \E k \in Conn : BeginPull(c, k)
Upload(c) == \E scope \in Scopes : BeginUpload(c, scope)

\* What the server goes on to do with a request once it arrived.
Serve(k) ==
    \/ \E a \in Agent : Pair(k, a)
    \/ LeaseJob(k)
    \/ CompleteJob(k)
    \/ ReceiveUpload(k)
    \/ \E s \in Source : StorePayload(k, s)
    \/ RejectStale(k)
    \/ OpenTemporary(k)
    \/ RenameTemporary(k, server[k].save)
    \/ Receive(k)

Next ==
    \/ \E s \in Source : EditSource(s)
    \/ \E l \in 1..MaxLeases : Expire(l)
    \/ \E c \in Client, k \in Conn : BeginPair(c, k)
    \/ \E c \in Client : Pull(c) \/ Upload(c) \/ Continue(c)
    \/ \E c \in Client : CommandFails(c)
    \/ \E c \in Client, torn \in BOOLEAN : Kill(c, torn)
    \/ \E k \in Conn : Serve(k)
    \/ \E k \in Conn : RenameTemporary(k, Torn)
    \/ \E k \in Conn : StoreFails(k)
    \/ \E k \in Conn : LoseMessage(k) \/ Abandon(k)
    \/ \E k \in Conn, a \in Agent, labels \in SUBSET Label : Relabel(k, a, labels)
    \/ \E k \in Conn, selector \in Selectors, scope \in Scopes, expected \in Expectations :
          CreateJob(k, selector, scope, expected)
    \/ CrashServer

Spec == Init /\ [][Next]_vars

\* A started command runs on, the server handles what has arrived, time passes,
\* and a client's commands are run again and again (by cron or by hand).
FairSpec ==
    /\ Spec
    /\ \A k \in Conn : WF_vars(Serve(k))
    /\ \A c \in Client : SF_vars(Continue(c)) /\ SF_vars(Pull(c)) /\ SF_vars(Upload(c))
    /\ \A l \in 1..MaxLeases : WF_vars(Expire(l))

----------------------------------------------------------------------------
(* Properties.                                                             *)

\* What is in memory, in the files and in the history has its shape; in
\* particular no two writers tear the state into something else than Torn.
TypeOK ==
    /\ version \in [Source -> 1..MaxVersion]
    /\ local \in [Host -> FileState \cup {NoFile, Torn}]
    /\ state \in ControlState
    /\ store \in [Source -> 0..MaxVersion]
    /\ main \in ControlState \cup {NoFile, Torn} /\ tmp \in ControlState \cup {NoFile, Torn}
    /\ expired \subseteq 1..leases /\ leases \in 0..MaxLeases
    /\ created \in 0..MaxJobs /\ paired \subseteq Agent

\* An agent never holds two leases at once, whatever older control states late
\* handlers bring back and whatever a restart reads from the state file.
OneActiveLease ==
    \A a \in Agent, i, j \in Job :
        HasActiveLease(state, i, a) /\ HasActiveLease(state, j, a) => i = j

\* The design note on consistency: an upload that was collected earlier never
\* overwrites what a later one brought.
StoreNeverRegresses == [][\A s \in Source : store'[s] >= store[s]]_vars

\* While the server runs, the control state keeps what was answered: agents stay
\* known, accepted generations only grow, jobs stay, and a finished job stays
\* finished as it is.
ControlStateOnlyAdvances ==
    [][\A a \in Agent :
          /\ state.agents[a].known => state'.agents[a].known
          /\ \A s \in Source : state'.agents[a].gen[s] >= state.agents[a].gen[s]
          /\ \A j \in Job :
                /\ state.jobs[j].known => state'.jobs[j].known
                /\ state.jobs[j].status[a] \in {"succeeded", "failed"}
                      => state'.jobs[j].status[a] = state.jobs[j].status[a]]_vars

\* What an agent records as uploaded is in the store, in that version or a later one.
RecordedIsStored ==
    \A s \in Source :
        LET file == local[OwnerOf[s]] IN
        file \notin {NoFile, Torn} /\ file.sum[s] # Unreadable => store[s] >= file.sum[s]

\* A job that counts as succeeded has in the store what its agent collected for it.
SucceededIsStored ==
    \A j \in Job, a \in Agent :
        state.jobs[j].known /\ state.jobs[j].status[a] = "succeeded"
            => \A s \in Source : store[s] >= collected[j][a][s]

\* The server answers after it saved: an agent's file never names a pairing or a
\* generation that a restart could forget.
AnsweredIsSaved ==
    \A h \in Host :
        Readable(h) =>
            LET saved == ReadState.agents[local[h].agent] IN
            saved.known /\ \A s \in Source : local[h].gen[s] <= saved.gen[s]

\* A job that an agent may work on ends, by success or failure, if the agent's
\* host goes on pulling: no lease is held for ever, and a lost answer, a killed
\* client or a restart of the server only delay the end.
Served(j, a) ==
    /\ state.jobs[j].known /\ state.agents[a].known
    /\ Matches(state, a, state.jobs[j].selector)
    /\ \E h \in Host : Readable(h) /\ local[h].agent = a

JobsEnd ==
    \A j \in Job, a \in Agent :
        Served(j, a) ~> (~Served(j, a) \/ state.jobs[j].status[a] \in {"succeeded", "failed"})
=============================================================================
