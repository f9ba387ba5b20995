----------------------- MODULE RemoteAgent_proofs ------------------------
(***************************************************************************)
(* Proofs about RemoteAgent for any agents, hosts, clients, connections    *)
(* and bounds: types, and that no agent holds two leases.  The control     *)
(* state lives in several copies (in memory, in two files, in handlers),   *)
(* and each of them may become the current one, so what is proved of it is *)
(* proved of every copy.                                                   *)
(***************************************************************************)
EXTENDS RemoteAgent, WellFoundedInduction, TLAPS

----------------------------------------------------------------------------
(* The shapes of requests, handlers and client processes.                  *)

JobOrNone == Job \cup {0}
AnyStatus == {"pending", "leased", "succeeded", "failed"}
EndStatus == {"succeeded", "failed"}

UploadRequest ==
    [kind : {"upload"}, agent : Agent, job : JobOrNone, listed : SUBSET Source,
     bundled : SUBSET Source, gen : Generations, data : [Source -> 0..MaxVersion \cup {Unreadable}]]
Request ==
    [kind : {"pair"}] \cup [kind : {"lease"}, agent : Agent]
    \cup [kind : {"complete"}, agent : Agent, job : Job, status : EndStatus]
    \cup UploadRequest

Answer == [ok : BOOLEAN, agent : Agent \cup {Nobody}, job : JobOrNone, scope : SUBSET Source]
Asker == Client \cup {Nobody}

Arriving == [stage : {"arriving"}, client : Asker, req : Request]
Storing == [stage : {"storing"}, client : Asker, req : UploadRequest, snap : ControlState,
            left : SUBSET Source]
Saving == [stage : {"saving", "opened"}, client : Asker, save : ControlState,
           fd : {"none", "tmp", "main", "gone"}, answer : Answer]
Answering == [stage : {"answering"}, client : Asker, answer : Answer]
Handler == {NoRequest} \cup Arriving \cup Storing \cup Saving \cup Answering

\* Whose lease a command works on: nobody's, or that of an agent for a job.
Cause(puller, job) == job \in Job => puller \in Agent

Probing == {p \in [pc : {"probing"}, file : FileState, scope : SUBSET Source,
                   puller : Agent \cup {Nobody}, job : JobOrNone] : Cause(p.puller, p.job)}
Sending == {p \in [pc : {"sending", "uploading"}, file : FileState,
                   puller : Agent \cup {Nobody}, tries : Nat, req : UploadRequest]
                : Cause(p.puller, p.req.job)}
RecordingState == {p \in [pc : {"recording"}, file : FileState,
                          puller : Agent \cup {Nobody}, job : JobOrNone] : Cause(p.puller, p.job)}
ReportingState == [pc : {"reporting", "completing"}, agent : Agent, job : Job, status : EndStatus]
ClientState ==
    [pc : {"idle", "pairing"}]
    \cup [pc : {"leasing"}, agent : Agent]
    \cup [pc : {"leased"}, agent : Agent, job : Job, scope : SUBSET Source]
    \cup Probing \cup Sending \cup RecordingState \cup ReportingState

\* A request to pair, or the answer to one.
PairTalk(h) ==
    \/ h.stage = "arriving" /\ h.req.kind = "pair"
    \/ h.stage \in {"saving", "opened", "answering"} /\ (h.answer.ok => h.answer.agent \in Agent)

\* A client waits for one request at a time, and one that pairs for its pairing.
Talking(k, c) == server[k] # NoRequest /\ server[k].client = c
WaitingPc == {"pairing", "leasing", "uploading", "completing"}
TalksInv ==
    \A c \in Client :
        /\ \A i, k \in Conn : Talking(i, c) /\ Talking(k, c) => i = k
        /\ \A k \in Conn : Talking(k, c) => client[c].pc \in WaitingPc
        /\ \A k \in Conn : Talking(k, c) /\ client[c].pc = "pairing" => PairTalk(server[k])

TypeInv ==
    /\ TypeOK
    /\ client \in [Client -> ClientState]
    /\ server \in [Conn -> Handler]
    /\ TalksInv

----------------------------------------------------------------------------
(* Operations on the control state keep its type.                          *)

LEMMA NewJobType ==
    ASSUME NEW known \in BOOLEAN, NEW selector \in Selectors \cup {Everyone},
           NEW scope \in SUBSET Source, NEW expected \in Nat
    PROVE  NewJob(known, selector, scope, expected) \in JobRecord
BY RemoteAgentAssumption DEF NewJob, JobRecord

LEMMA EmptyType == EmptyState \in ControlState
<1>1. NoAgent \in AgentRecord
    BY RemoteAgentAssumption DEF NoAgent, AgentRecord, Generations
<1>2. NoJob \in JobRecord
    BY NewJobType DEF NoJob
<1> QED
    BY <1>1, <1>2 DEF EmptyState, ControlState

LEMMA Statuses == "leased" \in AnyStatus \ EndStatus /\ EndStatus \subseteq AnyStatus
BY DEF AnyStatus, EndStatus

LEMMA WithStatusType ==
    ASSUME NEW st \in ControlState, NEW j \in Job, NEW a \in Agent,
           NEW status \in AnyStatus, NEW l \in 0..MaxLeases
    PROVE  /\ WithStatus(st, j, a, status, l) \in ControlState
           /\ \A i \in Job, b \in Agent :
                 /\ WithStatus(st, j, a, status, l).jobs[i].known = st.jobs[i].known
                 /\ WithStatus(st, j, a, status, l).jobs[i].status[b] =
                       IF i = j /\ b = a THEN status ELSE st.jobs[i].status[b]
                 /\ WithStatus(st, j, a, status, l).jobs[i].lease[b] =
                       IF i = j /\ b = a THEN l ELSE st.jobs[i].lease[b]
<1> DEFINE job == [st.jobs[j] EXCEPT !.status[a] = status, !.lease[a] = l]
<1>1. st.jobs[j] \in JobRecord
    BY DEF ControlState
<1>2. job \in JobRecord
    BY <1>1 DEF JobRecord, AnyStatus
<1>3. WithStatus(st, j, a, status, l) = [st EXCEPT !.jobs[j] = job]
    BY DEF WithStatus, ControlState
<1>4. /\ job.known = st.jobs[j].known
      /\ \A b \in Agent : job.status[b] = IF b = a THEN status ELSE st.jobs[j].status[b]
      /\ \A b \in Agent : job.lease[b] = IF b = a THEN l ELSE st.jobs[j].lease[b]
    BY <1>1 DEF JobRecord
<1> QED
    BY <1>2, <1>3, <1>4 DEF ControlState

LEMMA WithJobType ==
    ASSUME NEW st \in ControlState, NEW j \in Job, NEW selector \in Selectors,
           NEW scope \in Scopes, NEW expected \in Expectations
    PROVE  /\ WithJob(st, j, selector, scope, expected) \in ControlState
           /\ \A i \in Job \ {j} : WithJob(st, j, selector, scope, expected).jobs[i] = st.jobs[i]
           /\ \A a \in Agent :
                 WithJob(st, j, selector, scope, expected).jobs[j].status[a] = "pending"
<1>1. NewJob(TRUE, selector, scope, expected) \in JobRecord
    BY NewJobType, RemoteAgentAssumption
<1>2. \A a \in Agent : NewJob(TRUE, selector, scope, expected).status[a] = "pending"
    BY DEF NewJob
<1> QED
    BY <1>1, <1>2 DEF ControlState, WithJob

LEMMA AgentType ==
    ASSUME NEW st \in ControlState, NEW a \in Agent
    PROVE  /\ [st EXCEPT !.agents[a].known = TRUE] \in ControlState
           /\ [st EXCEPT !.agents[a].known = TRUE].jobs = st.jobs
           /\ \A labels \in SUBSET Label :
                 /\ [st EXCEPT !.agents[a].labels = labels] \in ControlState
                 /\ [st EXCEPT !.agents[a].labels = labels].jobs = st.jobs
BY DEF ControlState, AgentRecord

LEMMA AfterUploadType ==
    ASSUME NEW st \in ControlState, NEW r \in UploadRequest
    PROVE  AfterUpload(st, r) \in ControlState /\ AfterUpload(st, r).jobs = st.jobs
<1> DEFINE gen == [s \in Source |-> IF s \in r.bundled THEN r.gen[s]
                                    ELSE st.agents[r.agent].gen[s]]
<1>1. r.agent \in Agent /\ st.agents[r.agent] \in AgentRecord
    BY DEF UploadRequest, ControlState
<1>2. gen \in Generations
    BY <1>1 DEF UploadRequest, AgentRecord, Generations
<1>3. AfterUpload(st, r) = [st EXCEPT !.agents[r.agent].gen = gen]
    BY <1>1 DEF AfterUpload, ControlState, AgentRecord
<1>4. [st.agents[r.agent] EXCEPT !.gen = gen] \in AgentRecord
    BY <1>1, <1>2 DEF AgentRecord
<1>5. AfterUpload(st, r) = [st EXCEPT !.agents = [@ EXCEPT ![r.agent] =
                                                     [st.agents[r.agent] EXCEPT !.gen = gen]]]
    BY <1>1, <1>3 DEF ControlState
<1> QED
    BY <1>1, <1>4, <1>5 DEF ControlState

----------------------------------------------------------------------------
(* Conversations between clients and the server.                           *)

\* A client that waits for nothing goes on.
LEMMA TalksAlone ==
    ASSUME TypeInv, NEW c \in Client, NEW p, client[c].pc \notin WaitingPc,
           client' = [client EXCEPT ![c] = p], server' = server
    PROVE  TalksInv'
BY DEF TypeInv, TalksInv, Talking, PairTalk

\* A client that waits for nothing sends a request.
LEMMA TalksSend ==
    ASSUME TypeInv, NEW c \in Client, NEW k \in Conn, NEW req, NEW p,
           client[c].pc \notin WaitingPc, Send(c, k, req), client' = [client EXCEPT ![c] = p],
           p.pc \in WaitingPc, p.pc = "pairing" => req.kind = "pair"
    PROVE  TalksInv'
<1>1. server[k] = NoRequest /\ server' = [server EXCEPT ![k] = [stage |-> "arriving",
                                                               client |-> c, req |-> req]]
    BY DEF Send, Free
<1>2. \A i \in Conn, d \in Client : Talking(i, d)' <=> IF i = k THEN d = c ELSE Talking(i, d)
    BY <1>1 DEF Talking, TypeInv, NoRequest
<1>3. \A i \in Conn : ~Talking(i, c)
    BY DEF TypeInv, TalksInv
<1>4. client'[c] = p /\ \A d \in Client \ {c} : client'[d] = client[d]
    BY DEF TypeInv
<1>5. \A i \in Conn \ {k} : server'[i] = server[i]
    BY <1>1 DEF TypeInv
<1>6. p.pc = "pairing" => PairTalk(server[k])'
    BY <1>1 DEF PairTalk, TypeInv
<1> QED
    BY <1>2, <1>3, <1>4, <1>5, <1>6 DEF TypeInv, TalksInv, PairTalk

\* The server goes on with a request, or takes one of the operator.
LEMMA TalksServe ==
    ASSUME TypeInv, NEW k \in Conn, NEW h, client' = client,
           server' = [server EXCEPT ![k] = h],
           IF server[k] = NoRequest THEN h.client = Nobody ELSE h.client = server[k].client,
           PairTalk(server[k]) /\ server[k] # NoRequest => PairTalk(h)
    PROVE  TalksInv'
<1>1. \A i \in Conn, d \in Client : Talking(i, d)' => Talking(i, d)
    BY RemoteAgentAssumption DEF Talking, TypeInv
<1>2. \A i \in Conn, d \in Client :
          Talking(i, d) /\ PairTalk(server[i]) => PairTalk(server[i])'
    BY DEF Talking, PairTalk, TypeInv
<1> QED
    BY <1>1, <1>2 DEF TypeInv, TalksInv

\* A conversation ends, or is given up by the client.
LEMMA TalksEnd ==
    ASSUME TypeInv, NEW k \in Conn, NEW h, server[k] # NoRequest,
           server' = [server EXCEPT ![k] = h], h = NoRequest \/ h.client = Nobody,
           NEW p, client' = IF server[k].client \in Client
                            THEN [client EXCEPT ![server[k].client] = p] ELSE client
    PROVE  TalksInv'
<1>1. \A i \in Conn, d \in Client : Talking(i, d)' => i # k /\ Talking(i, d)
    BY RemoteAgentAssumption DEF Talking, TypeInv
<1>2. \A i \in Conn, d \in Client : Talking(i, d)' => d # server[k].client
    BY <1>1 DEF TypeInv, TalksInv, Talking
<1>3. \A d \in Client : d # server[k].client => client'[d] = client[d]
    BY DEF TypeInv
<1>4. \A i \in Conn : i # k => server'[i] = server[i]
    BY DEF TypeInv
<1> QED
    BY <1>1, <1>2, <1>3, <1>4 DEF TypeInv, TalksInv, PairTalk

----------------------------------------------------------------------------
(* What a client becomes by an answer.                                     *)

LEMMA IdleType == Idle \in ClientState
BY DEF Idle, ClientState

LEMMA ReportingType ==
    ASSUME NEW a \in Agent, NEW j \in Job, NEW status \in EndStatus
    PROVE  Reporting(a, j, status) \in ClientState
BY DEF Reporting, ClientState, ReportingState

LEMMA FailedType == \A p \in ClientState : Failed(p) \in ClientState
<1> SUFFICES ASSUME NEW p \in ClientState PROVE Failed(p) \in ClientState
    OBVIOUS
<1>1. CASE p.pc = "uploading"
    <2>1. p \in Sending
        BY <1>1 DEF ClientState, Probing, RecordingState, ReportingState
    <2>2. CASE p.tries > 0
        <3> DEFINE fewer == p.tries - 1
        <3>1. fewer \in Nat
            BY <2>1, <2>2 DEF Sending
        <3> HIDE DEF fewer
        <3>2. [p EXCEPT !.pc = "sending", !.tries = fewer] \in Sending
            BY <2>1, <3>1 DEF Sending
        <3> QED
            BY <1>1, <2>2, <3>2 DEF Failed, ClientState, fewer
    <2>3. CASE p.tries = 0 /\ p.req.job # 0
        <3>1. p.puller \in Agent /\ p.req.job \in Job
            BY <2>1, <2>3 DEF Sending, Cause, UploadRequest, JobOrNone
        <3>2. Failed(p) = Reporting(p.puller, p.req.job, "failed")
            BY <1>1, <2>3 DEF Failed
        <3> QED
            BY <3>1, <3>2, ReportingType DEF EndStatus
    <2>4. CASE p.tries = 0 /\ p.req.job = 0
        BY <1>1, <2>4, IdleType DEF Failed
    <2> QED
        BY <2>1, <2>2, <2>3, <2>4 DEF Sending
<1>2. CASE p.pc = "completing" /\ p.status = "succeeded"
    <2>1. p \in ReportingState
        BY <1>2 DEF ClientState, Probing, RecordingState, Sending
    <2>2. Failed(p) = Reporting(p.agent, p.job, "failed")
        BY <1>2 DEF Failed
    <2> QED
        BY <2>1, <2>2, ReportingType DEF ReportingState, EndStatus
<1>3. CASE p.pc # "uploading" /\ ~(p.pc = "completing" /\ p.status = "succeeded")
    BY <1>3, IdleType DEF Failed
<1> QED
    BY <1>1, <1>2, <1>3

LEMMA UploadedType ==
    ASSUME NEW file \in FileState, NEW r \in UploadRequest
    PROVE  Uploaded(file, r) \in FileState
<1>1. [s \in Source |-> IF s \in r.bundled THEN r.gen[s] ELSE file.gen[s]] \in Generations
    BY DEF FileState, UploadRequest, Generations
<1>2. [s \in Source |-> IF s \in r.bundled THEN r.data[s] ELSE file.sum[s]]
          \in [Source -> 0..MaxVersion \cup {Unreadable}]
    BY DEF FileState, UploadRequest
<1> QED
    BY <1>1, <1>2 DEF Uploaded, FileState

LEMMA RecordingType ==
    ASSUME NEW file \in FileState, NEW a \in Agent \cup {Nobody}, NEW j \in JobOrNone, Cause(a, j)
    PROVE  Recording(file, a, j) \in ClientState
BY DEF Recording, RecordingState, ClientState

LEMMA SucceededType ==
    ASSUME NEW p \in ClientState, NEW answer \in Answer,
           p.pc = "pairing" => answer.agent \in Agent
    PROVE  Succeeded(p, answer) \in ClientState
<1>1. CASE p.pc = "pairing"
    <2> DEFINE file == [agent |-> answer.agent, gen |-> [s \in Source |-> 0],
                        sum |-> [s \in Source |-> 0]]
    <2>1. file \in FileState
        BY <1>1, RemoteAgentAssumption DEF FileState, Generations
    <2>2. Succeeded(p, answer) = Recording(file, Nobody, 0)
        BY <1>1 DEF Succeeded
    <2> QED
        BY <2>1, <2>2, RecordingType DEF Cause, Job, JobOrNone
<1>2. CASE p.pc = "leasing" /\ answer.job # 0
    <2>1. p.agent \in Agent
        BY <1>2 DEF ClientState, Probing, RecordingState, Sending, ReportingState
    <2>2. answer.job \in Job /\ answer.scope \in SUBSET Source
        BY <1>2 DEF Answer, JobOrNone
    <2>3. Succeeded(p, answer) = [pc |-> "leased", agent |-> p.agent, job |-> answer.job,
                                  scope |-> answer.scope]
        BY <1>2 DEF Succeeded
    <2> QED
        BY <2>1, <2>2, <2>3 DEF ClientState
<1>3. CASE p.pc = "uploading"
    <2>1. p \in Sending
        BY <1>3 DEF ClientState, Probing, RecordingState, ReportingState
    <2>2. Succeeded(p, answer) = Recording(Uploaded(p.file, p.req), p.puller, p.req.job)
        BY <1>3 DEF Succeeded
    <2>3. p.req.job \in JobOrNone /\ Uploaded(p.file, p.req) \in FileState
        BY <2>1, UploadedType DEF Sending, UploadRequest
    <2> QED
        BY <2>1, <2>2, <2>3, RecordingType DEF Sending
<1>4. CASE p.pc \notin {"pairing", "uploading"} /\ ~(p.pc = "leasing" /\ answer.job # 0)
    BY <1>4, IdleType DEF Succeeded
<1> QED
    BY <1>1, <1>2, <1>3, <1>4

----------------------------------------------------------------------------
(* What a handler becomes.                                                 *)

LEMMA HandlerShape ==
    ASSUME NEW h \in Handler
    PROVE  /\ h # NoRequest => h.client \in Asker
           /\ h.stage = "arriving" => h \in Arriving
           /\ h.stage = "storing" => h \in Storing
           /\ h.stage \in {"saving", "opened"} => h \in Saving
           /\ h.stage = "answering" => h \in Answering
           /\ h = NoRequest <=> h.stage = "free"
BY DEF Handler, NoRequest, Arriving, Storing, Saving, Answering

\* The oldest of some jobs is one of them.
LEMMA OldestIn ==
    ASSUME NEW jobs \in SUBSET Job, jobs # {}
    PROVE  Oldest(jobs) \in jobs
<1>1. \E j \in jobs : \A i \in jobs : j <= i
    <2>1. jobs \subseteq Nat
        BY RemoteAgentAssumption DEF Job
    <2>2. PICK j \in jobs : \A i \in jobs : <<i, j>> \notin OpToRel(<, Nat)
        BY <2>1, WFMin, NatLessThanWellFounded, Zenon
    <2>3. \A i \in jobs : ~(i < j)
        BY <2>1, <2>2 DEF OpToRel
    <2> QED
        BY <2>1, <2>3
<1> QED
    BY <1>1 DEF Oldest

LEMMA NoAnswerType ==
    /\ NoAnswer \in Answer /\ [NoAnswer EXCEPT !.ok = FALSE] \in Answer
    /\ [NoAnswer EXCEPT !.ok = FALSE].ok = FALSE
    /\ \A a \in Agent : [NoAnswer EXCEPT !.agent = a] \in Answer
                        /\ [NoAnswer EXCEPT !.agent = a].agent = a
    /\ \A j \in Job, scope \in SUBSET Source : [NoAnswer EXCEPT !.job = j, !.scope = scope] \in Answer
BY DEF NoAnswer, Answer, JobOrNone

LEMMA SetStateType ==
    ASSUME TypeInv, NEW k \in Conn, NEW st \in ControlState, NEW answer \in Answer,
           NEW c, c = IF server[k] = NoRequest THEN Nobody ELSE server[k].client,
           server[k] # NoRequest /\ PairTalk(server[k]) => (answer.ok => answer.agent \in Agent),
           SetState(k, c, st, answer), client' = client
    PROVE  state' \in ControlState /\ server' \in [Conn -> Handler] /\ TalksInv'
<1> DEFINE h == [stage |-> "saving", client |-> c, save |-> st, fd |-> "none", answer |-> answer]
<1>1. server' = [server EXCEPT ![k] = h] /\ state' = st
    BY DEF SetState
<1>2. server[k] \in Handler
    BY DEF TypeInv
<1>3. c \in Asker
    BY <1>2, HandlerShape DEF Asker
<1>4. h \in Handler
    BY <1>3 DEF Handler, Saving
<1>5. server[k] # NoRequest /\ PairTalk(server[k]) => PairTalk(h)
    BY DEF PairTalk
<1>6. IF server[k] = NoRequest THEN h.client = Nobody ELSE h.client = server[k].client
    OBVIOUS
<1>7. TalksInv'
    BY <1>1, <1>5, <1>6, TalksServe
<1> QED
    BY <1>1, <1>4, <1>7 DEF TypeInv

LEMMA RespondType ==
    ASSUME TypeInv, NEW k \in Conn, NEW answer \in Answer, server[k] # NoRequest,
           PairTalk(server[k]) => (answer.ok => answer.agent \in Agent),
           Respond(k, answer), client' = client
    PROVE  server' \in [Conn -> Handler] /\ TalksInv'
<1> DEFINE h == [stage |-> "answering", client |-> server[k].client, answer |-> answer]
<1>1. server' = [server EXCEPT ![k] = h]
    BY DEF Respond
<1>2. server[k] \in Handler
    BY DEF TypeInv
<1>3. h \in Handler
    BY <1>2, HandlerShape DEF Handler, Answering
<1>4. PairTalk(server[k]) => PairTalk(h)
    BY DEF PairTalk
<1>5. h.client = server[k].client
    OBVIOUS
<1>6. TalksInv'
    BY <1>1, <1>4, <1>5, TalksServe
<1> QED
    BY <1>1, <1>3, <1>6 DEF TypeInv

LEMMA RefuseType ==
    ASSUME TypeInv, NEW k \in Conn, server[k] # NoRequest, Refuse(k), client' = client
    PROVE  state' = state /\ server' \in [Conn -> Handler] /\ TalksInv'
BY RespondType, NoAnswerType DEF Refuse

\* A request that has arrived is of its kind, and not a pairing unless it says so.
LEMMA AsksShape ==
    ASSUME TypeInv, NEW k \in Conn, NEW kind, Asks(k, kind)
    PROVE  /\ server[k] # NoRequest
           /\ kind = "lease" => server[k].req.agent \in Agent
           /\ kind = "complete" => /\ server[k].req.agent \in Agent /\ server[k].req.job \in Job
                                   /\ server[k].req.status \in EndStatus
           /\ kind = "upload" => server[k].req \in UploadRequest
           /\ kind # "pair" => ~PairTalk(server[k])
<1>1. server[k] \in Arriving /\ server[k].req.kind = kind
    BY HandlerShape DEF TypeInv, Asks
<1>2. server[k].req \in Request /\ server[k].stage = "arriving"
    BY <1>1 DEF Arriving
<1> QED
    BY <1>1, <1>2 DEF Asks, Free, PairTalk, Request, UploadRequest

----------------------------------------------------------------------------
(* Types.                                                                  *)

LEMMA TypeInit == Init => TypeInv
<1> SUFFICES ASSUME Init PROVE TypeInv
    OBVIOUS
<1>1. TypeOK
    BY EmptyType, RemoteAgentAssumption DEF Init, TypeOK
<1>2. client \in [Client -> ClientState]
    BY IdleType DEF Init
<1>3. server \in [Conn -> Handler]
    BY DEF Init, Handler
<1>4. TalksInv
    BY DEF Init, TalksInv, Talking
<1> QED
    BY <1>1, <1>2, <1>3, <1>4 DEF TypeInv

\* What the assistants, time, and the clients do.
LEMMA ClientTypeStep ==
    ASSUME TypeInv, NEW c \in Client
    PROVE  /\ \A k \in Conn : BeginPair(c, k) => TypeInv'
           /\ \A k \in Conn : BeginPull(c, k) => TypeInv'
           /\ \A scope \in Scopes : BeginUpload(c, scope) => TypeInv'
           /\ ReadLocalState(c) => TypeInv'
           /\ \A presence \in [Source -> Presences] : Probe(c, presence) => TypeInv'
           /\ \A k \in Conn : SendUpload(c, k) => TypeInv'
           /\ WriteLocalState(c) => TypeInv'
           /\ \A k \in Conn : Report(c, k) => TypeInv'
           /\ CommandFails(c) => TypeInv'
           /\ \A torn \in BOOLEAN : Kill(c, torn) => TypeInv'
<1> USE DEF hosts, files, history
<1>a. /\ client[c] \in ClientState /\ HostOf[c] \in Host
      /\ Readable(HostOf[c]) => local[HostOf[c]] \in FileState /\ local[HostOf[c]].agent \in Agent
    BY RemoteAgentAssumption DEF TypeInv, TypeOK, Readable, FileState
<1>b. /\ client[c].pc = "leased" => client[c].agent \in Agent /\ client[c].job \in Job
                                    /\ client[c].scope \in SUBSET Source
      /\ client[c].pc = "probing" => client[c] \in Probing
      /\ client[c].pc \in {"sending", "uploading"} => client[c] \in Sending
      /\ client[c].pc = "recording" => client[c] \in RecordingState
      /\ client[c].pc \in {"reporting", "completing"} => client[c] \in ReportingState
    BY <1>a DEF ClientState, Probing, Sending, RecordingState, ReportingState
<1>c. client[c] = Idle => client[c].pc = "idle"
    BY DEF Idle
<1>d. ASSUME NEW k \in Conn, NEW req \in Request, NEW p \in ClientState, Send(c, k, req),
             client' = [client EXCEPT ![c] = p]
      PROVE  client' \in [Client -> ClientState] /\ server' \in [Conn -> Handler]
    <2>1. [stage |-> "arriving", client |-> c, req |-> req] \in Handler
        BY DEF Handler, Arriving, Asker
    <2> QED
        BY <1>d, <2>1 DEF Send, TypeInv
<1>e. ASSUME NEW p \in ClientState, client[c].pc \notin WaitingPc, server' = server,
             client' = [client EXCEPT ![c] = p]
      PROVE  client' \in [Client -> ClientState] /\ server' \in [Conn -> Handler] /\ TalksInv'
    BY <1>e, TalksAlone DEF TypeInv
<1>1. ASSUME NEW k \in Conn, BeginPair(c, k) PROVE TypeInv'
    <2>1. [kind |-> "pair"] \in Request /\ [pc |-> "pairing"] \in ClientState
        BY DEF Request, ClientState
    <2>2. client' \in [Client -> ClientState] /\ server' \in [Conn -> Handler]
        BY <1>1, <1>d, <2>1 DEF BeginPair
    <2>3. TalksInv'
        BY <1>1, <1>c, TalksSend DEF BeginPair, WaitingPc
    <2> QED
        BY <1>1, <2>2, <2>3 DEF BeginPair, TypeInv, TypeOK
<1>2. ASSUME NEW k \in Conn, BeginPull(c, k) PROVE TypeInv'
    <2> DEFINE a == local[HostOf[c]].agent
    <2>1. a \in Agent
        BY <1>2, <1>a DEF BeginPull
    <2>2. [kind |-> "lease", agent |-> a] \in Request /\ [pc |-> "leasing", agent |-> a] \in ClientState
        BY <2>1 DEF Request, ClientState
    <2>3. client' \in [Client -> ClientState] /\ server' \in [Conn -> Handler]
        BY <1>2, <1>d, <2>2 DEF BeginPull
    <2>4. TalksInv'
        BY <1>2, <1>c, TalksSend DEF BeginPull, WaitingPc
    <2> QED
        BY <1>2, <2>3, <2>4 DEF BeginPull, TypeInv, TypeOK
<1>3. ASSUME NEW scope \in Scopes, BeginUpload(c, scope) PROVE TypeInv'
    <2>1. scope \in SUBSET Source
        BY RemoteAgentAssumption
    <2>2. Cycle(c, Nobody, 0, scope) \in ClientState
        BY <1>3, <1>a, <2>1 DEF BeginUpload, Cycle, ClientState, Probing, Cause, JobOrNone, Job
    <2>3. client' \in [Client -> ClientState] /\ server' \in [Conn -> Handler] /\ TalksInv'
        BY <1>3, <1>c, <1>e, <2>2 DEF BeginUpload, WaitingPc
    <2> QED
        BY <1>3, <2>3 DEF BeginUpload, TypeInv, TypeOK
<1>4. ASSUME ReadLocalState(c) PROVE TypeInv'
    <2> DEFINE p == IF Readable(HostOf[c])
                    THEN Cycle(c, client[c].agent, client[c].job, client[c].scope)
                    ELSE Reporting(client[c].agent, client[c].job, "failed")
    <2>1. client[c].pc = "leased" /\ client' = [client EXCEPT ![c] = p]
        BY <1>4 DEF ReadLocalState
    <2>2. Readable(HostOf[c]) => p \in ClientState
        BY <1>a, <1>b, <2>1 DEF Cycle, ClientState, Probing, Cause, JobOrNone
    <2>3. p \in ClientState
        BY <1>b, <2>1, <2>2, ReportingType DEF EndStatus
    <2>4. client' \in [Client -> ClientState] /\ server' \in [Conn -> Handler] /\ TalksInv'
        BY <1>4, <1>e, <2>1, <2>3 DEF ReadLocalState, WaitingPc
    <2> QED
        BY <1>4, <2>4 DEF ReadLocalState, TypeInv, TypeOK
<1>5. ASSUME NEW presence \in [Source -> Presences], Probe(c, presence) PROVE TypeInv'
    <2> DEFINE p == client[c]
               listed == {s \in p.scope : OwnerOf[s] = HostOf[c]}
               bundled == {s \in listed : presence[s] # "absent"}
               data == [s \in Source |-> IF presence[s] = "unreadable" THEN Unreadable
                                         ELSE version[s]]
               gen == [s \in Source |-> p.file.gen[s] + (IF s \in bundled THEN 1 ELSE 0)]
               req == [kind |-> "upload", agent |-> p.file.agent, job |-> p.job,
                       listed |-> listed, bundled |-> bundled, gen |-> gen, data |-> data]
               sending == [pc |-> "sending", file |-> p.file, puller |-> p.puller,
                           tries |-> Retries, req |-> req]
    <2>1. /\ p.pc = "probing" /\ \A s \in bundled : p.file.gen[s] < MaxGeneration
          /\ client' = [client EXCEPT ![c] = sending] /\ server' = server
        BY <1>5 DEF Probe
    <2>2. /\ p.file \in FileState /\ p.scope \in SUBSET Source /\ p.job \in JobOrNone
          /\ p.puller \in Agent \cup {Nobody} /\ Cause(p.puller, p.job)
        BY <1>b, <2>1 DEF Probing
    <2>3. listed \in SUBSET Source /\ bundled \in SUBSET Source
        BY <2>2
    <2>4. gen \in Generations
        <3>1. \A s \in Source : p.file.gen[s] \in 0..MaxGeneration
            BY <2>2 DEF FileState, Generations
        <3> QED
            BY <2>1, <3>1, RemoteAgentAssumption DEF Generations
    <2>5. data \in [Source -> 0..MaxVersion \cup {Unreadable}]
        BY RemoteAgentAssumption DEF TypeInv, TypeOK
    <2>6. req \in UploadRequest
        BY <2>2, <2>3, <2>4, <2>5 DEF UploadRequest, FileState
    <2>7. sending \in ClientState
        BY <2>2, <2>6, RemoteAgentAssumption DEF ClientState, Sending
    <2>8. client' \in [Client -> ClientState] /\ server' \in [Conn -> Handler] /\ TalksInv'
        BY <1>e, <2>1, <2>7 DEF WaitingPc
    <2> QED
        BY <1>5, <2>8 DEF Probe, TypeInv, TypeOK
<1>6. ASSUME NEW k \in Conn, SendUpload(c, k) PROVE TypeInv'
    <2>1. client[c] \in Sending /\ client[c].pc = "sending"
        BY <1>6, <1>b DEF SendUpload
    <2>2. client[c].req \in Request /\ [client[c] EXCEPT !.pc = "uploading"] \in ClientState
        BY <2>1 DEF Sending, Request, ClientState
    <2>3. client' = [client EXCEPT ![c] = [client[c] EXCEPT !.pc = "uploading"]]
        BY <1>6 DEF SendUpload, TypeInv
    <2>4. client' \in [Client -> ClientState] /\ server' \in [Conn -> Handler]
        BY <1>6, <1>d, <2>2, <2>3 DEF SendUpload
    <2>5. [client[c] EXCEPT !.pc = "uploading"].pc = "uploading"
        BY <2>1 DEF Sending
    <2>6. TalksInv'
        BY <1>6, <2>1, <2>3, <2>5, TalksSend DEF SendUpload, WaitingPc
    <2> QED
        BY <1>6, <2>4, <2>6 DEF SendUpload, TypeInv, TypeOK
<1>7. ASSUME WriteLocalState(c) PROVE TypeInv'
    <2>1. client[c] \in RecordingState /\ client[c].pc = "recording"
        BY <1>7, <1>b DEF WriteLocalState
    <2>2. client[c].file \in FileState
        BY <2>1 DEF RecordingState
    <2> DEFINE p == IF client[c].job = 0 THEN Idle
                    ELSE Reporting(client[c].puller, client[c].job, "succeeded")
    <2>3. p \in ClientState
        BY <2>1, IdleType, ReportingType DEF RecordingState, Cause, JobOrNone, EndStatus
    <2>4. client' \in [Client -> ClientState] /\ server' \in [Conn -> Handler] /\ TalksInv'
        BY <1>7, <1>e, <2>1, <2>3 DEF WriteLocalState, WaitingPc
    <2>5. local' \in [Host -> FileState \cup {NoFile, Torn}]
        BY <1>7, <1>a, <2>2 DEF WriteLocalState, TypeInv, TypeOK
    <2> QED
        BY <1>7, <2>4, <2>5 DEF WriteLocalState, TypeInv, TypeOK
<1>8. ASSUME NEW k \in Conn, Report(c, k) PROVE TypeInv'
    <2> DEFINE req == [kind |-> "complete", agent |-> client[c].agent, job |-> client[c].job,
                       status |-> client[c].status]
    <2>1. client[c] \in ReportingState /\ client[c].pc = "reporting"
        BY <1>8, <1>b DEF Report
    <2>2. req \in Request /\ [client[c] EXCEPT !.pc = "completing"] \in ClientState
        BY <2>1 DEF ReportingState, Request, ClientState
    <2>3. client' = [client EXCEPT ![c] = [client[c] EXCEPT !.pc = "completing"]]
        BY <1>8 DEF Report, TypeInv
    <2>4. client' \in [Client -> ClientState] /\ server' \in [Conn -> Handler]
        BY <1>8, <1>d, <2>2, <2>3 DEF Report
    <2>5. [client[c] EXCEPT !.pc = "completing"].pc = "completing"
        BY <2>1 DEF ReportingState
    <2>6. TalksInv'
        BY <1>8, <2>1, <2>3, <2>5, TalksSend DEF Report, WaitingPc
    <2> QED
        BY <1>8, <2>4, <2>6 DEF Report, TypeInv, TypeOK
<1>9. ASSUME CommandFails(c) PROVE TypeInv'
    <2> DEFINE p == IF client[c].job = 0 THEN Idle
                    ELSE Reporting(client[c].puller, client[c].job, "failed")
    <2>1. client[c] \in RecordingState \cup Probing /\ client[c].pc \in {"recording", "probing"}
        BY <1>9, <1>b DEF CommandFails
    <2>2. p \in ClientState
        BY <2>1, IdleType, ReportingType DEF RecordingState, Probing, Cause, JobOrNone, EndStatus
    <2>3. client' \in [Client -> ClientState] /\ server' \in [Conn -> Handler] /\ TalksInv'
        BY <1>9, <1>e, <2>1, <2>2 DEF CommandFails, WaitingPc
    <2> QED
        BY <1>9, <2>3 DEF CommandFails, TypeInv, TypeOK
<1>10. ASSUME NEW torn \in BOOLEAN, Kill(c, torn) PROVE TypeInv'
    <2>1. \A i \in Conn : ~Talking(i, c)
        BY <1>10 DEF Kill, Waiting, Free, Talking
    <2>2. client' = [client EXCEPT ![c] = Idle] /\ server' = server
        BY <1>10 DEF Kill
    <2>3. TalksInv'
        BY <2>1, <2>2 DEF TypeInv, TalksInv, Talking, PairTalk
    <2>4. local' \in [Host -> FileState \cup {NoFile, Torn}]
        BY <1>10 DEF Kill, TypeInv, TypeOK
    <2> QED
        BY <1>10, <2>2, <2>3, <2>4, IdleType DEF Kill, TypeInv, TypeOK
<1> QED
    BY <1>1, <1>2, <1>3, <1>4, <1>5, <1>6, <1>7, <1>8, <1>9, <1>10

\* Answers, losses and restarts.
LEMMA TalkTypeStep ==
    ASSUME TypeInv, NEW k \in Conn
    PROVE  /\ Receive(k) => TypeInv'
           /\ LoseMessage(k) => TypeInv'
           /\ Abandon(k) => TypeInv'
<1> USE DEF hosts, files, history
<1> DEFINE c == server[k].client
<1>a. server[k] \in Handler /\ (server[k] # NoRequest => c \in Asker)
    BY HandlerShape DEF TypeInv
<1>b. NoRequest \in Handler
    BY DEF Handler
<1>1. ASSUME Receive(k) PROVE TypeInv'
    <2>1. server[k] \in Answering /\ server[k] # NoRequest /\ server[k].stage = "answering"
        BY <1>1, <1>a, HandlerShape DEF Receive, NoRequest
    <2> DEFINE p == IF server[k].answer.ok THEN Succeeded(client[c], server[k].answer)
                    ELSE Failed(client[c])
    <2>2. c \in Client => p \in ClientState
        <3> SUFFICES ASSUME c \in Client PROVE p \in ClientState
            OBVIOUS
        <3>1. client[c] \in ClientState /\ server[k].answer \in Answer
            BY <2>1 DEF TypeInv, Answering
        <3>2. client[c].pc = "pairing" /\ server[k].answer.ok => server[k].answer.agent \in Agent
            BY <2>1 DEF TypeInv, TalksInv, Talking, PairTalk
        <3> QED
            BY <3>1, <3>2, SucceededType, FailedType
    <2>3. c \in Client <=> c # Nobody
        BY <1>a, <2>1, RemoteAgentAssumption DEF Asker
    <2>4. /\ client' = IF c \in Client THEN [client EXCEPT ![c] = p] ELSE client
          /\ server' = [server EXCEPT ![k] = NoRequest]
        BY <1>1, <2>3 DEF Receive, TypeInv
    <2>5. TalksInv'
        BY <2>1, <2>4, TalksEnd
    <2>6. client' \in [Client -> ClientState] /\ server' \in [Conn -> Handler]
        BY <1>b, <2>2, <2>4 DEF TypeInv
    <2> QED
        BY <1>1, <2>5, <2>6 DEF Receive, TypeInv, TypeOK
<1>2. ASSUME LoseMessage(k) PROVE TypeInv'
    <2>1. server[k] # NoRequest /\ c \in Client
        BY <1>2, <1>a DEF LoseMessage, Free, Asker
    <2>2. /\ client' = [client EXCEPT ![c] = Failed(client[c])]
          /\ server' = [server EXCEPT ![k] = NoRequest]
        BY <1>2, <2>1 DEF LoseMessage, TypeInv
    <2>3. TalksInv'
        BY <2>1, <2>2, TalksEnd
    <2>4. client' \in [Client -> ClientState] /\ server' \in [Conn -> Handler]
        BY <1>b, <2>1, <2>2, FailedType DEF TypeInv
    <2> QED
        BY <1>2, <2>3, <2>4 DEF LoseMessage, TypeInv, TypeOK
<1>3. ASSUME Abandon(k) PROVE TypeInv'
    <2> DEFINE h == [server[k] EXCEPT !.client = Nobody]
    <2>1. server[k] # NoRequest /\ c \in Client
        BY <1>3, <1>a DEF Abandon, Free, Asker
    <2>2. /\ client' = [client EXCEPT ![c] = Failed(client[c])]
          /\ server' = [server EXCEPT ![k] = h]
        BY <1>3, <2>1 DEF Abandon, TypeInv
    <2>3. h \in Handler /\ h.client = Nobody
        BY <1>a, <2>1 DEF Handler, Arriving, Storing, Saving, Answering, Asker
    <2>4. TalksInv'
        BY <2>1, <2>2, <2>3, TalksEnd
    <2>5. client' \in [Client -> ClientState] /\ server' \in [Conn -> Handler]
        BY <2>1, <2>2, <2>3, FailedType DEF TypeInv
    <2> QED
        BY <1>3, <2>4, <2>5 DEF Abandon, TypeInv, TypeOK
<1> QED
    BY <1>1, <1>2, <1>3

LEMMA CrashTypeStep == TypeInv /\ CrashServer => TypeInv'
<1> SUFFICES ASSUME TypeInv, CrashServer PROVE TypeInv'
    OBVIOUS
<1>1. state' \in ControlState
    BY EmptyType DEF CrashServer, ReadState, TypeInv, TypeOK
<1>2. client' \in [Client -> ClientState]
    BY FailedType DEF CrashServer, TypeInv
<1>3. server' \in [Conn -> Handler]
    BY DEF CrashServer, Handler
<1>4. TalksInv'
    BY DEF CrashServer, TalksInv, Talking
<1> QED
    BY <1>1, <1>2, <1>3, <1>4 DEF CrashServer, TypeInv, TypeOK, files, history

\* The server's handlers.
LEMMA HandlerTypeStep ==
    ASSUME TypeInv, NEW k \in Conn
    PROVE  /\ \A a \in Agent : Pair(k, a) => TypeInv'
           /\ \A a \in Agent, labels \in SUBSET Label : Relabel(k, a, labels) => TypeInv'
           /\ \A selector \in Selectors, scope \in Scopes, expected \in Expectations :
                 CreateJob(k, selector, scope, expected) => TypeInv'
           /\ LeaseJob(k) => TypeInv'
           /\ CompleteJob(k) => TypeInv'
           /\ ReceiveUpload(k) => TypeInv'
           /\ \A s \in Source : StorePayload(k, s) => TypeInv'
           /\ RejectStale(k) => TypeInv'
           /\ StoreFails(k) => TypeInv'
<1> USE DEF hosts, files, history
<1>a. state \in ControlState
    BY DEF TypeInv, TypeOK
<1>b. Nobody \notin Agent /\ NoAnswer \in Answer
    BY NoAnswerType, RemoteAgentAssumption
<1>c. server[k].stage = "storing" => /\ server[k] # NoRequest /\ ~PairTalk(server[k])
                                     /\ server[k] \in Storing
    BY HandlerShape DEF TypeInv, PairTalk, NoRequest
<1>d. ASSUME NEW st \in ControlState, NEW answer \in Answer,
             SetState(k, server[k].client, st, answer), client' = client, server[k] # NoRequest,
             ~PairTalk(server[k])
      PROVE  state' \in ControlState /\ server' \in [Conn -> Handler] /\ TalksInv'
    BY <1>d, SetStateType
<1>e. \A j \in Job, a \in Agent, l \in 0..MaxLeases,
          status \in AnyStatus :
              WithStatus(state, j, a, status, l) \in ControlState
    BY <1>a, WithStatusType
<1>1. ASSUME NEW a \in Agent, Pair(k, a) PROVE TypeInv'
    <2>1. server[k] # NoRequest
        BY <1>1 DEF Pair, Arrives, Asks, Free
    <2>2. state' \in ControlState /\ server' \in [Conn -> Handler] /\ TalksInv'
        BY <1>1, <1>a, <2>1, AgentType, NoAnswerType, SetStateType DEF Pair
    <2> QED
        BY <1>1, <2>2 DEF Pair, TypeInv, TypeOK
<1>2. ASSUME NEW a \in Agent, NEW labels \in SUBSET Label, Relabel(k, a, labels) PROVE TypeInv'
    <2>1. server[k] = NoRequest
        BY <1>2 DEF Relabel, Free
    <2>2. state' \in ControlState /\ server' \in [Conn -> Handler] /\ TalksInv'
        BY <1>2, <1>a, <1>b, <2>1, AgentType, SetStateType DEF Relabel
    <2> QED
        BY <1>2, <2>2 DEF Relabel, TypeInv, TypeOK
<1>3. ASSUME NEW selector \in Selectors, NEW scope \in Scopes, NEW expected \in Expectations,
             CreateJob(k, selector, scope, expected)
      PROVE  TypeInv'
    <2>1. server[k] = NoRequest
        BY <1>3 DEF CreateJob, Free
    <2>2. created + 1 \in Job /\ created' \in 0..MaxJobs
        BY <1>3, RemoteAgentAssumption DEF CreateJob, Job, TypeInv, TypeOK
    <2>3. state' \in ControlState /\ server' \in [Conn -> Handler] /\ TalksInv'
        BY <1>3, <1>a, <1>b, <2>1, <2>2, WithJobType, SetStateType DEF CreateJob
    <2> QED
        BY <1>3, <2>2, <2>3 DEF CreateJob, TypeInv, TypeOK
<1>4. ASSUME LeaseJob(k) PROVE TypeInv'
    <2> DEFINE a == server[k].req.agent
               active == {j \in Job : HasActiveLease(state, j, a)}
               candidates == {j \in Job : IsLeaseCandidate(state, j, a)}
               answer(st, j) == [NoAnswer EXCEPT !.job = j, !.scope = st.jobs[j].scope]
    <2>1. server[k] # NoRequest /\ a \in Agent /\ ~PairTalk(server[k])
        BY <1>4, AsksShape DEF LeaseJob, Arrives
    <2>2. \A st \in ControlState, j \in Job : answer(st, j) \in Answer
        BY NoAnswerType DEF ControlState, JobRecord
    <2>3. CASE ~state.agents[a].known
        BY <1>4, <1>a, <2>1, <2>3, RefuseType DEF LeaseJob, TypeInv, TypeOK
    <2>4. CASE state.agents[a].known /\ active # {}
        <3>1. Oldest(active) \in Job
            BY <2>4, OldestIn
        <3>2. SetState(k, server[k].client, state, answer(state, Oldest(active)))
              /\ UNCHANGED leases
            BY <1>4, <2>4 DEF LeaseJob
        <3>3. state' \in ControlState /\ server' \in [Conn -> Handler] /\ TalksInv'
            BY <1>4, <1>a, <1>d, <2>1, <2>2, <3>1, <3>2 DEF LeaseJob
        <3> QED
            BY <1>4, <3>2, <3>3 DEF LeaseJob, TypeInv, TypeOK
    <2>5. CASE state.agents[a].known /\ active = {} /\ candidates # {}
        <3> DEFINE j == Oldest(candidates)
                   st == WithStatus(state, j, a, "leased", leases + 1)
        <3>1. j \in Job
            BY <2>5, OldestIn
        <3>2. /\ leases < MaxLeases /\ leases' = leases + 1
              /\ SetState(k, server[k].client, st, answer(st, j))
            BY <1>4, <2>5 DEF LeaseJob
        <3>3. leases' \in 0..MaxLeases /\ expired \subseteq 1..leases'
            BY <3>2, RemoteAgentAssumption DEF TypeInv, TypeOK
        <3>4. st \in ControlState
            BY <1>e, <2>1, <3>1, <3>2, <3>3, Statuses
        <3>5. state' \in ControlState /\ server' \in [Conn -> Handler] /\ TalksInv'
            BY <1>4, <1>d, <2>1, <2>2, <3>1, <3>2, <3>4 DEF LeaseJob
        <3> QED
            BY <1>4, <3>3, <3>5 DEF LeaseJob, TypeInv, TypeOK
    <2>6. CASE state.agents[a].known /\ active = {} /\ candidates = {}
        <3>1. SetState(k, server[k].client, state, NoAnswer) /\ UNCHANGED leases
            BY <1>4, <2>6 DEF LeaseJob
        <3>2. state' \in ControlState /\ server' \in [Conn -> Handler] /\ TalksInv'
            BY <1>4, <1>a, <1>b, <1>d, <2>1, <3>1 DEF LeaseJob
        <3> QED
            BY <1>4, <3>1, <3>2 DEF LeaseJob, TypeInv, TypeOK
    <2> QED
        BY <2>3, <2>4, <2>5, <2>6
<1>5. ASSUME CompleteJob(k) PROVE TypeInv'
    <2> DEFINE r == server[k].req
    <2>1. /\ server[k] # NoRequest /\ ~PairTalk(server[k])
          /\ r.agent \in Agent /\ r.job \in Job /\ r.status \in EndStatus
        BY <1>5, AsksShape DEF CompleteJob, Arrives
    <2>2. state.jobs[r.job].lease[r.agent] \in 0..MaxLeases
        BY <1>a, <2>1 DEF ControlState, JobRecord
    <2>3. WithStatus(state, r.job, r.agent, r.status, state.jobs[r.job].lease[r.agent])
             \in ControlState
        BY <1>e, <2>1, <2>2, Statuses
    <2>4. state' \in ControlState /\ server' \in [Conn -> Handler] /\ TalksInv'
        BY <1>5, <1>a, <1>b, <1>d, <2>1, <2>3, RefuseType DEF CompleteJob
    <2> QED
        BY <1>5, <2>4 DEF CompleteJob, TypeInv, TypeOK
<1>6. ASSUME ReceiveUpload(k) PROVE TypeInv'
    <2> DEFINE r == server[k].req
               h == [stage |-> "storing", client |-> server[k].client, req |-> r,
                     snap |-> state, left |-> r.bundled]
    <2>1. server[k] # NoRequest /\ ~PairTalk(server[k]) /\ r \in UploadRequest
        BY <1>6, AsksShape DEF ReceiveUpload, Arrives
    <2>2. CASE Acceptable(state, r) /\ r.bundled # {}
        <3>1. server' = [server EXCEPT ![k] = h] /\ state' = state /\ client' = client
            BY <1>6, <2>2 DEF ReceiveUpload
        <3>2. server[k].client \in Asker /\ r.bundled \in SUBSET Source
            BY <2>1, HandlerShape DEF TypeInv, UploadRequest
        <3>3. h \in Handler
            BY <1>a, <2>1, <3>2 DEF Handler, Storing
        <3>4. TalksInv'
            BY <2>1, <3>1, TalksServe
        <3> QED
            BY <1>6, <3>1, <3>3, <3>4 DEF ReceiveUpload, TypeInv, TypeOK
    <2>3. CASE ~(Acceptable(state, r) /\ r.bundled # {})
        <3>1. state' \in ControlState /\ server' \in [Conn -> Handler] /\ TalksInv'
            BY <1>6, <1>a, <1>b, <1>d, <2>1, <2>3, AfterUploadType, RefuseType DEF ReceiveUpload
        <3> QED
            BY <1>6, <3>1 DEF ReceiveUpload, TypeInv, TypeOK
    <2> QED
        BY <2>2, <2>3
<1>7. ASSUME NEW s \in Source, StorePayload(k, s) PROVE TypeInv'
    <2> DEFINE h == server[k]
    <2>1. /\ h # NoRequest /\ ~PairTalk(h) /\ h \in Storing
          /\ h.req \in UploadRequest /\ h.snap \in ControlState
        BY <1>7, <1>c DEF StorePayload, Storing
    <2>2. store' \in [Source -> 0..MaxVersion]
        BY <1>7, <2>1, RemoteAgentAssumption DEF StorePayload, UploadRequest, TypeInv, TypeOK
    <2>3. CASE h.left = {s}
        <3>1. state' \in ControlState /\ server' \in [Conn -> Handler] /\ TalksInv'
            BY <1>7, <1>b, <1>d, <2>1, <2>3, AfterUploadType DEF StorePayload
        <3> QED
            BY <1>7, <2>2, <3>1 DEF StorePayload, TypeInv, TypeOK
    <2>4. CASE h.left # {s}
        <3> DEFINE g == [h EXCEPT !.left = h.left \ {s}]
        <3>1. server' = [server EXCEPT ![k] = g] /\ state' = state /\ client' = client
            BY <1>7, <2>4 DEF StorePayload, TypeInv
        <3>2. g \in Handler /\ g.client = h.client
            BY <2>1 DEF Storing, Handler
        <3>3. TalksInv'
            BY <2>1, <3>1, <3>2, TalksServe
        <3> QED
            BY <1>7, <2>2, <3>1, <3>2, <3>3 DEF StorePayload, TypeInv, TypeOK
    <2> QED
        BY <2>3, <2>4
<1>8. ASSUME RejectStale(k) \/ StoreFails(k) PROVE TypeInv'
    <2>1. server[k] # NoRequest /\ Refuse(k) /\ client' = client
        BY <1>8 DEF RejectStale, StoreFails, Free
    <2>2. state' = state /\ server' \in [Conn -> Handler] /\ TalksInv'
        BY <2>1, RefuseType
    <2> QED
        BY <1>8, <2>2 DEF RejectStale, StoreFails, TypeInv, TypeOK
<1> QED
    BY <1>1, <1>2, <1>3, <1>4, <1>5, <1>6, <1>7, <1>8

\* Saving.
LEMMA SaveTypeStep ==
    ASSUME TypeInv, NEW k \in Conn
    PROVE  /\ OpenTemporary(k) => TypeInv'
           /\ \A content \in {server[k].save, Torn} : RenameTemporary(k, content) => TypeInv'
<1> USE DEF hosts, files, history
<1> DEFINE h == server[k]
<1>1. ASSUME OpenTemporary(k) PROVE TypeInv'
    <2> DEFINE g == [h EXCEPT !.stage = "opened", !.fd = "tmp"]
    <2>1. h # NoRequest /\ h.stage = "saving" /\ h \in Saving
        BY <1>1, HandlerShape DEF OpenTemporary, AtStage, Free, TypeInv
    <2>2. server' = [server EXCEPT ![k] = g]
        BY <1>1 DEF OpenTemporary, TypeInv
    <2>3. g \in Saving /\ g.client = h.client /\ (PairTalk(h) => PairTalk(g))
        BY <2>1 DEF Saving, PairTalk
    <2>4. server' \in [Conn -> Handler]
        BY <2>2, <2>3 DEF Handler, TypeInv
    <2>5. TalksInv'
        BY <1>1, <2>1, <2>2, <2>3, TalksServe DEF OpenTemporary
    <2> QED
        BY <1>1, <2>4, <2>5 DEF OpenTemporary, TypeInv, TypeOK
<1>2. ASSUME NEW content \in {server[k].save, Torn}, RenameTemporary(k, content) PROVE TypeInv'
    <2>1. h # NoRequest /\ h.stage = "opened" /\ h \in Saving
        BY <1>2, HandlerShape DEF RenameTemporary, AtStage, Free, TypeInv
    <2>2. content \in ControlState \cup {Torn} /\ client' = client
        BY <1>2, <2>1 DEF RenameTemporary, Saving
    <2>3. main' \in ControlState \cup {NoFile, Torn} /\ tmp' \in ControlState \cup {NoFile, Torn}
        BY <1>2, <2>2 DEF RenameTemporary, TypeInv, TypeOK
    <2>4. CASE tmp = NoFile
        <3>1. [NoAnswer EXCEPT !.ok = FALSE] \in Answer /\ ~[NoAnswer EXCEPT !.ok = FALSE].ok
            BY NoAnswerType
        <3>2. server' \in [Conn -> Handler] /\ TalksInv'
            BY <1>2, <2>1, <2>2, <2>4, <3>1, RespondType DEF RenameTemporary
        <3> QED
            BY <1>2, <2>3, <3>2 DEF RenameTemporary, TypeInv, TypeOK
    <2>5. CASE tmp # NoFile
        <3> DEFINE g == [stage |-> "answering", client |-> h.client, answer |-> h.answer]
        <3>1. server' = [i \in Conn |-> IF i = k THEN g ELSE Renamed(server[i])]
            BY <1>2, <2>5 DEF RenameTemporary
        <3>2. g \in Answering /\ (PairTalk(h) => PairTalk(g))
            BY <2>1 DEF Saving, Answering, PairTalk
        <3>3. \A i \in Conn : Renamed(server[i]) \in Handler
            BY HandlerShape DEF Renamed, TypeInv, Handler, Saving
        <3>4. \A i \in Conn : /\ Renamed(server[i]) = NoRequest <=> server[i] = NoRequest
                              /\ server[i] # NoRequest =>
                                    /\ Renamed(server[i]).client = server[i].client
                                    /\ PairTalk(server[i]) => PairTalk(Renamed(server[i]))
            <4> SUFFICES ASSUME NEW i \in Conn, server[i] # NoRequest, server[i].stage = "opened"
                         PROVE  /\ Renamed(server[i]) # NoRequest
                                /\ Renamed(server[i]).client = server[i].client
                                /\ PairTalk(server[i]) => PairTalk(Renamed(server[i]))
                BY DEF Renamed
            <4>1. server[i] \in Saving
                BY HandlerShape DEF TypeInv
            <4>2. Renamed(server[i]) \in Saving
                BY <4>1 DEF Renamed, Saving
            <4>3. /\ Renamed(server[i]).client = server[i].client
                  /\ Renamed(server[i]).stage = server[i].stage
                  /\ Renamed(server[i]).answer = server[i].answer
                BY <4>1 DEF Renamed, Saving
            <4> QED
                BY <4>3 DEF PairTalk, NoRequest
        <3>5. server' \in [Conn -> Handler]
            BY <3>1, <3>2, <3>3 DEF Handler
        <3>6. \A i \in Conn, c \in Client :
                  /\ Talking(i, c)' => Talking(i, c)
                  /\ Talking(i, c) /\ PairTalk(server[i]) => PairTalk(server[i])'
            BY <2>1, <3>1, <3>2, <3>4 DEF Talking
        <3>7. TalksInv'
            BY <2>2, <3>6 DEF TypeInv, TalksInv
        <3> QED
            BY <1>2, <2>3, <3>5, <3>7 DEF RenameTemporary, TypeInv, TypeOK
    <2> QED
        BY <2>4, <2>5
<1> QED
    BY <1>1, <1>2

\* The sources change, and time passes.
LEMMA WorldTypeStep ==
    ASSUME TypeInv
    PROVE  /\ \A s \in Source : EditSource(s) => TypeInv'
           /\ \A l \in 1..MaxLeases : Expire(l) => TypeInv'
           /\ UNCHANGED vars => TypeInv'
<1> USE DEF hosts, files, history
<1>1. ASSUME NEW s \in Source, EditSource(s) PROVE TypeInv'
    <2>1. version' \in [Source -> 1..MaxVersion]
        BY <1>1, RemoteAgentAssumption DEF EditSource, TypeInv, TypeOK
    <2>2. TalksInv'
        BY <1>1 DEF EditSource, TypeInv, TalksInv, Talking, PairTalk
    <2> QED
        BY <1>1, <2>1, <2>2 DEF EditSource, TypeInv, TypeOK
<1>2. ASSUME NEW l \in 1..MaxLeases, Expire(l) PROVE TypeInv'
    <2>1. expired' \subseteq 1..leases'
        BY <1>2 DEF Expire, TypeInv, TypeOK
    <2>2. TalksInv'
        BY <1>2 DEF Expire, TypeInv, TalksInv, Talking, PairTalk
    <2> QED
        BY <1>2, <2>1, <2>2 DEF Expire, TypeInv, TypeOK
<1>3. ASSUME UNCHANGED vars PROVE TypeInv'
    <2>1. TalksInv'
        BY <1>3 DEF vars, TypeInv, TalksInv, Talking, PairTalk
    <2> QED
        BY <1>3, <2>1 DEF vars, TypeInv, TypeOK
<1> QED
    BY <1>1, <1>2, <1>3

\* Next, with the actions of a client and of a handler named.
LEMMA Steps ==
    ASSUME [Next]_vars
    PROVE  \/ \E s \in Source : EditSource(s)
           \/ \E l \in 1..MaxLeases : Expire(l)
           \/ UNCHANGED vars
           \/ \E c \in Client :
                 \/ \E k \in Conn : BeginPair(c, k) \/ BeginPull(c, k) \/ SendUpload(c, k) \/ Report(c, k)
                 \/ \E scope \in Scopes : BeginUpload(c, scope)
                 \/ \E presence \in [Source -> Presences] : Probe(c, presence)
                 \/ ReadLocalState(c) \/ WriteLocalState(c) \/ CommandFails(c)
                 \/ \E torn \in BOOLEAN : Kill(c, torn)
           \/ \E k \in Conn :
                 \/ \E a \in Agent : Pair(k, a) \/ \E labels \in SUBSET Label : Relabel(k, a, labels)
                 \/ \E selector \in Selectors, scope \in Scopes, expected \in Expectations :
                       CreateJob(k, selector, scope, expected)
                 \/ LeaseJob(k) \/ CompleteJob(k) \/ ReceiveUpload(k)
                 \/ \E s \in Source : StorePayload(k, s)
                 \/ RejectStale(k) \/ StoreFails(k)
                 \/ OpenTemporary(k)
                 \/ \E content \in {server[k].save, Torn} : RenameTemporary(k, content)
                 \/ Receive(k) \/ LoseMessage(k) \/ Abandon(k)
           \/ CrashServer
BY DEF Next, Pull, Upload, Continue, Serve

LEMMA TypeStep == TypeInv /\ [Next]_vars => TypeInv'
<1> SUFFICES ASSUME TypeInv, [Next]_vars PROVE TypeInv'
    OBVIOUS
<1>1. CASE \E c \in Client :
              \/ \E k \in Conn : BeginPair(c, k) \/ BeginPull(c, k) \/ SendUpload(c, k) \/ Report(c, k)
              \/ \E scope \in Scopes : BeginUpload(c, scope)
              \/ \E presence \in [Source -> Presences] : Probe(c, presence)
              \/ ReadLocalState(c) \/ WriteLocalState(c) \/ CommandFails(c)
              \/ \E torn \in BOOLEAN : Kill(c, torn)
    BY <1>1, ClientTypeStep
<1>2. CASE \E k \in Conn :
              \/ \E a \in Agent : Pair(k, a) \/ \E labels \in SUBSET Label : Relabel(k, a, labels)
              \/ \E selector \in Selectors, scope \in Scopes, expected \in Expectations :
                    CreateJob(k, selector, scope, expected)
              \/ LeaseJob(k) \/ CompleteJob(k) \/ ReceiveUpload(k)
              \/ \E s \in Source : StorePayload(k, s)
              \/ RejectStale(k) \/ StoreFails(k)
    BY <1>2, HandlerTypeStep
<1>3. CASE \E k \in Conn :
              \/ OpenTemporary(k)
              \/ \E content \in {server[k].save, Torn} : RenameTemporary(k, content)
    BY <1>3, SaveTypeStep
<1>4. CASE \E k \in Conn : Receive(k) \/ LoseMessage(k) \/ Abandon(k)
    BY <1>4, TalkTypeStep
<1>5. CASE (\E s \in Source : EditSource(s)) \/ (\E l \in 1..MaxLeases : Expire(l)) \/ UNCHANGED vars
    BY <1>5, WorldTypeStep
<1>6. CASE CrashServer
    BY <1>6, CrashTypeStep
<1> QED
    BY Steps, <1>1, <1>2, <1>3, <1>4, <1>5, <1>6

LEMMA TypeInvariant == Spec => []TypeInv
BY TypeInit, TypeStep, PTL DEF Spec

\* In memory, in the files and on the hosts everything has its shape, for any
\* number of agents, clients and requests: in particular a state file is a whole
\* control state or known to be torn (writeRemoteAgentState, readRemoteAgentState).
THEOREM RemoteTypes == Spec => []TypeOK
BY TypeInvariant, PTL DEF TypeInv

----------------------------------------------------------------------------
(* One lease per agent, in every copy of the control state.                *)

\* No agent holds two leases in st when the leases in over are over.
SingleLeases(st, over) ==
    \A a \in Agent, i, j \in Job :
        /\ Leased(st, i, a) /\ st.jobs[i].lease[a] \notin over
        /\ Leased(st, j, a) /\ st.jobs[j].lease[a] \notin over
        => i = j

\* The control state that a handler works on or saves.
HeldBy(h) ==
    CASE h.stage = "storing" -> {h.snap}
      [] h.stage \in {"saving", "opened"} -> {h.save}
      [] OTHER -> {}

Copies ==
    {state} \cup ({main, tmp} \ {NoFile, Torn}) \cup UNION {HeldBy(server[k]) : k \in Conn}

LeaseInv == \A st \in Copies : SingleLeases(st, expired)

LEMMA SingleLater ==
    ASSUME NEW st, NEW over, NEW later, SingleLeases(st, over), over \subseteq later
    PROVE  SingleLeases(st, later)
BY DEF SingleLeases

LEMMA SingleSameJobs ==
    ASSUME NEW st, NEW new, NEW over, SingleLeases(st, over), new.jobs = st.jobs
    PROVE  SingleLeases(new, over)
BY DEF SingleLeases, Leased

\* A job that is created, or whose status becomes another than leased.
LEMMA SingleWithJob ==
    ASSUME NEW st \in ControlState, NEW j \in Job, NEW selector \in Selectors,
           NEW scope \in Scopes, NEW expected \in Expectations, SingleLeases(st, expired)
    PROVE  SingleLeases(WithJob(st, j, selector, scope, expected), expired)
<1> DEFINE new == WithJob(st, j, selector, scope, expected)
<1>1. \A i \in Job, a \in Agent : Leased(new, i, a) => i # j
    BY WithJobType DEF Leased
<1>2. \A i \in Job \ {j} : new.jobs[i] = st.jobs[i]
    BY WithJobType
<1> QED
    BY <1>1, <1>2 DEF SingleLeases, Leased

LEMMA SingleEnded ==
    ASSUME NEW st \in ControlState, NEW j \in Job, NEW a \in Agent,
           NEW ending \in AnyStatus, NEW l \in 0..MaxLeases,
           ending # "leased", SingleLeases(st, expired)
    PROVE  SingleLeases(WithStatus(st, j, a, ending, l), expired)
<1> DEFINE new == WithStatus(st, j, a, ending, l)
<1>1. \A i \in Job, b \in Agent :
          Leased(new, i, b) => Leased(st, i, b) /\ new.jobs[i].lease[b] = st.jobs[i].lease[b]
    <2>1. \A i \in Job, b \in Agent :
              /\ new.jobs[i].known = st.jobs[i].known
              /\ new.jobs[i].status[b] = IF i = j /\ b = a THEN ending ELSE st.jobs[i].status[b]
              /\ new.jobs[i].lease[b] = IF i = j /\ b = a THEN l ELSE st.jobs[i].lease[b]
        BY WithStatusType
    <2> HIDE DEF new
    <2> QED
        BY <2>1 DEF Leased
<1> QED
    BY <1>1 DEF SingleLeases

\* A lease for an agent that has none.
LEMMA SingleLeased ==
    ASSUME NEW st \in ControlState, NEW j \in Job, NEW a \in Agent, NEW l \in 0..MaxLeases,
           SingleLeases(st, expired), \A i \in Job : ~HasActiveLease(st, i, a)
    PROVE  SingleLeases(WithStatus(st, j, a, "leased", l), expired)
<1> DEFINE new == WithStatus(st, j, a, "leased", l)
<1>1. \A i \in Job, b \in Agent : i # j \/ b # a =>
          /\ Leased(new, i, b) <=> Leased(st, i, b)
          /\ new.jobs[i].lease[b] = st.jobs[i].lease[b]
    <2>1. \A i \in Job, b \in Agent :
              /\ new.jobs[i].known = st.jobs[i].known
              /\ i # j \/ b # a => /\ new.jobs[i].status[b] = st.jobs[i].status[b]
                                   /\ new.jobs[i].lease[b] = st.jobs[i].lease[b]
        BY WithStatusType, Statuses
    <2> HIDE DEF new
    <2> QED
        BY <2>1 DEF Leased
<1> QED
    BY <1>1 DEF SingleLeases, HasActiveLease

LEMMA EmptySingle == SingleLeases(EmptyState, expired)
BY DEF SingleLeases, EmptyState, NoJob, NewJob, Leased

\* A handler's step that leaves the files alone.
LEMMA HandlerCopies ==
    ASSUME TypeInv, NEW k \in Conn, NEW h, server' = [server EXCEPT ![k] = h],
           UNCHANGED <<main, tmp>>
    PROVE  Copies' \subseteq Copies \cup {state'} \cup HeldBy(h)
<1>1. \A i \in Conn : server'[i] = IF i = k THEN h ELSE server[i]
    BY DEF TypeInv
<1> QED
    BY <1>1 DEF Copies

\* A handler that sets the control state.
LEMMA SetStateLeases ==
    ASSUME TypeInv, LeaseInv, NEW k \in Conn, NEW c, NEW st, NEW answer,
           SetState(k, c, st, answer), UNCHANGED <<main, tmp, expired>>,
           SingleLeases(st, expired)
    PROVE  LeaseInv'
<1> DEFINE h == [stage |-> "saving", client |-> c, save |-> st, fd |-> "none", answer |-> answer]
<1>1. server' = [server EXCEPT ![k] = h] /\ state' = st
    BY DEF SetState
<1>2. HeldBy(h) = {st}
    BY DEF HeldBy
<1>3. Copies' \subseteq Copies \cup {st}
    BY <1>1, <1>2, HandlerCopies
<1> QED
    BY <1>3 DEF LeaseInv

\* A handler that ends, whether it answers or not.
LEMMA EndLeases ==
    ASSUME TypeInv, LeaseInv, NEW k \in Conn, NEW h, server' = [server EXCEPT ![k] = h],
           UNCHANGED <<state, main, tmp>>, expired \subseteq expired',
           HeldBy(h) \subseteq Copies
    PROVE  LeaseInv'
<1>1. Copies' \subseteq Copies
    BY HandlerCopies DEF Copies
<1>2. \A st \in Copies : SingleLeases(st, expired')
    BY SingleLater DEF LeaseInv
<1> QED
    BY <1>1, <1>2 DEF LeaseInv

\* A copy that a handler holds is one of the copies.
LEMMA HeldIsCopy ==
    /\ state \in Copies
    /\ \A k \in Conn : HeldBy(server[k]) \subseteq Copies
BY DEF Copies

LEMMA ClientLeaseStep ==
    ASSUME TypeInv, LeaseInv
    PROVE  /\ \A c \in Client :
                 /\ \A k \in Conn : BeginPair(c, k) \/ BeginPull(c, k) \/ SendUpload(c, k) \/ Report(c, k)
                                       => LeaseInv'
                 /\ \A scope \in Scopes : BeginUpload(c, scope) => LeaseInv'
                 /\ \A presence \in [Source -> Presences] : Probe(c, presence) => LeaseInv'
                 /\ ReadLocalState(c) \/ WriteLocalState(c) \/ CommandFails(c) => LeaseInv'
                 /\ \A torn \in BOOLEAN : Kill(c, torn) => LeaseInv'
           /\ \A s \in Source : EditSource(s) => LeaseInv'
           /\ \A l \in 1..MaxLeases : Expire(l) => LeaseInv'
           /\ UNCHANGED vars => LeaseInv'
<1> USE DEF hosts, files, history
<1>1. ASSUME NEW c \in Client, NEW k \in Conn, NEW req, Send(c, k, req),
             UNCHANGED <<state, main, tmp, expired>>
      PROVE  LeaseInv'
    <2> DEFINE h == [stage |-> "arriving", client |-> c, req |-> req]
    <2>1. server' = [server EXCEPT ![k] = h] /\ HeldBy(h) = {}
        BY <1>1 DEF Send, HeldBy
    <2> QED
        BY <1>1, <2>1, EndLeases
<1>2. ASSUME NEW c \in Client, NEW k \in Conn,
             BeginPair(c, k) \/ BeginPull(c, k) \/ SendUpload(c, k) \/ Report(c, k)
      PROVE  LeaseInv'
    <2>1. (\E req : Send(c, k, req)) /\ UNCHANGED <<state, main, tmp, expired>>
        BY <1>2 DEF BeginPair, BeginPull, SendUpload, Report
    <2> QED
        BY <1>1, <2>1
<1>3. ASSUME UNCHANGED <<state, main, tmp, server>>, expired \subseteq expired'
      PROVE  LeaseInv'
    <2>1. Copies' = Copies
        BY <1>3 DEF Copies
    <2> QED
        BY <1>3, <2>1, SingleLater DEF LeaseInv
<1>4. ASSUME NEW c \in Client, NEW scope \in Scopes, BeginUpload(c, scope) PROVE LeaseInv'
    BY <1>3, <1>4 DEF BeginUpload
<1>5. ASSUME NEW c \in Client, NEW presence \in [Source -> Presences], Probe(c, presence)
      PROVE  LeaseInv'
    BY <1>3, <1>5 DEF Probe
<1>6. ASSUME NEW c \in Client, ReadLocalState(c) \/ WriteLocalState(c) \/ CommandFails(c)
      PROVE  LeaseInv'
    BY <1>3, <1>6 DEF ReadLocalState, WriteLocalState, CommandFails
<1>7. ASSUME NEW c \in Client, NEW torn \in BOOLEAN, Kill(c, torn) PROVE LeaseInv'
    BY <1>3, <1>7 DEF Kill
<1>8. ASSUME NEW s \in Source, EditSource(s) PROVE LeaseInv'
    BY <1>3, <1>8 DEF EditSource
<1>9. ASSUME NEW l \in 1..MaxLeases, Expire(l) PROVE LeaseInv'
    BY <1>3, <1>9 DEF Expire
<1>10. ASSUME UNCHANGED vars PROVE LeaseInv'
    BY <1>3, <1>10 DEF vars
<1> QED
    BY <1>2, <1>4, <1>5, <1>6, <1>7, <1>8, <1>9, <1>10

LEMMA HandlerLeaseStep ==
    ASSUME TypeInv, LeaseInv, NEW k \in Conn
    PROVE  /\ \A a \in Agent : Pair(k, a) => LeaseInv'
           /\ \A a \in Agent, labels \in SUBSET Label : Relabel(k, a, labels) => LeaseInv'
           /\ \A selector \in Selectors, scope \in Scopes, expected \in Expectations :
                 CreateJob(k, selector, scope, expected) => LeaseInv'
           /\ LeaseJob(k) => LeaseInv'
           /\ CompleteJob(k) => LeaseInv'
           /\ ReceiveUpload(k) => LeaseInv'
           /\ \A s \in Source : StorePayload(k, s) => LeaseInv'
           /\ RejectStale(k) \/ StoreFails(k) => LeaseInv'
           /\ Receive(k) \/ LoseMessage(k) \/ Abandon(k) => LeaseInv'
<1> USE DEF hosts, files, history
<1>a. state \in ControlState /\ SingleLeases(state, expired)
    BY HeldIsCopy DEF TypeInv, TypeOK, LeaseInv
<1>b. \A j \in Job, a \in Agent : state.jobs[j].lease[a] \in 0..MaxLeases
    BY <1>a DEF ControlState, JobRecord
<1>c. ASSUME Refuse(k), UNCHANGED <<main, tmp, expired>> PROVE LeaseInv'
    <2> DEFINE h == [stage |-> "answering", client |-> server[k].client,
                     answer |-> [NoAnswer EXCEPT !.ok = FALSE]]
    <2>1. server' = [server EXCEPT ![k] = h] /\ HeldBy(h) = {} /\ state' = state
        BY <1>c DEF Refuse, Respond, HeldBy
    <2> QED
        BY <1>c, <2>1, EndLeases
<1>1. ASSUME NEW a \in Agent, Pair(k, a) PROVE LeaseInv'
    <2>1. SingleLeases([state EXCEPT !.agents[a].known = TRUE], expired)
        BY <1>a, AgentType, SingleSameJobs
    <2> QED
        BY <1>1, <2>1, SetStateLeases DEF Pair
<1>2. ASSUME NEW a \in Agent, NEW labels \in SUBSET Label, Relabel(k, a, labels) PROVE LeaseInv'
    <2> DEFINE st == [state EXCEPT !.agents[a].labels = labels]
    <2>1. SingleLeases(st, expired)
        <3>1. st.jobs = state.jobs
            BY <1>a, AgentType
        <3> HIDE DEF st
        <3> QED
            BY <1>a, <3>1, SingleSameJobs
    <2> QED
        BY <1>2, <2>1, SetStateLeases DEF Relabel
<1>3. ASSUME NEW selector \in Selectors, NEW scope \in Scopes, NEW expected \in Expectations,
             CreateJob(k, selector, scope, expected)
      PROVE  LeaseInv'
    <2>1. created + 1 \in Job
        BY <1>3, RemoteAgentAssumption DEF CreateJob, Job, TypeInv, TypeOK
    <2>2. SingleLeases(WithJob(state, created + 1, selector, scope, expected), expired)
        BY <1>a, <2>1, SingleWithJob
    <2> QED
        BY <1>3, <2>2, SetStateLeases DEF CreateJob
<1>4. ASSUME LeaseJob(k) PROVE LeaseInv'
    <2> DEFINE a == server[k].req.agent
               active == {j \in Job : HasActiveLease(state, j, a)}
               candidates == {j \in Job : IsLeaseCandidate(state, j, a)}
    <2>1. a \in Agent
        BY <1>4, AsksShape DEF LeaseJob, Arrives
    <2>2. CASE Refuse(k)
        BY <1>4, <1>c, <2>2 DEF LeaseJob
    <2>3. CASE \E answer : SetState(k, server[k].client, state, answer)
        BY <1>4, <1>a, <2>3, SetStateLeases DEF LeaseJob
    <2>4. CASE /\ active = {} /\ candidates # {} /\ leases < MaxLeases
               /\ \E answer : SetState(k, server[k].client,
                     WithStatus(state, Oldest(candidates), a, "leased", leases + 1), answer)
        <3>1. Oldest(candidates) \in Job
            BY <2>4, OldestIn
        <3>2. leases + 1 \in 0..MaxLeases
            BY <2>4, RemoteAgentAssumption DEF TypeInv, TypeOK
        <3>3. \A i \in Job : ~HasActiveLease(state, i, a)
            BY <2>4
        <3> HIDE DEF a, active, candidates
        <3>4. SingleLeases(WithStatus(state, Oldest(candidates), a, "leased", leases + 1), expired)
            BY <1>a, <2>1, <3>1, <3>2, <3>3, SingleLeased
        <3> QED
            BY <1>4, <2>4, <3>4, SetStateLeases DEF LeaseJob
    <2>5. \/ Refuse(k) \/ \E answer : SetState(k, server[k].client, state, answer)
          \/ /\ active = {} /\ candidates # {} /\ leases < MaxLeases
             /\ \E answer : SetState(k, server[k].client,
                   WithStatus(state, Oldest(candidates), a, "leased", leases + 1), answer)
        BY <1>4 DEF LeaseJob
    <2> QED
        BY <2>2, <2>3, <2>4, <2>5
<1>5. ASSUME CompleteJob(k) PROVE LeaseInv'
    <2> DEFINE r == server[k].req
               st == WithStatus(state, r.job, r.agent, r.status, state.jobs[r.job].lease[r.agent])
    <2>1. r.agent \in Agent /\ r.job \in Job /\ r.status \in AnyStatus \ {"leased"}
        BY <1>5, AsksShape, Statuses DEF CompleteJob, Arrives
    <2>2. SingleLeases(st, expired)
        BY <1>a, <1>b, <2>1, SingleEnded
    <2>3. Refuse(k) \/ SetState(k, server[k].client, st, NoAnswer)
        BY <1>5 DEF CompleteJob
    <2> QED
        BY <1>5, <1>c, <2>2, <2>3, SetStateLeases DEF CompleteJob
<1>6. ASSUME ReceiveUpload(k) PROVE LeaseInv'
    <2> DEFINE r == server[k].req
               h == [stage |-> "storing", client |-> server[k].client, req |-> r,
                     snap |-> state, left |-> r.bundled]
    <2>1. r \in UploadRequest
        BY <1>6, AsksShape DEF ReceiveUpload, Arrives
    <2>2. SingleLeases(AfterUpload(state, r), expired)
        BY <1>a, <2>1, AfterUploadType, SingleSameJobs
    <2>3. HeldBy(h) \subseteq Copies
        BY HeldIsCopy DEF HeldBy
    <2>4. \/ Refuse(k)
          \/ SetState(k, server[k].client, AfterUpload(state, r), NoAnswer)
          \/ server' = [server EXCEPT ![k] = h] /\ state' = state
        BY <1>6 DEF ReceiveUpload
    <2>5. UNCHANGED <<main, tmp, expired>>
        BY <1>6 DEF ReceiveUpload
    <2> QED
        BY <1>c, <2>2, <2>3, <2>4, <2>5, SetStateLeases, EndLeases
<1>7. ASSUME NEW s \in Source, StorePayload(k, s) PROVE LeaseInv'
    <2> DEFINE h == server[k]
               g == [h EXCEPT !.left = h.left \ {s}]
    <2>1. h \in Storing /\ h.stage = "storing"
        BY <1>7, HandlerShape DEF StorePayload, TypeInv
    <2>2. HeldBy(h) = {h.snap} /\ HeldBy(g) = {h.snap}
        BY <2>1 DEF Storing, HeldBy
    <2>3. SingleLeases(h.snap, expired)
        BY <2>2, HeldIsCopy DEF LeaseInv
    <2>4. SingleLeases(AfterUpload(h.snap, h.req), expired)
        BY <2>1, <2>3, AfterUploadType, SingleSameJobs DEF Storing
    <2>5. \/ SetState(k, h.client, AfterUpload(h.snap, h.req), NoAnswer)
          \/ server' = [server EXCEPT ![k] = g] /\ state' = state
        BY <1>7 DEF StorePayload, TypeInv
    <2>6. UNCHANGED <<main, tmp, expired>>
        BY <1>7 DEF StorePayload
    <2>7. HeldBy(g) \subseteq Copies
        BY <2>2, HeldIsCopy
    <2> QED
        BY <2>4, <2>5, <2>6, <2>7, SetStateLeases, EndLeases
<1>8. ASSUME RejectStale(k) \/ StoreFails(k) PROVE LeaseInv'
    BY <1>8, <1>c DEF RejectStale, StoreFails
<1>9. ASSUME Receive(k) \/ LoseMessage(k) \/ Abandon(k) PROVE LeaseInv'
    <2> DEFINE g == [server[k] EXCEPT !.client = Nobody]
    <2>1. /\ server' = [server EXCEPT ![k] = NoRequest] \/ server' = [server EXCEPT ![k] = g]
          /\ UNCHANGED <<state, main, tmp, expired>>
        BY <1>9 DEF Receive, LoseMessage, Abandon, TypeInv
    <2>2. HeldBy(NoRequest) = {}
        BY DEF HeldBy, NoRequest
    <2>3. HeldBy(g) = HeldBy(server[k])
        BY DEF HeldBy, Handler, NoRequest, Arriving, Storing, Saving, Answering, TypeInv
    <2>4. HeldBy(g) \subseteq Copies /\ HeldBy(NoRequest) \subseteq Copies
        BY <2>2, <2>3, HeldIsCopy
    <2> QED
        BY <2>1, <2>4, EndLeases
<1> QED
    BY <1>1, <1>2, <1>3, <1>4, <1>5, <1>6, <1>7, <1>8, <1>9

\* Saving makes no control state that was not there before.
LEMMA SaveCopies ==
    ASSUME TypeInv, NEW k \in Conn
    PROVE  /\ OpenTemporary(k) => Copies' \subseteq Copies
           /\ \A content \in {server[k].save, Torn} :
                 RenameTemporary(k, content) => Copies' \subseteq Copies
<1> USE DEF hosts, files, history
<1> DEFINE h == server[k]
<1>1. ASSUME OpenTemporary(k) PROVE Copies' \subseteq Copies
    <2> DEFINE g == [h EXCEPT !.stage = "opened", !.fd = "tmp"]
    <2>1. h \in Saving /\ h.stage = "saving"
        BY <1>1, HandlerShape DEF OpenTemporary, AtStage, TypeInv
    <2>2. \A i \in Conn : server'[i] = IF i = k THEN g ELSE server[i]
        BY <1>1 DEF OpenTemporary, TypeInv
    <2>3. HeldBy(g) = HeldBy(h)
        BY <2>1 DEF Saving, HeldBy
    <2>4. \A i \in Conn : HeldBy(server[i])' = HeldBy(server[i])
        BY <2>2, <2>3 DEF HeldBy
    <2>5. tmp' = Torn /\ UNCHANGED <<state, main, expired>>
        BY <1>1 DEF OpenTemporary
    <2> QED
        BY <2>4, <2>5 DEF Copies
<1>2. ASSUME NEW content \in {server[k].save, Torn}, RenameTemporary(k, content)
      PROVE  Copies' \subseteq Copies
    <2>1. h \in Saving /\ h.stage = "opened"
        BY <1>2, HandlerShape DEF RenameTemporary, AtStage, TypeInv
    <2>2. content \in Copies \cup {Torn}
        BY <1>2, <2>1, HeldIsCopy DEF HeldBy
    <2>3. UNCHANGED <<state, expired>> /\ main' \in {main, tmp, content} /\ tmp' \in {tmp, NoFile}
        BY <1>2 DEF RenameTemporary
    <2>4. \A i \in Conn : HeldBy(server[i])' \subseteq HeldBy(server[i])
        <3> SUFFICES ASSUME NEW i \in Conn PROVE HeldBy(server'[i]) \subseteq HeldBy(server[i])
            BY DEF HeldBy
        <3>1. CASE i = k
            <4>1. server'[i].stage = "answering"
                BY <1>2, <3>1 DEF RenameTemporary, Respond, TypeInv
            <4> QED
                BY <4>1 DEF HeldBy
        <3>2. CASE i # k
            <4>1. server'[i] \in {server[i], Renamed(server[i])}
                BY <1>2, <3>2 DEF RenameTemporary, Respond, TypeInv
            <4>2. HeldBy(Renamed(server[i])) = HeldBy(server[i])
                <5>1. CASE server[i].stage = "opened"
                    <6>1. server[i] \in Saving
                        BY <5>1, HandlerShape DEF TypeInv
                    <6>2. /\ Renamed(server[i]).stage = server[i].stage
                          /\ Renamed(server[i]).save = server[i].save
                        BY <6>1 DEF Renamed, Saving
                    <6> QED
                        BY <5>1, <6>2 DEF HeldBy
                <5>2. CASE server[i].stage # "opened"
                    BY <5>2 DEF Renamed
                <5> QED
                    BY <5>1, <5>2
            <4> QED
                BY <4>1, <4>2
        <3> QED
            BY <3>1, <3>2
    <2> QED
        BY <2>2, <2>3, <2>4 DEF Copies
<1> QED
    BY <1>1, <1>2

LEMMA SaveLeaseStep ==
    ASSUME TypeInv, LeaseInv, NEW k \in Conn
    PROVE  /\ OpenTemporary(k) => LeaseInv'
           /\ \A content \in {server[k].save, Torn} : RenameTemporary(k, content) => LeaseInv'
<1>1. ASSUME Copies' \subseteq Copies, expired' = expired PROVE LeaseInv'
    BY <1>1 DEF LeaseInv
<1> QED
    BY <1>1, SaveCopies DEF OpenTemporary, RenameTemporary

LEMMA CrashLeaseStep == LeaseInv /\ CrashServer => LeaseInv'
<1> SUFFICES ASSUME LeaseInv, CrashServer PROVE LeaseInv'
    OBVIOUS
<1>1. \A i \in Conn : HeldBy(server[i])' = {}
    BY DEF CrashServer, HeldBy, NoRequest
<1>2. UNCHANGED <<main, tmp, expired>> /\ state' = ReadState
    BY DEF CrashServer, files
<1>3. ReadState \in Copies \cup {EmptyState}
    BY DEF ReadState, Copies
<1>4. Copies' \subseteq Copies \cup {EmptyState}
    BY <1>1, <1>2, <1>3 DEF Copies
<1> QED
    BY <1>2, <1>4, EmptySingle DEF LeaseInv

LEMMA LeaseInit == Init => LeaseInv
<1> SUFFICES ASSUME Init PROVE LeaseInv
    OBVIOUS
<1>1. Copies = {EmptyState}
    BY DEF Init, Copies, HeldBy, NoRequest
<1> QED
    BY <1>1, EmptySingle DEF LeaseInv

LEMMA LeaseStep == TypeInv /\ LeaseInv /\ [Next]_vars => LeaseInv'
<1> SUFFICES ASSUME TypeInv, LeaseInv, [Next]_vars PROVE LeaseInv'
    OBVIOUS
<1>1. CASE \/ \E c \in Client :
                 \/ \E k \in Conn : BeginPair(c, k) \/ BeginPull(c, k) \/ SendUpload(c, k) \/ Report(c, k)
                 \/ \E scope \in Scopes : BeginUpload(c, scope)
                 \/ \E presence \in [Source -> Presences] : Probe(c, presence)
                 \/ ReadLocalState(c) \/ WriteLocalState(c) \/ CommandFails(c)
                 \/ \E torn \in BOOLEAN : Kill(c, torn)
           \/ \E s \in Source : EditSource(s)
           \/ \E l \in 1..MaxLeases : Expire(l)
           \/ UNCHANGED vars
    BY <1>1, ClientLeaseStep
<1>2. CASE \E k \in Conn :
              \/ \E a \in Agent : Pair(k, a) \/ \E labels \in SUBSET Label : Relabel(k, a, labels)
              \/ \E selector \in Selectors, scope \in Scopes, expected \in Expectations :
                    CreateJob(k, selector, scope, expected)
              \/ LeaseJob(k) \/ CompleteJob(k) \/ ReceiveUpload(k)
              \/ \E s \in Source : StorePayload(k, s)
              \/ RejectStale(k) \/ StoreFails(k)
              \/ Receive(k) \/ LoseMessage(k) \/ Abandon(k)
    BY <1>2, HandlerLeaseStep
<1>3. CASE \E k \in Conn :
              \/ OpenTemporary(k)
              \/ \E content \in {server[k].save, Torn} : RenameTemporary(k, content)
    BY <1>3, SaveLeaseStep
<1>4. CASE CrashServer
    BY <1>4, CrashLeaseStep
<1> QED
    BY Steps, <1>1, <1>2, <1>3, <1>4

\* An agent never holds two leases at once (leaseRemoteAgentJob gives the active one
\* again), for any number of agents, clients, requests, crashes and lost messages:
\* every copy of the control state that a late handler or a restart may bring back
\* has at most one lease for an agent, and a lease is given on the current copy only.
THEOREM AgentHasOneLease == Spec => []OneActiveLease
<1>1. TypeInv /\ LeaseInv => OneActiveLease
    BY HeldIsCopy DEF LeaseInv, SingleLeases, OneActiveLease, HasActiveLease
<1> QED
    BY TypeInvariant, LeaseInit, LeaseStep, <1>1, PTL DEF Spec

=============================================================================
