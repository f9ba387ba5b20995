---------------------- MODULE RemoteAgentState_proofs ----------------------
(***************************************************************************)
(* Proofs about what happens to the control state of RemoteAgent: as long  *)
(* as one upload is stored at a time it only advances while the server     *)
(* runs, and if the server also handles one request at a time, nothing     *)
(* that an agent was told is forgotten by a restart.  Then what is stored: *)
(* an older upload never overwrites a newer one, and a job that counts as  *)
(* succeeded has what its agent collected for it in the store.             *)
(***************************************************************************)
EXTENDS RemoteAgent_proofs

\* Uploads carry no raw blobs, or there is one request at a time.  Otherwise a
\* handler that awaits its blobs sets a control state that is out of date by then.
OneUploadAtATime == ~RawBlobs \/ \A i, k \in Conn : i = k

----------------------------------------------------------------------------
(* What it means that a control state advances.                            *)

Kept(st, new) ==
    \A a \in Agent :
        /\ st.agents[a].known => new.agents[a].known
        /\ \A s \in Source : new.agents[a].gen[s] >= st.agents[a].gen[s]

JobsKept(st, new) ==
    \A a \in Agent, j \in Job :
        /\ st.jobs[j].known => new.jobs[j].known
        /\ st.jobs[j].status[a] \in EndStatus => new.jobs[j].status[a] = st.jobs[j].status[a]

\* Jobs that are not created yet look untouched.
LaterJobs(st, n) ==
    \A j \in Job : j > n => /\ ~st.jobs[j].known
                            /\ \A a \in Agent : st.jobs[j].status[a] = "pending"

Advance(st, new) == Kept(st, new) /\ JobsKept(st, new)

LEMMA KeptSame == \A st \in ControlState : Advance(st, st)
BY DEF Advance, Kept, JobsKept, ControlState, AgentRecord, Generations

LEMMA KeptOn ==
    ASSUME NEW r \in ControlState, NEW s \in ControlState, NEW t \in ControlState,
           Kept(r, s), Kept(s, t)
    PROVE  Kept(r, t)
<1> SUFFICES ASSUME NEW a \in Agent
             PROVE  /\ r.agents[a].known => t.agents[a].known
                    /\ \A x \in Source : t.agents[a].gen[x] >= r.agents[a].gen[x]
    BY DEF Kept
<1>1. \A x \in Source : /\ r.agents[a].gen[x] \in Nat /\ s.agents[a].gen[x] \in Nat
                        /\ t.agents[a].gen[x] \in Nat
    BY DEF ControlState, AgentRecord, Generations
<1> QED
    BY <1>1 DEF Kept

LEMMA PairAdvances ==
    ASSUME NEW st \in ControlState, NEW a \in Agent
    PROVE  /\ Advance(st, [st EXCEPT !.agents[a].known = TRUE])
           /\ [st EXCEPT !.agents[a].known = TRUE].agents[a].known
<1> DEFINE new == [st EXCEPT !.agents[a].known = TRUE]
<1>1. /\ new.jobs = st.jobs
      /\ \A b \in Agent : /\ new.agents[b].gen = st.agents[b].gen
                          /\ st.agents[b].known => new.agents[b].known
    BY DEF ControlState, AgentRecord
<1>2. \A b \in Agent, x \in Source : st.agents[b].gen[x] \in Nat
    BY DEF ControlState, AgentRecord, Generations
<1> HIDE DEF new
<1>3. Advance(st, new)
    BY <1>1, <1>2 DEF Advance, Kept, JobsKept
<1>4. [st EXCEPT !.agents[a].known = TRUE].agents[a].known
    BY DEF ControlState, AgentRecord
<1>5. Advance(st, [st EXCEPT !.agents[a].known = TRUE])
    BY <1>3 DEF new
<1> QED
    BY <1>4, <1>5

LEMMA RelabelAdvances ==
    ASSUME NEW st \in ControlState, NEW a \in Agent, NEW labels \in SUBSET Label
    PROVE  Advance(st, [st EXCEPT !.agents[a].labels = labels])
<1> DEFINE new == [st EXCEPT !.agents[a].labels = labels]
<1>1. /\ new.jobs = st.jobs
      /\ \A b \in Agent : /\ new.agents[b].gen = st.agents[b].gen
                          /\ new.agents[b].known = st.agents[b].known
    BY DEF ControlState, AgentRecord
<1>2. \A b \in Agent, x \in Source : st.agents[b].gen[x] \in Nat
    BY DEF ControlState, AgentRecord, Generations
<1> HIDE DEF new
<1>3. Advance(st, new)
    BY <1>1, <1>2 DEF Advance, Kept, JobsKept
<1> QED
    BY <1>3 DEF new

LEMMA WithJobAdvances ==
    ASSUME NEW st \in ControlState, NEW n \in Nat, n + 1 \in Job, LaterJobs(st, n),
           NEW selector \in Selectors, NEW scope \in Scopes, NEW expected \in Expectations
    PROVE  /\ Advance(st, WithJob(st, n + 1, selector, scope, expected))
           /\ LaterJobs(WithJob(st, n + 1, selector, scope, expected), n + 1)
<1> DEFINE new == WithJob(st, n + 1, selector, scope, expected)
<1>1. \A i \in Job \ {n + 1} : new.jobs[i] = st.jobs[i]
    BY WithJobType
<1>2. new.agents = st.agents
    BY DEF WithJob, ControlState
<1>3. ~st.jobs[n + 1].known /\ \A a \in Agent : st.jobs[n + 1].status[a] = "pending"
    BY DEF LaterJobs, Job
<1>4. \A b \in Agent, x \in Source : st.agents[b].gen[x] \in Nat
    BY DEF ControlState, AgentRecord, Generations
<1> HIDE DEF new
<1>5. Advance(st, new)
    BY <1>1, <1>2, <1>3, <1>4 DEF Advance, Kept, JobsKept, EndStatus
<1>6. LaterJobs(new, n + 1)
    BY <1>1 DEF LaterJobs, Job
<1> QED
    BY <1>5, <1>6 DEF new

LEMMA WithStatusAdvances ==
    ASSUME NEW st \in ControlState, NEW j \in Job, NEW a \in Agent, NEW ending \in AnyStatus,
           NEW l \in 0..MaxLeases, NEW n \in Nat, LaterJobs(st, n),
           st.jobs[j].known, st.jobs[j].status[a] \notin EndStatus
    PROVE  /\ Advance(st, WithStatus(st, j, a, ending, l))
           /\ LaterJobs(WithStatus(st, j, a, ending, l), n)
<1> DEFINE new == WithStatus(st, j, a, ending, l)
<1>1. \A i \in Job, b \in Agent :
          /\ new.jobs[i].known = st.jobs[i].known
          /\ new.jobs[i].status[b] = IF i = j /\ b = a THEN ending ELSE st.jobs[i].status[b]
    BY WithStatusType
<1>2. new.agents = st.agents
    BY DEF WithStatus, ControlState
<1>3. ~(j > n)
    BY DEF LaterJobs
<1>4. \A b \in Agent, x \in Source : st.agents[b].gen[x] \in Nat
    BY DEF ControlState, AgentRecord, Generations
<1> HIDE DEF new
<1>5. Advance(st, new)
    BY <1>1, <1>2, <1>4 DEF Advance, Kept, JobsKept
<1>6. LaterJobs(new, n)
    <2> SUFFICES ASSUME NEW i \in Job, i > n
                 PROVE  ~new.jobs[i].known /\ \A b \in Agent : new.jobs[i].status[b] = "pending"
        BY DEF LaterJobs
    <2>1. i # j
        BY <1>3
    <2>2. ~st.jobs[i].known /\ \A b \in Agent : st.jobs[i].status[b] = "pending"
        BY DEF LaterJobs
    <2> QED
        BY <1>1, <2>1, <2>2
<1> QED
    BY <1>5, <1>6 DEF new

\* The generations of a request are accepted in st.
Accepted(st, req) ==
    st.agents[req.agent].known /\ \A s \in req.bundled : req.gen[s] <= st.agents[req.agent].gen[s]

LEMMA AfterUploadAdvances ==
    ASSUME NEW st \in ControlState, NEW r \in UploadRequest, st.agents[r.agent].known,
           \A s \in r.bundled : r.gen[s] > st.agents[r.agent].gen[s]
    PROVE  Advance(st, AfterUpload(st, r)) /\ Accepted(AfterUpload(st, r), r)
<1> DEFINE new == AfterUpload(st, r)
<1>1. r.agent \in Agent /\ r.bundled \subseteq Source /\ r.gen \in [Source -> Nat]
    BY DEF UploadRequest, Generations
<1>2. \A b \in Agent, x \in Source : st.agents[b].gen[x] \in Nat
    BY DEF ControlState, AgentRecord, Generations
<1>3. new.jobs = st.jobs
    BY AfterUploadType
<1>4. \A b \in Agent : /\ new.agents[b].known = st.agents[b].known
                       /\ b # r.agent => new.agents[b] = st.agents[b]
    BY <1>1 DEF AfterUpload, ControlState, AgentRecord
<1>5. \A s \in Source : new.agents[r.agent].gen[s] = IF s \in r.bundled THEN r.gen[s]
                                                     ELSE st.agents[r.agent].gen[s]
    BY <1>1 DEF AfterUpload, ControlState, AgentRecord
<1> HIDE DEF new
<1>6. Kept(st, new)
    <2> SUFFICES ASSUME NEW b \in Agent
                 PROVE  /\ st.agents[b].known => new.agents[b].known
                        /\ \A x \in Source : new.agents[b].gen[x] >= st.agents[b].gen[x]
        BY DEF Kept
    <2>1. CASE b = r.agent
        BY <1>1, <1>2, <1>4, <1>5, <2>1
    <2>2. CASE b # r.agent
        BY <1>2, <1>4, <2>2
    <2> QED
        BY <2>1, <2>2
<1>7. JobsKept(st, new)
    BY <1>3 DEF JobsKept
<1>8. Accepted(new, r)
    <2>1. new.agents[r.agent].known
        BY <1>1, <1>4
    <2>2. \A s \in r.bundled : new.agents[r.agent].gen[s] = r.gen[s] /\ r.gen[s] \in Nat
        BY <1>1, <1>5
    <2> QED
        BY <2>1, <2>2 DEF Accepted
<1> QED
    BY <1>6, <1>7, <1>8 DEF Advance, new

----------------------------------------------------------------------------
(* What is known of the handlers.                                          *)

\* An upload that is stored began with the control state of now, no other one is
\* stored beside it, and what it stored so far was new.
Storage(h, st) ==
    /\ h.snap = st
    /\ \A s \in h.req.bundled \ h.left : h.req.gen[s] > h.snap.agents[h.req.agent].gen[s]

UploadInv ==
    \A k \in Conn : server[k].stage = "storing" =>
        Storage(server[k], state) /\ \A i \in Conn : server[i].stage = "storing" => i = k

Answered == {"saving", "opened", "answering"}

\* What handler h has to say is true of st: a new agent is known there, and so are
\* the generations of an upload that the client of h waits for; and a request to
\* upload is still the one that its client knows.
Promise(h, st, procs) ==
    /\ h.stage \in Answered /\ h.answer.agent \in Agent => st.agents[h.answer.agent].known
    /\ h.stage = "storing" => st.agents[h.req.agent].known
    /\ \A c \in Client : h # NoRequest /\ h.client = c /\ procs[c].pc = "uploading" =>
          /\ h.stage \in {"arriving", "storing"} => h.req = procs[c].req
          /\ h.stage \in Answered /\ h.answer.ok => Accepted(st, procs[c].req)

AnswerInv == \A k \in Conn : Promise(server[k], state, client)

LaterInv == \A st \in Copies : LaterJobs(st, created)

ServerInv == UploadInv /\ AnswerInv /\ LaterInv

----------------------------------------------------------------------------
(* What a handler does.                                                    *)

Alone(k) == \A i \in Conn \ {k} : server[i].stage # "storing"

Sets(k) ==
    \E st \in ControlState, answer \in Answer :
        /\ SetState(k, IF Free(k) THEN Nobody ELSE server[k].client, st, answer)
        /\ Advance(state, st) /\ LaterJobs(st, created')
        /\ answer.agent \in Agent => st.agents[answer.agent].known
        /\ answer.ok => \A c \in Client : Talking(k, c) /\ client[c].pc = "uploading"
                                            => Accepted(st, client[c].req)
        /\ Alone(k)

Refuses(k) == server[k].stage \in {"arriving", "storing"} /\ Refuse(k)

Starts(k) ==
    /\ Asks(k, "upload") /\ state.agents[server[k].req.agent].known
    /\ server' = [server EXCEPT ![k] =
                     [stage |-> "storing", client |-> server[k].client, req |-> server[k].req,
                      snap |-> state, left |-> server[k].req.bundled]]
    /\ state' = state
    /\ Alone(k)

GoesOn(k) ==
    \E s \in Source :
        /\ AtStage(k, "storing") /\ Fresh(k, s)
        /\ server' = [server EXCEPT ![k] = [server[k] EXCEPT !.left = server[k].left \ {s}]]
        /\ state' = state

Handles(k) ==
    \/ \E a \in Agent : Pair(k, a) \/ \E labels \in SUBSET Label : Relabel(k, a, labels)
    \/ \E selector \in Selectors, scope \in Scopes, expected \in Expectations :
          CreateJob(k, selector, scope, expected)
    \/ LeaseJob(k) \/ CompleteJob(k) \/ ReceiveUpload(k)
    \/ \E s \in Source : StorePayload(k, s)
    \/ RejectStale(k) \/ StoreFails(k)

LEMMA NowIsAlone ==
    ASSUME OneUploadAtATime, NEW k \in Conn, LoopFree(k)
    PROVE  Alone(k)
BY DEF OneUploadAtATime, LoopFree, Alone, Free, NoRequest

\* Who asks for something else does not wait for an upload.
LEMMA NotUploading ==
    ASSUME TypeInv, AnswerInv, NEW k \in Conn, NEW kind, Asks(k, kind), kind # "upload",
           NEW c \in Client, Talking(k, c)
    PROVE  client[c].pc # "uploading"
<1>1. server[k].stage = "arriving" /\ server[k].req.kind = kind
    BY DEF Asks
<1>2. ASSUME client[c].pc = "uploading" PROVE FALSE
    <2>1. client[c] \in Sending
        BY <1>2 DEF TypeInv, ClientState, Probing, RecordingState, ReportingState
    <2>2. client[c].req.kind = "upload"
        BY <2>1 DEF Sending, UploadRequest
    <2>3. server[k].req = client[c].req
        BY <1>1, <1>2 DEF AnswerInv, Promise, Talking
    <2> QED
        BY <1>1, <2>2, <2>3
<1> QED
    BY <1>2

\* A control state that is set for a request other than an upload.
LEMMA SetsOther ==
    ASSUME TypeInv, AnswerInv, NEW k \in Conn, NEW kind, Asks(k, kind), kind # "upload", Alone(k),
           NEW st \in ControlState, NEW answer \in Answer, SetState(k, server[k].client, st, answer),
           Advance(state, st), LaterJobs(st, created'),
           answer.agent \in Agent => st.agents[answer.agent].known
    PROVE  Sets(k)
<1>1. ~Free(k)
    BY DEF Asks
<1>2. \A c \in Client : ~(Talking(k, c) /\ client[c].pc = "uploading")
    BY NotUploading
<1> QED
    BY <1>1, <1>2 DEF Sets

\* One that the operator sets.
LEMMA SetsFree ==
    ASSUME NEW k \in Conn, Free(k), Alone(k), NEW st \in ControlState,
           SetState(k, Nobody, st, NoAnswer), Advance(state, st), LaterJobs(st, created')
    PROVE  Sets(k)
<1>1. NoAnswer \in Answer /\ NoAnswer.agent \notin Agent
    BY NoAnswerType, RemoteAgentAssumption DEF NoAnswer
<1>2. \A c \in Client : ~Talking(k, c)
    BY DEF Talking, Free
<1> QED
    BY <1>1, <1>2 DEF Sets

LEMMA HandlerOutcome ==
    ASSUME TypeInv, OneUploadAtATime, ServerInv, NEW k \in Conn, Handles(k)
    PROVE  /\ Sets(k) \/ Refuses(k) \/ Starts(k) \/ GoesOn(k)
           /\ UNCHANGED <<client, local, main, tmp>> /\ created' \in Nat /\ created <= created'
<1> USE DEF hosts, files, history
<1>a. state \in ControlState /\ created \in Nat /\ LaterJobs(state, created)
    BY HeldIsCopy, RemoteAgentAssumption DEF TypeInv, TypeOK, ServerInv, LaterInv
<1>b. NoAnswer \in Answer /\ NoAnswer.agent \notin Agent
    BY NoAnswerType, RemoteAgentAssumption DEF NoAnswer
<1>c. UploadInv /\ AnswerInv
    BY DEF ServerInv
<1>d. ASSUME UNCHANGED <<client, local, main, tmp, created>>
      PROVE  UNCHANGED <<client, local, main, tmp>> /\ created' \in Nat /\ created <= created'
    BY <1>a, <1>d
<1>1. ASSUME NEW a \in Agent, Pair(k, a) PROVE Sets(k) /\ UNCHANGED <<client, local, main, tmp, created>>
    <2> DEFINE st == [state EXCEPT !.agents[a].known = TRUE]
               answer == [NoAnswer EXCEPT !.agent = a]
    <2>1. /\ Asks(k, "pair") /\ Alone(k) /\ SetState(k, server[k].client, st, answer)
          /\ UNCHANGED <<client, local, main, tmp, created>>
        BY <1>1, NowIsAlone DEF Pair, Arrives
    <2>2. answer \in Answer /\ answer.agent = a
        BY NoAnswerType
    <2>3. /\ st \in ControlState /\ Advance(state, st) /\ st.agents[a].known
          /\ st.jobs = state.jobs
        BY <1>a, PairAdvances, AgentType
    <2> HIDE DEF st, answer
    <2>4. LaterJobs(st, created')
        BY <1>a, <2>1, <2>3 DEF LaterJobs
    <2> QED
        BY <1>c, <2>1, <2>2, <2>3, <2>4, SetsOther
<1>2. ASSUME NEW a \in Agent, NEW labels \in SUBSET Label, Relabel(k, a, labels)
      PROVE  Sets(k) /\ UNCHANGED <<client, local, main, tmp, created>>
    <2> DEFINE st == [state EXCEPT !.agents[a].labels = labels]
    <2>1. /\ Free(k) /\ Alone(k) /\ SetState(k, Nobody, st, NoAnswer)
          /\ UNCHANGED <<client, local, main, tmp, created>>
        BY <1>2, NowIsAlone DEF Relabel
    <2>2. st \in ControlState /\ st.jobs = state.jobs
        BY <1>a, AgentType
    <2>3. Advance(state, st)
        BY <1>a, RelabelAdvances
    <2> HIDE DEF st
    <2>4. LaterJobs(st, created')
        BY <1>a, <2>1, <2>2 DEF LaterJobs
    <2> QED
        BY <2>1, <2>2, <2>3, <2>4, SetsFree
<1>3. ASSUME NEW selector \in Selectors, NEW scope \in Scopes, NEW expected \in Expectations,
             CreateJob(k, selector, scope, expected)
      PROVE  Sets(k) /\ UNCHANGED <<client, local, main, tmp>> /\ created' \in Nat /\ created <= created'
    <2> DEFINE st == WithJob(state, created + 1, selector, scope, expected)
    <2>1. /\ Free(k) /\ Alone(k) /\ SetState(k, Nobody, st, NoAnswer)
          /\ UNCHANGED <<client, local, main, tmp>> /\ created' = created + 1
        BY <1>3, NowIsAlone DEF CreateJob
    <2>2. created + 1 \in Job
        BY <1>a, <1>3, RemoteAgentAssumption DEF CreateJob, Job
    <2>3. st \in ControlState
        BY <1>a, <2>2, WithJobType
    <2>4. Advance(state, st) /\ LaterJobs(st, created')
        BY <1>a, <2>1, <2>2, WithJobAdvances
    <2> QED
        BY <1>a, <2>1, <2>3, <2>4, SetsFree
<1>4. ASSUME LeaseJob(k)
      PROVE  (Sets(k) \/ Refuses(k)) /\ UNCHANGED <<client, local, main, tmp, created>>
    <2> DEFINE a == server[k].req.agent
               active == {j \in Job : HasActiveLease(state, j, a)}
               candidates == {j \in Job : IsLeaseCandidate(state, j, a)}
               answer(st, j) == [NoAnswer EXCEPT !.job = j, !.scope = st.jobs[j].scope]
    <2>1. Asks(k, "lease") /\ Alone(k) /\ UNCHANGED <<client, local, main, tmp, created>>
        BY <1>4, NowIsAlone DEF LeaseJob, Arrives
    <2>2. a \in Agent
        BY <2>1, AsksShape
    <2>3. \A st \in ControlState, j \in Job : /\ answer(st, j) \in Answer
                                              /\ answer(st, j).agent \notin Agent
        BY <1>b, NoAnswerType DEF ControlState, JobRecord, NoAnswer
    <2>4. CASE Refuse(k)
        BY <2>1, <2>4 DEF Refuses, Asks
    <2>5. CASE active # {} /\ SetState(k, server[k].client, state, answer(state, Oldest(active)))
        <3>1. Oldest(active) \in Job
            BY <2>5, OldestIn
        <3>2. answer(state, Oldest(active)) \in Answer
              /\ answer(state, Oldest(active)).agent \notin Agent
            BY <1>a, <2>3, <3>1
        <3> HIDE DEF active, answer
        <3> QED
            BY <1>a, <1>c, <2>1, <2>5, <3>2, KeptSame, SetsOther
    <2>6. CASE SetState(k, server[k].client, state, NoAnswer)
        BY <1>a, <1>b, <1>c, <2>1, <2>6, KeptSame, SetsOther
    <2>7. CASE /\ candidates # {} /\ leases < MaxLeases
               /\ SetState(k, server[k].client,
                           WithStatus(state, Oldest(candidates), a, "leased", leases + 1),
                           answer(WithStatus(state, Oldest(candidates), a, "leased", leases + 1),
                                  Oldest(candidates)))
        <3> DEFINE j == Oldest(candidates)
                   st == WithStatus(state, j, a, "leased", leases + 1)
        <3>1. j \in candidates
            BY <2>7, OldestIn
        <3>2. j \in Job /\ state.jobs[j].known /\ state.jobs[j].status[a] \notin EndStatus
            BY <3>1 DEF IsLeaseCandidate, EndStatus
        <3>3. leases + 1 \in 0..MaxLeases /\ "leased" \in AnyStatus
            BY <2>7, RemoteAgentAssumption, Statuses DEF TypeInv, TypeOK
        <3> HIDE DEF j, a, candidates
        <3>4. st \in ControlState
            BY <1>a, <2>2, <3>2, <3>3, WithStatusType
        <3>5. Advance(state, st) /\ LaterJobs(st, created)
            BY <1>a, <2>2, <3>2, <3>3, WithStatusAdvances
        <3>6. answer(st, j) \in Answer /\ answer(st, j).agent \notin Agent
            BY <2>3, <3>2, <3>4
        <3>7. SetState(k, server[k].client, st, answer(st, j))
            BY <2>7 DEF j
        <3> HIDE DEF st, answer
        <3> QED
            BY <1>c, <2>1, <3>4, <3>5, <3>6, <3>7, SetsOther
    <2>8. \/ Refuse(k)
          \/ active # {} /\ SetState(k, server[k].client, state, answer(state, Oldest(active)))
          \/ SetState(k, server[k].client, state, NoAnswer)
          \/ /\ candidates # {} /\ leases < MaxLeases
             /\ SetState(k, server[k].client,
                         WithStatus(state, Oldest(candidates), a, "leased", leases + 1),
                         answer(WithStatus(state, Oldest(candidates), a, "leased", leases + 1),
                                Oldest(candidates)))
        BY <1>4 DEF LeaseJob
    <2> HIDE DEF answer, active, candidates, a
    <2> QED
        BY <2>1, <2>4, <2>5, <2>6, <2>7, <2>8
<1>5. ASSUME CompleteJob(k)
      PROVE  (Sets(k) \/ Refuses(k)) /\ UNCHANGED <<client, local, main, tmp, created>>
    <2> DEFINE r == server[k].req
               st == WithStatus(state, r.job, r.agent, r.status, state.jobs[r.job].lease[r.agent])
    <2>1. Asks(k, "complete") /\ Alone(k) /\ UNCHANGED <<client, local, main, tmp, created>>
        BY <1>5, NowIsAlone DEF CompleteJob, Arrives
    <2>2. r.agent \in Agent /\ r.job \in Job /\ r.status \in AnyStatus
        BY <2>1, AsksShape, Statuses
    <2>3. CASE Refuse(k)
        BY <2>1, <2>3 DEF Refuses, Asks
    <2>4. CASE Leased(state, r.job, r.agent) /\ SetState(k, server[k].client, st, NoAnswer)
        <3>1. state.jobs[r.job].known /\ state.jobs[r.job].status[r.agent] \notin EndStatus
            BY <2>4 DEF Leased, EndStatus
        <3>2. state.jobs[r.job].lease[r.agent] \in 0..MaxLeases
            BY <1>a, <2>2 DEF ControlState, JobRecord
        <3> HIDE DEF r
        <3>3. st \in ControlState
            BY <1>a, <2>2, <3>2, WithStatusType
        <3>4. Advance(state, st) /\ LaterJobs(st, created)
            BY <1>a, <2>2, <3>1, <3>2, WithStatusAdvances
        <3> HIDE DEF st
        <3> QED
            BY <1>b, <1>c, <2>1, <2>4, <3>3, <3>4, SetsOther
    <2>5. \/ Refuse(k)
          \/ Leased(state, r.job, r.agent) /\ SetState(k, server[k].client, st, NoAnswer)
        BY <1>5 DEF CompleteJob
    <2> HIDE DEF r, st
    <2> QED
        BY <2>1, <2>3, <2>4, <2>5
<1>6. ASSUME ReceiveUpload(k)
      PROVE  /\ Sets(k) \/ Refuses(k) \/ Starts(k)
             /\ UNCHANGED <<client, local, main, tmp, created>>
    <2> DEFINE r == server[k].req
    <2>1. Asks(k, "upload") /\ Alone(k) /\ UNCHANGED <<client, local, main, tmp, created>>
        BY <1>6, NowIsAlone DEF ReceiveUpload, Arrives
    <2>2. r \in UploadRequest
        BY <2>1, AsksShape
    <2>3. CASE Refuse(k)
        BY <2>1, <2>3 DEF Refuses, Asks
    <2>4. CASE Starts(k)
        BY <2>1, <2>4
    <2>5. CASE /\ state.agents[r.agent].known /\ r.bundled = {}
               /\ SetState(k, server[k].client, AfterUpload(state, r), NoAnswer)
        <3> DEFINE st == AfterUpload(state, r)
        <3>1. st \in ControlState /\ st.jobs = state.jobs
            BY <1>a, <2>2, AfterUploadType
        <3>2. Advance(state, st) /\ Accepted(st, r)
            BY <1>a, <2>2, <2>5, AfterUploadAdvances
        <3> HIDE DEF st
        <3>3. LaterJobs(st, created')
            BY <1>a, <2>1, <3>1 DEF LaterJobs
        <3>4. \A c \in Client : Talking(k, c) /\ client[c].pc = "uploading" => client[c].req = r
            BY <1>c, <2>1 DEF AnswerInv, Promise, Talking, Asks
        <3>5. SetState(k, server[k].client, st, NoAnswer) /\ ~Free(k)
            BY <2>1, <2>5 DEF st, Asks
        <3> QED
            BY <1>b, <2>1, <3>1, <3>2, <3>3, <3>4, <3>5 DEF Sets
    <2>6. \/ Refuse(k) \/ Starts(k)
          \/ /\ state.agents[r.agent].known /\ r.bundled = {}
             /\ SetState(k, server[k].client, AfterUpload(state, r), NoAnswer)
        BY <1>6, <2>1 DEF ReceiveUpload, Acceptable, Starts
    <2> QED
        BY <2>3, <2>4, <2>5, <2>6
<1>7. ASSUME NEW s \in Source, StorePayload(k, s)
      PROVE  (Sets(k) \/ GoesOn(k)) /\ UNCHANGED <<client, local, main, tmp, created>>
    <2> DEFINE h == server[k]
    <2>1. /\ ~Free(k) /\ h.stage = "storing" /\ Fresh(k, s)
          /\ UNCHANGED <<client, local, main, tmp, created>>
        BY <1>7 DEF StorePayload
    <2>2. h \in Storing /\ h.req \in UploadRequest
        BY <2>1, HandlerShape DEF TypeInv, Storing
    <2>3. h.snap = state /\ \A x \in h.req.bundled \ h.left : h.req.gen[x] > state.agents[h.req.agent].gen[x]
        BY <1>c, <2>1 DEF UploadInv, Storage
    <2>4. Alone(k)
        BY <1>c, <2>1 DEF UploadInv, Alone
    <2>5. state.agents[h.req.agent].known
        BY <1>c, <2>1 DEF AnswerInv, Promise
    <2>6. CASE h.left = {s} /\ SetState(k, h.client, AfterUpload(h.snap, h.req), NoAnswer)
        <3> DEFINE st == AfterUpload(state, h.req)
        <3>1. st \in ControlState /\ st.jobs = state.jobs
            BY <1>a, <2>2, AfterUploadType
        <3>2. \A x \in h.req.bundled : h.req.gen[x] > state.agents[h.req.agent].gen[x]
            BY <2>1, <2>3, <2>6 DEF Fresh
        <3>3. Advance(state, st) /\ Accepted(st, h.req)
            BY <1>a, <2>2, <2>5, <3>2, AfterUploadAdvances
        <3>4. SetState(k, h.client, st, NoAnswer)
            BY <2>3, <2>6
        <3> HIDE DEF st
        <3>5. LaterJobs(st, created')
            BY <1>a, <2>1, <3>1 DEF LaterJobs
        <3>6. \A c \in Client : Talking(k, c) /\ client[c].pc = "uploading" => client[c].req = h.req
            BY <1>c, <2>1 DEF AnswerInv, Promise, Talking
        <3> QED
            BY <1>b, <2>1, <2>4, <3>1, <3>3, <3>4, <3>5, <3>6 DEF Sets
    <2>7. CASE /\ server' = [server EXCEPT ![k] = [server[k] EXCEPT !.left = server[k].left \ {s}]]
               /\ state' = state
        BY <2>1, <2>7 DEF GoesOn, AtStage
    <2>8. \/ h.left = {s} /\ SetState(k, h.client, AfterUpload(h.snap, h.req), NoAnswer)
          \/ /\ server' = [server EXCEPT ![k] = [server[k] EXCEPT !.left = server[k].left \ {s}]]
             /\ state' = state
        BY <1>7 DEF StorePayload, TypeInv
    <2> QED
        BY <2>1, <2>6, <2>7, <2>8
<1>8. ASSUME RejectStale(k) \/ StoreFails(k)
      PROVE  Refuses(k) /\ UNCHANGED <<client, local, main, tmp, created>>
    BY <1>8 DEF RejectStale, StoreFails, Refuses
<1> QED
    BY <1>d, <1>1, <1>2, <1>3, <1>4, <1>5, <1>6, <1>7, <1>8 DEF Handles

----------------------------------------------------------------------------
(* Every step keeps what is known of the handlers.                         *)

LEMMA PromiseOn ==
    ASSUME TypeInv, NEW k \in Conn, NEW st \in ControlState, Kept(state, st), NEW procs,
           Promise(server[k], state, client),
           \A c \in Client : Talking(k, c) => procs[c] = client[c]
    PROVE  Promise(server[k], st, procs)
<1> DEFINE h == server[k]
<1>1. state \in ControlState /\ h \in Handler
    BY DEF TypeInv, TypeOK
<1>2. h.stage = "storing" => h.req.agent \in Agent
    BY <1>1, HandlerShape DEF Storing, UploadRequest
<1>3. ASSUME NEW c \in Client, h # NoRequest, h.client = c, procs[c].pc = "uploading"
      PROVE  /\ h.stage \in {"arriving", "storing"} => h.req = procs[c].req
             /\ h.stage \in Answered /\ h.answer.ok => Accepted(st, procs[c].req)
    <2>1. procs[c] = client[c] /\ client[c] \in ClientState
        BY <1>3 DEF Talking, TypeInv
    <2>2. client[c] \in Sending
        BY <1>3, <2>1 DEF ClientState, Probing, RecordingState, ReportingState
    <2> DEFINE r == client[c].req
    <2>3. r.agent \in Agent /\ r.bundled \subseteq Source /\ r.gen \in [Source -> Nat]
        BY <2>2 DEF Sending, UploadRequest, Generations
    <2>4. \A s \in Source : /\ state.agents[r.agent].gen[s] \in Nat
                            /\ st.agents[r.agent].gen[s] \in Nat
        BY <1>1, <2>3 DEF ControlState, AgentRecord, Generations
    <2>5. Accepted(state, r) => Accepted(st, r)
        BY <2>3, <2>4 DEF Accepted, Kept
    <2> QED
        BY <1>3, <2>1, <2>5 DEF Promise
<1>4. h.stage \in Answered /\ h.answer.agent \in Agent => st.agents[h.answer.agent].known
    BY DEF Promise, Kept
<1>5. h.stage = "storing" => st.agents[h.req.agent].known
    BY <1>2 DEF Promise, Kept
<1> QED
    BY <1>3, <1>4, <1>5 DEF Promise

\* One handler changes, and with it at most the client that it talks to.
LEMMA ServerStep ==
    ASSUME TypeInv, ServerInv, NEW k \in Conn, NEW h, server' = [server EXCEPT ![k] = h],
           created \in Nat, created' \in Nat, created <= created',
           Copies' \subseteq Copies \cup {state'},
           \/ state' = state
           \/ state' \in ControlState /\ Kept(state, state') /\ LaterJobs(state', created') /\ Alone(k),
           h.stage = "storing" => Alone(k) /\ Storage(h, state'),
           \A i \in Conn \ {k}, c \in Client : Talking(i, c) => client'[c] = client[c],
           Promise(h, state', client')
    PROVE  ServerInv'
<1>1. \A i \in Conn : server'[i] = IF i = k THEN h ELSE server[i]
    BY DEF TypeInv
<1>2. state \in ControlState /\ Kept(state, state)
    BY KeptSame DEF TypeInv, TypeOK, Advance
<1>3. UploadInv'
    <2> SUFFICES ASSUME NEW i \in Conn, server'[i].stage = "storing"
                 PROVE  /\ Storage(server'[i], state')
                        /\ \A j \in Conn : server'[j].stage = "storing" => j = i
        BY DEF UploadInv, Storage
    <2>1. CASE i = k
        BY <1>1, <2>1 DEF Alone
    <2>2. CASE i # k
        <3>1. server'[i] = server[i] /\ server[i].stage = "storing"
            BY <1>1, <2>2
        <3>2. Storage(server[i], state) /\ \A j \in Conn : server[j].stage = "storing" => j = i
            BY <3>1 DEF ServerInv, UploadInv
        <3>3. ~Alone(k)
            BY <2>2, <3>1 DEF Alone
        <3> QED
            BY <1>1, <3>1, <3>2, <3>3
    <2> QED
        BY <2>1, <2>2
<1>4. AnswerInv'
    <2> SUFFICES ASSUME NEW i \in Conn PROVE Promise(server'[i], state', client')
        BY DEF AnswerInv, Promise, Accepted
    <2>1. CASE i = k
        BY <1>1, <2>1
    <2>2. CASE i # k
        <3>1. server'[i] = server[i] /\ \A c \in Client : Talking(i, c) => client'[c] = client[c]
            BY <1>1, <2>2
        <3>2. Promise(server[i], state, client)
            BY DEF ServerInv, AnswerInv
        <3>3. state' \in ControlState /\ Kept(state, state')
            BY <1>2
        <3> QED
            BY <3>1, <3>2, <3>3, PromiseOn
    <2> QED
        BY <2>1, <2>2
<1>5. LaterInv'
    <2>1. \A st \in Copies : LaterJobs(st, created)
        BY DEF ServerInv, LaterInv
    <2>2. \A st \in Copies : LaterJobs(st, created')
        BY <2>1, RemoteAgentAssumption DEF LaterJobs, Job
    <2>3. LaterJobs(state', created')
        BY <2>2 DEF Copies
    <2>4. \A st \in Copies' : LaterJobs(st, created')
        BY <2>2, <2>3
    <2> QED
        BY <2>4 DEF LaterInv, LaterJobs
<1> QED
    BY <1>3, <1>4, <1>5 DEF ServerInv

\* A client changes that no handler talks to, or none.
LEMMA QuietStep ==
    ASSUME TypeInv, ServerInv, UNCHANGED <<server, state, main, tmp, created>>,
           \A i \in Conn, c \in Client : Talking(i, c) => client'[c] = client[c]
    PROVE  ServerInv'
<1>1. state \in ControlState /\ Kept(state, state)
    BY KeptSame DEF TypeInv, TypeOK, Advance
<1>2. UploadInv'
    BY DEF ServerInv, UploadInv, Storage
<1>3. AnswerInv'
    <2> SUFFICES ASSUME NEW i \in Conn PROVE Promise(server'[i], state', client')
        BY DEF AnswerInv, Promise, Accepted
    <2>1. Promise(server[i], state, client')
        BY <1>1, PromiseOn DEF ServerInv, AnswerInv
    <2> QED
        BY <2>1
<1>4. LaterInv'
    <2>1. Copies' = Copies
        BY DEF Copies
    <2>2. \A st \in Copies' : LaterJobs(st, created')
        BY <2>1 DEF ServerInv, LaterInv
    <2> QED
        BY <2>2 DEF LaterInv, LaterJobs
<1> QED
    BY <1>2, <1>3, <1>4 DEF ServerInv

LEMMA HandlerServerStep ==
    ASSUME TypeInv, OneUploadAtATime, ServerInv, NEW k \in Conn, Handles(k)
    PROVE  ServerInv'
<1>a. /\ Sets(k) \/ Refuses(k) \/ Starts(k) \/ GoesOn(k)
      /\ UNCHANGED <<client, main, tmp>> /\ created' \in Nat /\ created <= created'
    BY HandlerOutcome
<1>b. created \in Nat /\ server[k] \in Handler
    BY RemoteAgentAssumption DEF TypeInv, TypeOK
<1>c. Promise(server[k], state, client)
    BY DEF ServerInv, AnswerInv
<1>d. ASSUME NEW h, server' = [server EXCEPT ![k] = h],
             \/ state' = state
             \/ state' \in ControlState /\ Kept(state, state') /\ LaterJobs(state', created') /\ Alone(k),
             h.stage = "storing" => Alone(k) /\ Storage(h, state'),
             HeldBy(h) \subseteq Copies \cup {state'}, Promise(h, state', client')
      PROVE  ServerInv'
    <2>1. \A i \in Conn \ {k}, c \in Client : Talking(i, c) => client'[c] = client[c]
        BY <1>a
    <2>2. Copies' \subseteq Copies \cup {state'}
        BY <1>a, <1>d, HandlerCopies
    <2> QED
        BY <1>a, <1>b, <1>d, <2>1, <2>2, ServerStep
<1>1. CASE Sets(k)
    <2>1. PICK st \in ControlState, answer \in Answer :
              /\ SetState(k, IF Free(k) THEN Nobody ELSE server[k].client, st, answer)
              /\ Advance(state, st) /\ LaterJobs(st, created')
              /\ answer.agent \in Agent => st.agents[answer.agent].known
              /\ answer.ok => \A c \in Client : Talking(k, c) /\ client[c].pc = "uploading"
                                                  => Accepted(st, client[c].req)
              /\ Alone(k)
        BY <1>1 DEF Sets
    <2> DEFINE h == [stage |-> "saving", client |-> IF Free(k) THEN Nobody ELSE server[k].client,
                     save |-> st, fd |-> "none", answer |-> answer]
    <2>2. server' = [server EXCEPT ![k] = h] /\ state' = st
        BY <2>1 DEF SetState
    <2>3. HeldBy(h) = {st}
        BY DEF HeldBy
    <2>4. \A c \in Client : h.client = c => Talking(k, c)
        BY RemoteAgentAssumption DEF Talking, Free
    <2>5. Promise(h, st, client)
        BY <2>1, <2>4 DEF Promise, Answered
    <2>6. Kept(state, st)
        BY <2>1 DEF Advance
    <2>7. h.stage # "storing"
        OBVIOUS
    <2> HIDE DEF h
    <2> QED
        BY <1>a, <1>d, <2>1, <2>2, <2>3, <2>5, <2>6, <2>7
<1>2. CASE Refuses(k)
    <2> DEFINE h == [stage |-> "answering", client |-> server[k].client,
                     answer |-> [NoAnswer EXCEPT !.ok = FALSE]]
    <2>1. server' = [server EXCEPT ![k] = h] /\ state' = state
        BY <1>2 DEF Refuses, Refuse, Respond
    <2>2. h.answer.ok = FALSE /\ h.answer.agent \notin Agent
        BY RemoteAgentAssumption DEF NoAnswer
    <2>3. Promise(h, state, client)
        BY <2>2 DEF Promise
    <2>4. HeldBy(h) = {} /\ h.stage # "storing"
        BY DEF HeldBy
    <2> HIDE DEF h
    <2> QED
        BY <1>a, <1>d, <2>1, <2>3, <2>4
<1>3. CASE Starts(k)
    <2> DEFINE h == [stage |-> "storing", client |-> server[k].client, req |-> server[k].req,
                     snap |-> state, left |-> server[k].req.bundled]
    <2>1. /\ server' = [server EXCEPT ![k] = h] /\ state' = state /\ Alone(k)
          /\ server[k] # NoRequest /\ server[k].stage = "arriving"
          /\ state.agents[server[k].req.agent].known
        BY <1>3 DEF Starts, Asks, Free
    <2>2. Promise(h, state, client)
        BY <1>c, <2>1 DEF Promise, Answered
    <2>3. HeldBy(h) = {state} /\ Storage(h, state)
        BY DEF HeldBy, Storage
    <2> HIDE DEF h
    <2> QED
        BY <1>a, <1>d, <2>1, <2>2, <2>3
<1>4. CASE GoesOn(k)
    <2>1. PICK s \in Source :
              /\ AtStage(k, "storing") /\ Fresh(k, s)
              /\ server' = [server EXCEPT ![k] = [server[k] EXCEPT !.left = server[k].left \ {s}]]
              /\ state' = state
        BY <1>4 DEF GoesOn
    <2> DEFINE h == [server[k] EXCEPT !.left = server[k].left \ {s}]
    <2>2. server[k] \in Storing /\ server[k].stage = "storing" /\ server[k] # NoRequest
        BY <1>b, <2>1, HandlerShape DEF AtStage, Free
    <2>3. /\ h.stage = "storing" /\ h.client = server[k].client /\ h.req = server[k].req
          /\ h.snap = server[k].snap /\ h.left = server[k].left \ {s}
        BY <2>2 DEF Storing
    <2>4. Alone(k) /\ Storage(server[k], state)
        BY <2>2 DEF ServerInv, UploadInv, Alone
    <2>5. Storage(h, state)
        BY <2>1, <2>3, <2>4 DEF Storage, Fresh
    <2>6. HeldBy(h) = HeldBy(server[k]) /\ HeldBy(server[k]) \subseteq Copies
        BY <2>2, <2>3, HeldIsCopy DEF HeldBy
    <2>7. Promise(h, state, client)
        BY <1>c, <2>2, <2>3 DEF Promise, Answered
    <2>8. server' = [server EXCEPT ![k] = h] /\ state' = state
        BY <2>1
    <2> HIDE DEF h
    <2> QED
        BY <1>a, <1>d, <2>4, <2>5, <2>6, <2>7, <2>8
<1> QED
    BY <1>a, <1>1, <1>2, <1>3, <1>4

LEMMA ClientServerStep ==
    ASSUME TypeInv, ServerInv
    PROVE  /\ \A c \in Client :
                 /\ \A k \in Conn : BeginPair(c, k) \/ BeginPull(c, k) \/ SendUpload(c, k) \/ Report(c, k)
                                       => ServerInv'
                 /\ \A scope \in Scopes : BeginUpload(c, scope) => ServerInv'
                 /\ \A presence \in [Source -> Presences] : Probe(c, presence) => ServerInv'
                 /\ ReadLocalState(c) \/ WriteLocalState(c) \/ CommandFails(c) => ServerInv'
                 /\ \A torn \in BOOLEAN : Kill(c, torn) => ServerInv'
           /\ \A s \in Source : EditSource(s) => ServerInv'
           /\ \A l \in 1..MaxLeases : Expire(l) => ServerInv'
           /\ UNCHANGED vars => ServerInv'
<1> USE DEF hosts, files, history
<1>a. created \in Nat
    BY RemoteAgentAssumption DEF TypeInv, TypeOK
<1>b. ASSUME NEW c \in Client, NEW p, client' = [client EXCEPT ![c] = p], client[c].pc \notin WaitingPc
      PROVE  \A i \in Conn, d \in Client : Talking(i, d) => d # c /\ client'[d] = client[d]
    BY <1>b DEF TypeInv, TalksInv
<1>c. ASSUME NEW c \in Client, NEW k \in Conn, NEW req, NEW p, Send(c, k, req),
             client[c].pc \notin WaitingPc, client' = [client EXCEPT ![c] = p],
             p.pc = "uploading" => req = p.req, UNCHANGED <<state, main, tmp, created>>
      PROVE  ServerInv'
    <2> DEFINE h == [stage |-> "arriving", client |-> c, req |-> req]
    <2>1. server' = [server EXCEPT ![k] = h] /\ client'[c] = p
        BY <1>c DEF Send, TypeInv
    <2>2. Promise(h, state, client')
        BY <1>c, <2>1 DEF Promise, Answered
    <2>3. HeldBy(h) = {} /\ h.stage # "storing"
        BY DEF HeldBy
    <2>4. \A i \in Conn \ {k}, d \in Client : Talking(i, d) => client'[d] = client[d]
        BY <1>b, <1>c
    <2>5. UNCHANGED <<state, main, tmp>> /\ created' \in Nat /\ created <= created'
        BY <1>a, <1>c
    <2>6. Promise(h, state', client')
        BY <2>2, <2>5
    <2> HIDE DEF h
    <2>7. Copies' \subseteq Copies \cup {state'}
        BY <2>1, <2>3, <2>5, HandlerCopies
    <2> QED
        BY <1>a, <2>1, <2>3, <2>4, <2>5, <2>6, <2>7, ServerStep
<1>d. ASSUME NEW c \in Client, NEW p, client[c].pc \notin WaitingPc,
             client' = [client EXCEPT ![c] = p], UNCHANGED <<server, state, main, tmp, created>>
      PROVE  ServerInv'
    BY <1>b, <1>d, QuietStep
<1>1. ASSUME NEW c \in Client, NEW k \in Conn, BeginPair(c, k) PROVE ServerInv'
    <2> DEFINE p == [pc |-> "pairing"]
               req == [kind |-> "pair"]
    <2>1. /\ Send(c, k, req) /\ client' = [client EXCEPT ![c] = p] /\ p.pc # "uploading"
          /\ client[c].pc \notin WaitingPc /\ UNCHANGED <<state, main, tmp, created>>
        BY <1>1 DEF BeginPair, Idle, WaitingPc
    <2> HIDE DEF p, req
    <2> QED
        BY <1>c, <2>1
<1>2. ASSUME NEW c \in Client, NEW k \in Conn, BeginPull(c, k) PROVE ServerInv'
    <2> DEFINE p == [pc |-> "leasing", agent |-> local[HostOf[c]].agent]
               req == [kind |-> "lease", agent |-> local[HostOf[c]].agent]
    <2>1. /\ Send(c, k, req) /\ client' = [client EXCEPT ![c] = p] /\ p.pc # "uploading"
          /\ client[c].pc \notin WaitingPc /\ UNCHANGED <<state, main, tmp, created>>
        BY <1>2 DEF BeginPull, Idle, WaitingPc
    <2> HIDE DEF p, req
    <2> QED
        BY <1>c, <2>1
<1>3. ASSUME NEW c \in Client, NEW k \in Conn, SendUpload(c, k) PROVE ServerInv'
    <2> DEFINE p == [client[c] EXCEPT !.pc = "uploading"]
    <2>1. client[c] \in Sending
        BY <1>3 DEF SendUpload, TypeInv, ClientState, Probing, RecordingState, ReportingState
    <2>2. p.req = client[c].req
        BY <2>1 DEF Sending
    <2>3. client' = [client EXCEPT ![c] = p]
        BY <1>3 DEF SendUpload, TypeInv
    <2> HIDE DEF p
    <2> QED
        BY <1>c, <1>3, <2>2, <2>3 DEF SendUpload, WaitingPc
<1>4. ASSUME NEW c \in Client, NEW k \in Conn, Report(c, k) PROVE ServerInv'
    <2> DEFINE p == [client[c] EXCEPT !.pc = "completing"]
    <2>1. client[c] \in ReportingState
        BY <1>4 DEF Report, TypeInv, ClientState, Probing, RecordingState, Sending
    <2>2. p.pc # "uploading"
        BY <2>1 DEF ReportingState
    <2>3. client' = [client EXCEPT ![c] = p] /\ \E req : Send(c, k, req)
        BY <1>4 DEF Report, TypeInv
    <2>4. client[c].pc \notin WaitingPc /\ UNCHANGED <<state, main, tmp, created>>
        BY <1>4 DEF Report, WaitingPc
    <2> HIDE DEF p
    <2> QED
        BY <1>c, <2>2, <2>3, <2>4
<1>5. ASSUME NEW c \in Client, NEW scope \in Scopes, BeginUpload(c, scope) PROVE ServerInv'
    <2>1. client[c] = Idle /\ Idle.pc \notin WaitingPc
        BY <1>5 DEF BeginUpload, Idle, WaitingPc
    <2>2. /\ client' = [client EXCEPT ![c] = Cycle(c, Nobody, 0, scope)]
          /\ UNCHANGED <<server, state, main, tmp, created>>
        BY <1>5 DEF BeginUpload
    <2> QED
        BY <1>d, <2>1, <2>2
<1>6. ASSUME NEW c \in Client, NEW presence \in [Source -> Presences], Probe(c, presence)
      PROVE  ServerInv'
    <2>1. /\ client[c].pc = "probing" /\ \E p : client' = [client EXCEPT ![c] = p]
          /\ UNCHANGED <<server, state, main, tmp, created>>
        BY <1>6 DEF Probe
    <2> QED
        BY <1>d, <2>1 DEF WaitingPc
<1>7. ASSUME NEW c \in Client, ReadLocalState(c) \/ WriteLocalState(c) \/ CommandFails(c)
      PROVE  ServerInv'
    <2>1. /\ client[c].pc \in {"leased", "recording", "probing"}
          /\ \E p : client' = [client EXCEPT ![c] = p]
          /\ UNCHANGED <<server, state, main, tmp, created>>
        BY <1>7 DEF ReadLocalState, WriteLocalState, CommandFails
    <2> QED
        BY <1>d, <2>1 DEF WaitingPc
<1>8. ASSUME NEW c \in Client, NEW torn \in BOOLEAN, Kill(c, torn) PROVE ServerInv'
    <2>1. \A i \in Conn : ~Talking(i, c)
        BY <1>8 DEF Kill, Waiting, Free, Talking
    <2>2. client' = [client EXCEPT ![c] = Idle] /\ UNCHANGED <<server, state, main, tmp, created>>
        BY <1>8 DEF Kill
    <2>3. \A i \in Conn, d \in Client : Talking(i, d) => client'[d] = client[d]
        BY <2>1, <2>2 DEF TypeInv
    <2> QED
        BY <2>2, <2>3, QuietStep
<1>9. ASSUME NEW s \in Source, EditSource(s) PROVE ServerInv'
    BY <1>9, QuietStep DEF EditSource
<1>10. ASSUME NEW l \in 1..MaxLeases, Expire(l) PROVE ServerInv'
    BY <1>10, QuietStep DEF Expire
<1>11. ASSUME UNCHANGED vars PROVE ServerInv'
    BY <1>11, QuietStep DEF vars
<1> QED
    BY <1>1, <1>2, <1>3, <1>4, <1>5, <1>6, <1>7, <1>8, <1>9, <1>10, <1>11

LEMMA TalkServerStep ==
    ASSUME TypeInv, ServerInv, NEW k \in Conn, Receive(k) \/ LoseMessage(k) \/ Abandon(k)
    PROVE  ServerInv'
<1> USE DEF hosts, files, history
<1> DEFINE c == server[k].client
<1>a. UNCHANGED <<state, main, tmp, created>> /\ created \in Nat /\ ~Free(k)
    BY RemoteAgentAssumption DEF Receive, LoseMessage, Abandon, Free, NoRequest, TypeInv, TypeOK
<1>b. created' \in Nat /\ created <= created' /\ state' = state
    BY <1>a
<1>c. \A i \in Conn \ {k}, d \in Client : Talking(i, d) => client'[d] = client[d]
    <2> SUFFICES ASSUME NEW i \in Conn \ {k}, NEW d \in Client, Talking(i, d)
                 PROVE  client'[d] = client[d]
        OBVIOUS
    <2>1. d # c
        BY <1>a DEF TypeInv, TalksInv, Talking, Free
    <2>2. client' = client \/ \E p : client' = [client EXCEPT ![c] = p]
        BY DEF Receive, LoseMessage, Abandon
    <2> QED
        BY <2>1, <2>2 DEF TypeInv
<1>1. CASE Receive(k) \/ LoseMessage(k)
    <2>1. server' = [server EXCEPT ![k] = NoRequest]
        BY <1>1 DEF Receive, LoseMessage
    <2>2. /\ HeldBy(NoRequest) = {} /\ NoRequest.stage # "storing"
          /\ Promise(NoRequest, state', client')
        BY DEF HeldBy, NoRequest, Promise, Answered
    <2>3. Copies' \subseteq Copies \cup {state'}
        BY <1>a, <2>1, <2>2, HandlerCopies
    <2> QED
        BY <1>b, <1>a, <1>c, <2>1, <2>2, <2>3, ServerStep
<1>2. CASE Abandon(k)
    <2> DEFINE h == [server[k] EXCEPT !.client = Nobody]
    <2>1. server' = [server EXCEPT ![k] = h] /\ server[k] \in Handler
        BY <1>2 DEF Abandon, TypeInv
    <2>2. /\ h.client = Nobody /\ h.stage = server[k].stage
          /\ h.stage = "storing" => /\ h.req = server[k].req /\ h.left = server[k].left
                                    /\ h.snap = server[k].snap
          /\ h.stage \in Answered => h.answer = server[k].answer
          /\ HeldBy(h) = HeldBy(server[k])
        BY <1>a, <2>1 DEF Handler, Arriving, Storing, Saving, Answering, Free, Answered, HeldBy
    <2>3. Promise(server[k], state, client)
        BY DEF ServerInv, AnswerInv
    <2> HIDE DEF h
    <2>4. Promise(h, state, client')
        BY <2>2, <2>3, RemoteAgentAssumption DEF Promise
    <2>5. h.stage = "storing" => Alone(k) /\ Storage(h, state)
        BY <2>2 DEF ServerInv, UploadInv, Alone, Storage
    <2>6. Copies' \subseteq Copies \cup {state'}
        BY <1>a, <2>1, <2>2, HandlerCopies, HeldIsCopy
    <2>7. Promise(h, state', client') /\ (h.stage = "storing" => Alone(k) /\ Storage(h, state'))
        BY <1>b, <2>4, <2>5
    <2> QED
        BY <1>b, <1>a, <1>c, <2>1, <2>6, <2>7, ServerStep
<1> QED
    BY <1>1, <1>2

\* Renaming changes of the other handlers only what they have open.
LEMMA RenamedSame ==
    ASSUME NEW h \in Handler
    PROVE  /\ Renamed(h) # NoRequest <=> h # NoRequest
           /\ Renamed(h).stage = h.stage
           /\ h # NoRequest => Renamed(h).client = h.client
           /\ h.stage \in Answered => Renamed(h).answer = h.answer
           /\ h.stage # "opened" => Renamed(h) = h
           /\ h.stage \in {"saving", "opened"} => Renamed(h).save = h.save
<1>1. CASE h.stage = "opened" /\ h # NoRequest
    <2>1. h \in Saving
        BY <1>1, HandlerShape
    <2>2. Renamed(h).stage # "free"
        BY <1>1, <2>1 DEF Renamed, Saving
    <2> QED
        BY <1>1, <2>1, <2>2 DEF Renamed, Saving, NoRequest
<1>2. CASE ~(h.stage = "opened" /\ h # NoRequest)
    BY <1>2, HandlerShape DEF Renamed, NoRequest
<1> QED
    BY <1>1, <1>2

LEMMA SaveServerStep ==
    ASSUME TypeInv, ServerInv, NEW k \in Conn
    PROVE  /\ OpenTemporary(k) => ServerInv'
           /\ \A content \in {server[k].save, Torn} : RenameTemporary(k, content) => ServerInv'
<1> USE DEF hosts, files, history
<1>a. Promise(server[k], state, client) /\ created \in Nat
    BY RemoteAgentAssumption DEF ServerInv, AnswerInv, TypeInv, TypeOK
<1>b. ASSUME NEW h, server' = [server EXCEPT ![k] = h], h.stage # "storing",
             UNCHANGED <<client, state, created>>, Copies' \subseteq Copies,
             Promise(h, state, client)
      PROVE  ServerInv'
    <2>1. created' \in Nat /\ created <= created' /\ Copies' \subseteq Copies \cup {state'}
        BY <1>a, <1>b
    <2>2. \A i \in Conn \ {k}, c \in Client : Talking(i, c) => client'[c] = client[c]
        BY <1>b
    <2>3. Promise(h, state', client')
        BY <1>b
    <2> QED
        BY <1>a, <1>b, <2>1, <2>2, <2>3, ServerStep
<1>1. ASSUME OpenTemporary(k) PROVE ServerInv'
    <2> DEFINE h == [server[k] EXCEPT !.stage = "opened", !.fd = "tmp"]
    <2>1. server[k] \in Saving /\ server[k].stage = "saving"
        BY <1>1, HandlerShape DEF OpenTemporary, AtStage, TypeInv
    <2>2. server' = [server EXCEPT ![k] = h] /\ UNCHANGED <<client, state, created>>
        BY <1>1 DEF OpenTemporary, TypeInv
    <2>3. h.stage = "opened" /\ h.client = server[k].client /\ h.answer = server[k].answer
        BY <2>1 DEF Saving
    <2>4. Copies' \subseteq Copies /\ server[k] # NoRequest
        BY <1>1, SaveCopies DEF OpenTemporary, AtStage, Free
    <2> HIDE DEF h
    <2>5. Promise(h, state, client)
        BY <1>a, <2>1, <2>3, <2>4 DEF Promise, Answered
    <2> QED
        BY <1>b, <2>2, <2>3, <2>4, <2>5
<1>2. ASSUME NEW content \in {server[k].save, Torn}, RenameTemporary(k, content) PROVE ServerInv'
    <2>1. /\ server[k] \in Saving /\ server[k].stage = "opened" /\ server[k] # NoRequest
          /\ UNCHANGED <<client, state, created>> /\ Copies' \subseteq Copies
        BY <1>2, HandlerShape, SaveCopies DEF RenameTemporary, AtStage, Free, TypeInv
    <2>2. CASE tmp = NoFile
        <3> DEFINE h == [stage |-> "answering", client |-> server[k].client,
                         answer |-> [NoAnswer EXCEPT !.ok = FALSE]]
        <3>1. server' = [server EXCEPT ![k] = h]
            BY <1>2, <2>2 DEF RenameTemporary, Respond
        <3>2. h.answer.ok = FALSE /\ h.answer.agent \notin Agent /\ h.stage = "answering"
            BY RemoteAgentAssumption DEF NoAnswer
        <3>3. Promise(h, state, client)
            BY <3>2 DEF Promise
        <3> HIDE DEF h
        <3> QED
            BY <1>b, <2>1, <3>1, <3>2, <3>3
    <2>3. CASE tmp # NoFile
        <3> DEFINE g == [stage |-> "answering", client |-> server[k].client,
                         answer |-> server[k].answer]
        <3>1. \A i \in Conn : server'[i] = IF i = k THEN g ELSE Renamed(server[i])
            BY <1>2, <2>3 DEF RenameTemporary
        <3>2. Promise(g, state, client)
            BY <1>a, <2>1 DEF Promise, Answered
        <3>3. g.stage = "answering"
            OBVIOUS
        <3> HIDE DEF g
        <3>4. \A i \in Conn : server'[i].stage = "storing" =>
                  i # k /\ server'[i] = server[i] /\ server[i].stage = "storing"
            BY <3>1, <3>3, RenamedSame DEF TypeInv
        <3>5. UploadInv'
            BY <2>1, <3>4 DEF ServerInv, UploadInv, Storage
        <3>6. AnswerInv'
            <4> SUFFICES ASSUME NEW i \in Conn PROVE Promise(server'[i], state, client)
                BY <2>1 DEF AnswerInv, Promise, Accepted
            <4>1. CASE i = k
                BY <3>1, <3>2, <4>1
            <4>2. CASE i # k
                <5> DEFINE h == server[i]
                           r == Renamed(server[i])
                <5>1. server'[i] = r /\ Promise(h, state, client)
                    BY <3>1, <4>2 DEF ServerInv, AnswerInv
                <5>2. /\ r # NoRequest <=> h # NoRequest
                      /\ r.stage = h.stage
                      /\ h # NoRequest => r.client = h.client
                      /\ h.stage \in Answered => r.answer = h.answer
                      /\ h.stage # "opened" => r = h
                    BY RenamedSame DEF TypeInv
                <5> HIDE DEF r, h
                <5>3. Promise(r, state, client)
                    BY <5>1, <5>2 DEF Promise, Answered
                <5> QED
                    BY <5>1, <5>3
            <4> QED
                BY <4>1, <4>2
        <3>7. LaterInv'
            <4>1. \A st \in Copies' : LaterJobs(st, created')
                BY <2>1 DEF ServerInv, LaterInv
            <4> QED
                BY <4>1 DEF LaterInv, LaterJobs
        <3> QED
            BY <3>5, <3>6, <3>7 DEF ServerInv
    <2> QED
        BY <2>2, <2>3
<1> QED
    BY <1>1, <1>2

LEMMA EmptyLater == LaterJobs(EmptyState, created)
BY DEF LaterJobs, EmptyState, NoJob, NewJob

LEMMA CrashServerStep ==
    ASSUME TypeInv, ServerInv, CrashServer
    PROVE  ServerInv'
<1>1. \A i \in Conn : server'[i] = NoRequest
    BY DEF CrashServer
<1>2. UploadInv'
    BY <1>1 DEF UploadInv, NoRequest
<1>3. AnswerInv'
    BY <1>1 DEF AnswerInv, Promise, NoRequest, Answered
<1>4. LaterInv'
    <2>1. \A i \in Conn : HeldBy(server[i])' = {}
        BY <1>1 DEF HeldBy, NoRequest
    <2>2. UNCHANGED <<main, tmp, created>> /\ state' = ReadState
        BY DEF CrashServer, files, history
    <2>3. ReadState \in Copies \cup {EmptyState}
        BY DEF ReadState, Copies
    <2>4. Copies' \subseteq Copies \cup {EmptyState}
        BY <2>1, <2>2, <2>3 DEF Copies
    <2>5. \A st \in Copies' : LaterJobs(st, created')
        BY <2>2, <2>4, EmptyLater DEF ServerInv, LaterInv
    <2> QED
        BY <2>5 DEF LaterInv, LaterJobs
<1> QED
    BY <1>2, <1>3, <1>4 DEF ServerInv

LEMMA ServerInit == Init => ServerInv
<1> SUFFICES ASSUME Init PROVE ServerInv
    OBVIOUS
<1>1. \A i \in Conn : server[i] = NoRequest
    BY DEF Init
<1>2. UploadInv /\ AnswerInv
    BY <1>1 DEF UploadInv, AnswerInv, Promise, NoRequest, Answered
<1>3. Copies = {EmptyState}
    BY DEF Init, Copies, HeldBy, NoRequest
<1> QED
    BY <1>2, <1>3, EmptyLater DEF ServerInv, LaterInv

\* Next, in the groups of the lemmas.
LEMMA StepGroups ==
    ASSUME [Next]_vars
    PROVE  \/ \E c \in Client :
                 \/ \E k \in Conn : BeginPair(c, k) \/ BeginPull(c, k) \/ SendUpload(c, k) \/ Report(c, k)
                 \/ \E scope \in Scopes : BeginUpload(c, scope)
                 \/ \E presence \in [Source -> Presences] : Probe(c, presence)
                 \/ ReadLocalState(c) \/ WriteLocalState(c) \/ CommandFails(c)
                 \/ \E torn \in BOOLEAN : Kill(c, torn)
           \/ (\E s \in Source : EditSource(s)) \/ (\E l \in 1..MaxLeases : Expire(l)) \/ UNCHANGED vars
           \/ \E k \in Conn :
                 \/ Handles(k)
                 \/ OpenTemporary(k)
                 \/ \E content \in {server[k].save, Torn} : RenameTemporary(k, content)
                 \/ Receive(k) \/ LoseMessage(k) \/ Abandon(k)
           \/ CrashServer
BY Steps DEF Handles

LEMMA ServerInvStep ==
    ASSUME OneUploadAtATime, TypeInv, ServerInv, [Next]_vars
    PROVE  ServerInv'
<1>1. CASE \/ \E c \in Client :
                 \/ \E k \in Conn : BeginPair(c, k) \/ BeginPull(c, k) \/ SendUpload(c, k) \/ Report(c, k)
                 \/ \E scope \in Scopes : BeginUpload(c, scope)
                 \/ \E presence \in [Source -> Presences] : Probe(c, presence)
                 \/ ReadLocalState(c) \/ WriteLocalState(c) \/ CommandFails(c)
                 \/ \E torn \in BOOLEAN : Kill(c, torn)
           \/ (\E s \in Source : EditSource(s)) \/ (\E l \in 1..MaxLeases : Expire(l)) \/ UNCHANGED vars
    BY <1>1, ClientServerStep
<1>2. CASE \E k \in Conn : Handles(k)
    BY <1>2, HandlerServerStep
<1>3. CASE \E k \in Conn :
              \/ OpenTemporary(k)
              \/ \E content \in {server[k].save, Torn} : RenameTemporary(k, content)
    BY <1>3, SaveServerStep
<1>4. CASE \E k \in Conn : Receive(k) \/ LoseMessage(k) \/ Abandon(k)
    BY <1>4, TalkServerStep
<1>5. CASE CrashServer
    BY <1>5, CrashServerStep
<1> QED
    BY StepGroups, <1>1, <1>2, <1>3, <1>4, <1>5

LEMMA ServerInvariant == OneUploadAtATime => (Spec => []ServerInv)
<1> SUFFICES ASSUME OneUploadAtATime PROVE Spec => []ServerInv
    OBVIOUS
<1>1. TypeInv /\ ServerInv /\ [Next]_vars => ServerInv'
    BY ServerInvStep
<1> QED
    BY TypeInvariant, ServerInit, <1>1, PTL DEF Spec

----------------------------------------------------------------------------
(* The control state advances.                                             *)

LEMMA OnlyHandlersSet ==
    ASSUME OneUploadAtATime, TypeInv, ServerInv, [Next]_vars, ~CrashServer
    PROVE  Advance(state, state')
<1> USE DEF hosts, files, history
<1>1. Advance(state, state)
    BY KeptSame DEF TypeInv, TypeOK
<1>2. CASE state' = state
    BY <1>1, <1>2
<1>3. CASE \E k \in Conn : Handles(k)
    <2>1. PICK k \in Conn : Sets(k) \/ Refuses(k) \/ Starts(k) \/ GoesOn(k)
        BY <1>3, HandlerOutcome
    <2>2. state' = state \/ Advance(state, state')
        BY <2>1 DEF Sets, Refuses, Starts, GoesOn, SetState, Refuse
    <2> QED
        BY <1>1, <2>2
<1>4. state' = state \/ \E k \in Conn : Handles(k)
    BY StepGroups DEF BeginPair, BeginPull, SendUpload, Report, BeginUpload, Probe, ReadLocalState,
        WriteLocalState, CommandFails, Kill, EditSource, Expire, vars, OpenTemporary,
        RenameTemporary, Receive, LoseMessage, Abandon
<1> QED
    BY <1>2, <1>3, <1>4

LEMMA AdvanceMeans ==
    ASSUME TypeInv, Advance(state, state')
    PROVE  \A a \in Agent :
              /\ state.agents[a].known => state'.agents[a].known
              /\ \A s \in Source : state'.agents[a].gen[s] >= state.agents[a].gen[s]
              /\ \A j \in Job :
                    /\ state.jobs[j].known => state'.jobs[j].known
                    /\ state.jobs[j].status[a] \in {"succeeded", "failed"}
                          => state'.jobs[j].status[a] = state.jobs[j].status[a]
BY DEF Advance, Kept, JobsKept, EndStatus

CrashesCounted == crashes \in Nat

LEMMA CrashesCount == Spec => []CrashesCounted
<1>1. Init => CrashesCounted
    BY DEF Init, CrashesCounted
<1>2. CrashesCounted /\ [Next]_vars => CrashesCounted'
    <2> SUFFICES ASSUME CrashesCounted, [Next]_vars PROVE CrashesCounted'
        OBVIOUS
    <2>1. ASSUME NEW c \in Client,
                 \/ \E k \in Conn : BeginPair(c, k) \/ BeginPull(c, k) \/ SendUpload(c, k) \/ Report(c, k)
                 \/ \E scope \in Scopes : BeginUpload(c, scope)
                 \/ \E presence \in [Source -> Presences] : Probe(c, presence)
                 \/ ReadLocalState(c) \/ WriteLocalState(c) \/ CommandFails(c)
                 \/ \E torn \in BOOLEAN : Kill(c, torn)
          PROVE  crashes' = crashes
        BY <2>1 DEF BeginPair, BeginPull, SendUpload, Report, BeginUpload, Probe, ReadLocalState,
            WriteLocalState, CommandFails, Kill
    <2>2. ASSUME NEW k \in Conn,
                 \/ Handles(k) \/ OpenTemporary(k)
                 \/ \E content \in {server[k].save, Torn} : RenameTemporary(k, content)
                 \/ Receive(k) \/ LoseMessage(k) \/ Abandon(k)
          PROVE  crashes' = crashes
        BY <2>2 DEF Handles, Pair, Relabel, CreateJob, LeaseJob, CompleteJob, ReceiveUpload, StorePayload,
            RejectStale, StoreFails, OpenTemporary, RenameTemporary, Receive, LoseMessage, Abandon
    <2>3. ASSUME (\E s \in Source : EditSource(s)) \/ (\E l \in 1..MaxLeases : Expire(l)) \/ UNCHANGED vars
          PROVE  crashes' = crashes
        BY <2>3 DEF EditSource, Expire, vars
    <2>4. CrashServer => crashes' = crashes + 1
        BY DEF CrashServer
    <2> QED
        BY StepGroups, <2>1, <2>2, <2>3, <2>4 DEF CrashesCounted
<1> QED
    BY <1>1, <1>2, PTL DEF Spec

\* Between two restarts the control state only advances, if one upload is stored
\* at a time: an upload sets the state that it read when it arrived, so one that
\* awaits its raw blobs would take back what other handlers set meanwhile
\* (applyRemoteAgentUpload), and one that does not await cannot.
THEOREM AdvancesBetweenCrashes ==
    ASSUME OneUploadAtATime
    PROVE  Spec => [][~CrashServer => Advance(state, state')]_vars
<1>1. TypeInv /\ ServerInv /\ [Next]_vars => [~CrashServer => Advance(state, state')]_vars
    BY OnlyHandlersSet
<1> QED
    BY <1>1, TypeInvariant, ServerInvariant, PTL DEF Spec

\* While the server runs, agents stay known, accepted generations only grow, jobs
\* stay and finished jobs stay as they are, whatever the order in which any number
\* of handlers set the control state.
THEOREM StateOnlyAdvances ==
    ASSUME OneUploadAtATime, MaxCrashes = 0
    PROVE  Spec => ControlStateOnlyAdvances
<1> DEFINE Advances ==
        \A a \in Agent :
          /\ state.agents[a].known => state'.agents[a].known
          /\ \A s \in Source : state'.agents[a].gen[s] >= state.agents[a].gen[s]
          /\ \A j \in Job :
                /\ state.jobs[j].known => state'.jobs[j].known
                /\ state.jobs[j].status[a] \in {"succeeded", "failed"}
                      => state'.jobs[j].status[a] = state.jobs[j].status[a]
<1>1. TypeInv /\ ServerInv /\ CrashesCounted /\ [Next]_vars => Advances
    <2> SUFFICES ASSUME TypeInv, ServerInv, CrashesCounted, [Next]_vars PROVE Advances
        OBVIOUS
    <2>1. ~CrashServer
        BY DEF CrashServer, CrashesCounted
    <2>2. Advance(state, state')
        BY <2>1, OnlyHandlersSet
    <2> QED
        BY <2>2, AdvanceMeans
<1> HIDE DEF Advances
<1>2. Spec => [][Advances]_vars
    BY <1>1, TypeInvariant, ServerInvariant, CrashesCount, PTL DEF Spec
<1> QED
    BY <1>2 DEF Advances, ControlStateOnlyAdvances

----------------------------------------------------------------------------
(* What an agent was told is saved.                                        *)

OneRequestAtATime == \A i, k \in Conn : i = k

Saves == {"saving", "opened"}

\* The file lags behind the memory, and only while a handler saves.
SaveInv ==
    /\ main # Torn
    /\ Kept(ReadState, state)
    /\ \A k \in Conn :
          /\ server[k].stage \notin Saves => state = ReadState
          /\ server[k].stage \in Saves => server[k].save = state
          /\ server[k].stage = "opened" => server[k].fd = "tmp" /\ tmp = Torn

\* The pairing and the generations that file names are accepted in st.
Told(st, file) ==
    st.agents[file.agent].known /\ \A s \in Source : file.gen[s] <= st.agents[file.agent].gen[s]

\* The same of what a command carries with it; its upload is of its own agent.
Carries(p, st) ==
    p.pc \in {"probing", "sending", "uploading", "recording"} =>
        /\ Told(st, p.file)
        /\ p.pc \in {"sending", "uploading"} => p.req.agent = p.file.agent

FilesInv ==
    /\ \A h \in Host : Readable(h) => Told(ReadState, local[h])
    /\ \A c \in Client : Carries(client[c], ReadState)

SavedInv == SaveInv /\ FilesInv

LEMMA OneRequestOneUpload == OneRequestAtATime => OneUploadAtATime
BY DEF OneRequestAtATime, OneUploadAtATime

LEMMA ReadStateType == TypeInv => ReadState \in ControlState
BY EmptyType DEF TypeInv, TypeOK, ReadState

LEMMA ToldOn ==
    ASSUME NEW st \in ControlState, NEW new \in ControlState, Kept(st, new),
           NEW file \in FileState, Told(st, file)
    PROVE  Told(new, file)
<1>1. file.agent \in Agent /\ file.gen \in [Source -> Nat]
    BY DEF FileState, Generations
<1>2. \A s \in Source : st.agents[file.agent].gen[s] \in Nat /\ new.agents[file.agent].gen[s] \in Nat
    BY <1>1 DEF ControlState, AgentRecord, Generations
<1> QED
    BY <1>1, <1>2 DEF Told, Kept

\* Carrying does not depend on what else a process does.
LEMMA CarriesOther ==
    ASSUME NEW p, NEW st, p.pc \notin {"probing", "sending", "uploading", "recording"}
    PROVE  Carries(p, st)
BY DEF Carries

LEMMA FailedCarries ==
    ASSUME NEW p \in ClientState, NEW st, Carries(p, st)
    PROVE  Carries(Failed(p), st)
<1>1. CASE p.pc = "uploading" /\ p.tries > 0
    <2> DEFINE fewer == p.tries - 1
               q == [p EXCEPT !.pc = "sending", !.tries = fewer]
    <2>1. p \in Sending
        BY <1>1 DEF ClientState, Probing, RecordingState, ReportingState
    <2>2. q.pc = "sending" /\ q.file = p.file /\ q.req = p.req
        BY <2>1 DEF Sending
    <2>3. Failed(p) = q
        BY <1>1 DEF Failed
    <2> HIDE DEF q
    <2> QED
        BY <1>1, <2>2, <2>3 DEF Carries
<1>2. CASE ~(p.pc = "uploading" /\ p.tries > 0)
    <2>1. Failed(p).pc \in {"idle", "reporting"}
        <3>1. CASE p.pc = "uploading"
            <4>1. p \in Sending
                BY <3>1 DEF ClientState, Probing, RecordingState, ReportingState
            <4>2. p.tries = 0
                BY <1>2, <3>1, <4>1 DEF Sending
            <4> QED
                BY <3>1, <4>2 DEF Failed, Reporting, Idle
        <3>2. CASE p.pc # "uploading"
            BY <3>2 DEF Failed, Reporting, Idle
        <3> QED
            BY <3>1, <3>2
    <2> QED
        BY <2>1, CarriesOther
<1> QED
    BY <1>1, <1>2

\* A good answer: the control state that it was given on is saved.
LEMMA SucceededCarries ==
    ASSUME NEW p \in ClientState, NEW answer \in Answer, NEW st \in ControlState, Carries(p, st),
           p.pc = "pairing" => answer.agent \in Agent /\ st.agents[answer.agent].known,
           p.pc = "uploading" => Accepted(st, p.req)
    PROVE  Carries(Succeeded(p, answer), st)
<1>1. CASE p.pc = "pairing"
    <2> DEFINE file == [agent |-> answer.agent, gen |-> [s \in Source |-> 0],
                        sum |-> [s \in Source |-> 0]]
    <2>1. Succeeded(p, answer) = Recording(file, Nobody, 0)
        BY <1>1 DEF Succeeded
    <2>2. \A s \in Source : st.agents[answer.agent].gen[s] \in Nat
        BY <1>1 DEF ControlState, AgentRecord, Generations
    <2>3. Told(st, file)
        BY <1>1, <2>2 DEF Told
    <2> HIDE DEF file
    <2> QED
        BY <2>1, <2>3 DEF Carries, Recording
<1>2. CASE p.pc = "uploading"
    <2> DEFINE file == Uploaded(p.file, p.req)
    <2>1. Succeeded(p, answer) = Recording(file, p.puller, p.req.job)
        BY <1>2 DEF Succeeded
    <2>2. p \in Sending
        BY <1>2 DEF ClientState, Probing, RecordingState, ReportingState
    <2>3. p.file \in FileState /\ p.req \in UploadRequest
        BY <2>2 DEF Sending
    <2>4. /\ file.agent = p.file.agent
          /\ \A s \in Source : file.gen[s] = IF s \in p.req.bundled THEN p.req.gen[s] ELSE p.file.gen[s]
        BY <2>3 DEF Uploaded, FileState
    <2>5. Told(st, p.file) /\ p.req.agent = p.file.agent
        BY <1>2 DEF Carries
    <2> HIDE DEF file
    <2>6. Told(st, file)
        BY <1>2, <2>4, <2>5 DEF Told, Accepted
    <2> QED
        BY <2>1, <2>6 DEF Carries, Recording
<1>3. CASE p.pc \notin {"pairing", "uploading"}
    <2>1. Succeeded(p, answer).pc \in {"leased", "idle"}
        BY <1>3 DEF Succeeded, Idle
    <2> QED
        BY <2>1, CarriesOther
<1> QED
    BY <1>1, <1>2, <1>3

LEMMA FilesStep ==
    ASSUME TypeInv, FilesInv, NEW c \in Client, NEW p, client' = [client EXCEPT ![c] = p],
           UNCHANGED <<local, main>>, Carries(p, ReadState)
    PROVE  FilesInv'
<1>1. ReadState' = ReadState
    BY DEF ReadState
<1>2. \A d \in Client : client'[d] = IF d = c THEN p ELSE client[d]
    BY DEF TypeInv
<1>3. \A d \in Client : Carries(client'[d], ReadState)
    BY <1>2 DEF FilesInv
<1>4. \A h \in Host : Readable(h)' => Told(ReadState, local'[h])
    BY DEF FilesInv, Readable
<1> QED
    BY <1>1, <1>3, <1>4 DEF FilesInv, Carries, Told

LEMMA FilesSame ==
    ASSUME FilesInv, UNCHANGED <<client, local, main>>
    PROVE  FilesInv'
<1>1. ReadState' = ReadState
    BY DEF ReadState
<1> QED
    BY <1>1 DEF FilesInv, Carries, Told, Readable

\* Nothing happens to the memory or the files, and no handler begins or ends to save.
LEMMA SaveSame ==
    ASSUME SaveInv, UNCHANGED <<state, main, tmp>>,
           \A k \in Conn : \/ server'[k] = server[k]
                           \/ server'[k].stage \notin Saves /\ server[k].stage \notin Saves
                           \/ /\ server'[k].stage = server[k].stage /\ server[k].stage \in Saves
                              /\ server'[k].save = server[k].save /\ server'[k].fd = server[k].fd
    PROVE  SaveInv'
<1>1. ReadState' = ReadState
    BY DEF ReadState
<1>2. main' # Torn /\ Kept(ReadState', state')
    BY <1>1 DEF SaveInv
<1>3. ASSUME NEW k \in Conn
      PROVE  /\ server'[k].stage \notin Saves => state' = ReadState'
             /\ server'[k].stage \in Saves => server'[k].save = state'
             /\ server'[k].stage = "opened" => server'[k].fd = "tmp" /\ tmp' = Torn
    BY <1>1 DEF SaveInv, Saves
<1> QED
    BY <1>2, <1>3 DEF SaveInv, Kept

LEMMA ClientSavedStep ==
    ASSUME TypeInv, SavedInv
    PROVE  /\ \A c \in Client :
                 /\ \A k \in Conn : BeginPair(c, k) \/ BeginPull(c, k) \/ SendUpload(c, k) \/ Report(c, k)
                                       => SavedInv'
                 /\ \A scope \in Scopes : BeginUpload(c, scope) => SavedInv'
                 /\ \A presence \in [Source -> Presences] : Probe(c, presence) => SavedInv'
                 /\ ReadLocalState(c) \/ WriteLocalState(c) \/ CommandFails(c) => SavedInv'
                 /\ \A torn \in BOOLEAN : Kill(c, torn) => SavedInv'
           /\ \A s \in Source : EditSource(s) => SavedInv'
           /\ \A l \in 1..MaxLeases : Expire(l) => SavedInv'
           /\ UNCHANGED vars => SavedInv'
<1> USE DEF hosts, files, history
<1>a. SaveInv /\ FilesInv
    BY DEF SavedInv
<1>b. ASSUME UNCHANGED <<state, main, tmp, server>> PROVE SaveInv'
    BY <1>a, <1>b, SaveSame
<1>c. ASSUME NEW c \in Client, NEW k \in Conn, NEW req, Send(c, k, req), UNCHANGED <<state, main, tmp>>
      PROVE  SaveInv'
    <2>1. server[k] = NoRequest
        BY <1>c DEF Send, Free
    <2>2. \A i \in Conn : server'[i] = IF i = k THEN [stage |-> "arriving", client |-> c, req |-> req]
                                       ELSE server[i]
        BY <1>c DEF Send, TypeInv
    <2>3. server'[k].stage \notin Saves /\ server[k].stage \notin Saves
        BY <2>1, <2>2 DEF Saves, NoRequest
    <2> QED
        BY <1>a, <1>c, <2>2, <2>3, SaveSame
<1>d. ASSUME NEW c \in Client, NEW p, client' = [client EXCEPT ![c] = p], UNCHANGED <<local, main>>,
             p.pc \notin {"probing", "sending", "uploading", "recording"}
      PROVE  FilesInv'
    BY <1>a, <1>d, CarriesOther, FilesStep
<1>e. \A c \in Client : Readable(HostOf[c]) => Told(ReadState, local[HostOf[c]])
    BY <1>a, RemoteAgentAssumption DEF FilesInv
<1>1. ASSUME NEW c \in Client, NEW k \in Conn, BeginPair(c, k) PROVE SavedInv'
    <2>1. FilesInv'
        BY <1>1, <1>d DEF BeginPair
    <2>2. SaveInv'
        BY <1>1, <1>c DEF BeginPair
    <2> QED
        BY <2>1, <2>2 DEF SavedInv
<1>2. ASSUME NEW c \in Client, NEW k \in Conn, BeginPull(c, k) PROVE SavedInv'
    <2>1. FilesInv'
        BY <1>2, <1>d DEF BeginPull
    <2>2. SaveInv'
        BY <1>2, <1>c DEF BeginPull
    <2> QED
        BY <2>1, <2>2 DEF SavedInv
<1>3. ASSUME NEW c \in Client, NEW k \in Conn, SendUpload(c, k) PROVE SavedInv'
    <2> DEFINE p == [client[c] EXCEPT !.pc = "uploading"]
    <2>1. client[c] \in Sending /\ client[c].pc = "sending"
        BY <1>3 DEF SendUpload, TypeInv, ClientState, Probing, RecordingState, ReportingState
    <2>2. p.file = client[c].file /\ p.req = client[c].req
        BY <2>1 DEF Sending
    <2>3. client' = [client EXCEPT ![c] = p] /\ UNCHANGED <<local, main>>
        BY <1>3 DEF SendUpload, TypeInv
    <2> HIDE DEF p
    <2>4. Carries(p, ReadState)
        BY <1>a, <2>1, <2>2 DEF FilesInv, Carries
    <2>5. FilesInv'
        BY <1>a, <2>3, <2>4, FilesStep
    <2>6. SaveInv'
        BY <1>3, <1>c DEF SendUpload
    <2> QED
        BY <2>5, <2>6 DEF SavedInv
<1>4. ASSUME NEW c \in Client, NEW k \in Conn, Report(c, k) PROVE SavedInv'
    <2> DEFINE p == [client[c] EXCEPT !.pc = "completing"]
    <2>1. client[c] \in ReportingState
        BY <1>4 DEF Report, TypeInv, ClientState, Probing, RecordingState, Sending
    <2>2. p.pc = "completing"
        BY <2>1 DEF ReportingState
    <2>3. client' = [client EXCEPT ![c] = p] /\ UNCHANGED <<local, main>>
        BY <1>4 DEF Report, TypeInv
    <2> HIDE DEF p
    <2>4. FilesInv'
        BY <1>d, <2>2, <2>3
    <2>5. SaveInv'
        BY <1>4, <1>c DEF Report
    <2> QED
        BY <2>4, <2>5 DEF SavedInv
<1>5. ASSUME NEW c \in Client, NEW scope \in Scopes, BeginUpload(c, scope) PROVE SavedInv'
    <2>1. Carries(Cycle(c, Nobody, 0, scope), ReadState)
        BY <1>5, <1>e DEF BeginUpload, Cycle, Carries
    <2>2. FilesInv'
        BY <1>5, <1>a, <2>1, FilesStep DEF BeginUpload
    <2>3. SaveInv'
        BY <1>5, <1>b DEF BeginUpload
    <2> QED
        BY <2>2, <2>3 DEF SavedInv
<1>6. ASSUME NEW c \in Client, NEW presence \in [Source -> Presences], Probe(c, presence)
      PROVE  SavedInv'
    <2> DEFINE listed == {s \in client[c].scope : OwnerOf[s] = HostOf[c]}
               bundled == {s \in listed : presence[s] # "absent"}
               data == [s \in Source |-> IF presence[s] = "unreadable" THEN Unreadable
                                         ELSE version[s]]
               gen == [s \in Source |-> client[c].file.gen[s] + (IF s \in bundled THEN 1 ELSE 0)]
               req == [kind |-> "upload", agent |-> client[c].file.agent, job |-> client[c].job,
                       listed |-> listed, bundled |-> bundled, gen |-> gen, data |-> data]
               p == [pc |-> "sending", file |-> client[c].file, puller |-> client[c].puller,
                     tries |-> Retries, req |-> req]
    <2>a. client' = [client EXCEPT ![c] = p]
        BY <1>6 DEF Probe
    <2> HIDE DEF gen, data, bundled, listed
    <2>1. p.pc = "sending" /\ p.file = client[c].file /\ p.req.agent = client[c].file.agent
        OBVIOUS
    <2> HIDE DEF p, req
    <2>2. client[c].pc = "probing" /\ UNCHANGED <<state, main, tmp, server, local>>
        BY <1>6 DEF Probe
    <2>3. Carries(p, ReadState)
        BY <1>a, <2>1, <2>2 DEF FilesInv, Carries
    <2>4. FilesInv'
        BY <1>a, <2>a, <2>2, <2>3, FilesStep
    <2>5. SaveInv'
        BY <1>b, <2>2
    <2> QED
        BY <2>4, <2>5 DEF SavedInv
<1>7. ASSUME NEW c \in Client, ReadLocalState(c) PROVE SavedInv'
    <2> DEFINE p == IF Readable(HostOf[c])
                    THEN Cycle(c, client[c].agent, client[c].job, client[c].scope)
                    ELSE Reporting(client[c].agent, client[c].job, "failed")
    <2>1. client' = [client EXCEPT ![c] = p] /\ UNCHANGED <<state, main, tmp, server, local>>
        BY <1>7 DEF ReadLocalState
    <2>2. Carries(p, ReadState)
        BY <1>e DEF Cycle, Reporting, Carries
    <2> HIDE DEF p
    <2>3. FilesInv'
        BY <1>a, <2>1, <2>2, FilesStep
    <2>4. SaveInv'
        BY <1>b, <2>1
    <2> QED
        BY <2>3, <2>4 DEF SavedInv
<1>8. ASSUME NEW c \in Client, WriteLocalState(c) PROVE SavedInv'
    <2> DEFINE p == IF client[c].job = 0 THEN Idle
                    ELSE Reporting(client[c].puller, client[c].job, "succeeded")
    <2>1. /\ client[c].pc = "recording" /\ client' = [client EXCEPT ![c] = p]
          /\ local' = [local EXCEPT ![HostOf[c]] = client[c].file]
          /\ UNCHANGED <<state, main, tmp, server>>
        BY <1>8 DEF WriteLocalState
    <2>2. p.pc \in {"idle", "reporting"}
        BY DEF Idle, Reporting
    <2> HIDE DEF p
    <2>3. Carries(p, ReadState) /\ ReadState' = ReadState
        BY <2>1, <2>2, CarriesOther DEF ReadState
    <2>4. \A d \in Client : Carries(client'[d], ReadState)
        BY <1>a, <2>1, <2>3 DEF FilesInv, TypeInv
    <2>5. Told(ReadState, client[c].file)
        BY <1>a, <2>1 DEF FilesInv, Carries
    <2>6. \A h \in Host : Readable(h)' => Told(ReadState, local'[h])
        BY <1>a, <2>1, <2>5 DEF FilesInv, Readable, TypeInv, TypeOK
    <2>7. FilesInv'
        BY <2>3, <2>4, <2>6 DEF FilesInv, Carries, Told
    <2>8. SaveInv'
        BY <1>b, <2>1
    <2> QED
        BY <2>7, <2>8 DEF SavedInv
<1>9. ASSUME NEW c \in Client, CommandFails(c) PROVE SavedInv'
    <2> DEFINE p == IF client[c].job = 0 THEN Idle
                    ELSE Reporting(client[c].puller, client[c].job, "failed")
    <2>1. client' = [client EXCEPT ![c] = p] /\ UNCHANGED <<state, main, tmp, server, local>>
        BY <1>9 DEF CommandFails
    <2>2. p.pc \in {"idle", "reporting"}
        BY DEF Idle, Reporting
    <2> HIDE DEF p
    <2>3. FilesInv' /\ SaveInv'
        BY <1>b, <1>d, <2>1, <2>2
    <2> QED
        BY <2>3 DEF SavedInv
<1>10. ASSUME NEW c \in Client, NEW torn \in BOOLEAN, Kill(c, torn) PROVE SavedInv'
    <2>1. /\ client' = [client EXCEPT ![c] = Idle] /\ UNCHANGED <<state, main, tmp, server>>
          /\ local' = IF torn THEN [local EXCEPT ![HostOf[c]] = Torn] ELSE local
        BY <1>10 DEF Kill
    <2>2. Carries(Idle, ReadState) /\ ReadState' = ReadState
        BY <2>1, CarriesOther DEF Idle, ReadState
    <2>3. \A d \in Client : Carries(client'[d], ReadState)
        BY <1>a, <2>1, <2>2 DEF FilesInv, TypeInv
    <2>4. \A h \in Host : Readable(h)' => local'[h] = local[h] /\ Readable(h)
        BY <2>1 DEF Readable, TypeInv, TypeOK
    <2>5. FilesInv'
        BY <1>a, <2>2, <2>3, <2>4 DEF FilesInv, Carries, Told
    <2>6. SaveInv'
        BY <1>b, <2>1
    <2> QED
        BY <2>5, <2>6 DEF SavedInv
<1>11. ASSUME NEW s \in Source, EditSource(s) PROVE SavedInv'
    BY <1>11, <1>a, <1>b, FilesSame DEF EditSource, SavedInv
<1>12. ASSUME NEW l \in 1..MaxLeases, Expire(l) PROVE SavedInv'
    BY <1>12, <1>a, <1>b, FilesSame DEF Expire, SavedInv
<1>13. ASSUME UNCHANGED vars PROVE SavedInv'
    BY <1>13, <1>a, <1>b, FilesSame DEF vars, SavedInv
<1> QED
    BY <1>1, <1>2, <1>3, <1>4, <1>5, <1>6, <1>7, <1>8, <1>9, <1>10, <1>11, <1>12, <1>13

LEMMA HandlerSavedStep ==
    ASSUME OneRequestAtATime, TypeInv, ServerInv, SavedInv, NEW k \in Conn, Handles(k)
    PROVE  SavedInv'
<1>a. /\ Sets(k) \/ Refuses(k) \/ Starts(k) \/ GoesOn(k)
      /\ UNCHANGED <<client, local, main, tmp>>
    BY HandlerOutcome, OneRequestOneUpload
<1>b. SaveInv /\ FilesInv
    BY DEF SavedInv
<1>c. FilesInv'
    BY <1>a, <1>b, FilesSame
<1>d. \A i \in Conn : i = k
    BY DEF OneRequestAtATime
<1>1. CASE Sets(k)
    <2>1. PICK st \in ControlState, answer \in Answer :
              /\ SetState(k, IF Free(k) THEN Nobody ELSE server[k].client, st, answer)
              /\ Kept(state, st)
        BY <1>1 DEF Sets, Advance
    <2>2. /\ state' = st /\ server'[k].stage = "saving" /\ server'[k].save = st
          /\ ReadState' = ReadState
        BY <1>a, <2>1 DEF SetState, TypeInv, ReadState
    <2>3. ReadState \in ControlState /\ state \in ControlState
        BY ReadStateType DEF TypeInv, TypeOK
    <2>4. Kept(ReadState, st)
        BY <1>b, <2>1, <2>3, KeptOn DEF SaveInv
    <2>5. Kept(ReadState, state)' /\ main' # Torn
        BY <1>a, <1>b, <2>2, <2>4 DEF Kept, SaveInv
    <2>6. SaveInv'
        BY <1>d, <2>2, <2>5 DEF SaveInv, Saves
    <2> QED
        BY <1>c, <2>6 DEF SavedInv
<1>2. CASE Refuses(k)
    <2>1. state' = state /\ server[k].stage \notin Saves
        BY <1>2 DEF Refuses, Refuse, Saves
    <2>2. server'[k].stage \notin Saves
        BY <1>2 DEF Refuses, Refuse, Respond, TypeInv, Saves
    <2>3. SaveInv'
        BY <1>a, <1>b, <1>d, <2>1, <2>2, SaveSame
    <2> QED
        BY <1>c, <2>3 DEF SavedInv
<1>3. CASE Starts(k)
    <2>1. state' = state /\ server[k].stage \notin Saves
        BY <1>3 DEF Starts, Asks, Saves
    <2>2. server'[k].stage \notin Saves
        BY <1>3 DEF Starts, TypeInv, Saves
    <2>3. SaveInv'
        BY <1>a, <1>b, <1>d, <2>1, <2>2, SaveSame
    <2> QED
        BY <1>c, <2>3 DEF SavedInv
<1>4. CASE GoesOn(k)
    <2>1. state' = state /\ server[k].stage = "storing" /\ server[k] \in Storing
        BY <1>4, HandlerShape DEF GoesOn, AtStage, TypeInv
    <2>2. server'[k].stage = "storing"
        BY <1>4, <2>1 DEF GoesOn, TypeInv, Storing
    <2>3. SaveInv'
        BY <1>a, <1>b, <1>d, <2>1, <2>2, SaveSame DEF Saves
    <2> QED
        BY <1>c, <2>3 DEF SavedInv
<1> QED
    BY <1>a, <1>1, <1>2, <1>3, <1>4

\* Renaming replaces the file by the control state in memory.
LEMMA SaveSavedStep ==
    ASSUME OneRequestAtATime, TypeInv, SavedInv, NEW k \in Conn
    PROVE  /\ OpenTemporary(k) => SavedInv'
           /\ \A content \in {server[k].save, Torn} : RenameTemporary(k, content) => SavedInv'
<1> USE DEF hosts, files, history
<1>b. SaveInv /\ FilesInv
    BY DEF SavedInv
<1>d. \A i \in Conn : i = k
    BY DEF OneRequestAtATime
<1>1. ASSUME OpenTemporary(k) PROVE SavedInv'
    <2>1. server[k] \in Saving /\ server[k].stage = "saving"
        BY <1>1, HandlerShape DEF OpenTemporary, AtStage, TypeInv
    <2>2. /\ server'[k] = [server[k] EXCEPT !.stage = "opened", !.fd = "tmp"]
          /\ tmp' = Torn /\ UNCHANGED <<client, local, state, main>>
        BY <1>1 DEF OpenTemporary, TypeInv
    <2>3. server'[k].stage = "opened" /\ server'[k].fd = "tmp" /\ server'[k].save = server[k].save
        BY <2>1, <2>2 DEF Saving
    <2>4. ReadState' = ReadState /\ server[k].save = state
        BY <1>b, <2>1, <2>2 DEF ReadState, SaveInv, Saves
    <2>5. main' # Torn /\ Kept(ReadState, state)'
        BY <1>b, <2>2, <2>4 DEF SaveInv, Kept
    <2>6. SaveInv'
        BY <1>d, <2>2, <2>3, <2>4, <2>5 DEF SaveInv, Saves
    <2>7. FilesInv'
        BY <1>b, <2>2, FilesSame
    <2> QED
        BY <2>6, <2>7 DEF SavedInv
<1>2. ASSUME NEW content \in {server[k].save, Torn}, RenameTemporary(k, content) PROVE SavedInv'
    <2>1. server[k].stage = "opened" /\ server[k].fd = "tmp" /\ server[k].save = state /\ tmp = Torn
        BY <1>2, <1>b DEF RenameTemporary, AtStage, SaveInv, Saves
    <2>2. content = state
        BY <1>2, <1>d, <2>1 DEF RenameTemporary, SharesFile
    <2>3. main' = state /\ UNCHANGED <<client, local, state>> /\ server'[k].stage = "answering"
        BY <1>2, <2>1, <2>2, FileAssumption DEF RenameTemporary
    <2>4. state \in ControlState /\ ReadState \in ControlState
        BY ReadStateType DEF TypeInv, TypeOK
    <2>5. ReadState' = state /\ main' # Torn
        BY <2>3, <2>4, FileAssumption DEF ReadState
    <2>6. SaveInv'
        <3>1. Kept(state, state)
            BY <2>4, KeptSame DEF Advance
        <3>2. Kept(ReadState, state)'
            BY <2>3, <2>5, <3>1 DEF Kept
        <3> QED
            BY <1>d, <2>3, <2>5, <3>2 DEF SaveInv, Saves
    <2>7. Kept(ReadState, state)
        BY <1>b DEF SaveInv
    <2>8. ASSUME NEW file \in FileState, Told(ReadState, file) PROVE Told(state, file)
        BY <2>4, <2>7, <2>8, ToldOn
    <2>9. \A h \in Host : Readable(h) => Told(state, local[h])
        BY <1>b, <2>8 DEF FilesInv, Readable, TypeInv, TypeOK
    <2>10. \A c \in Client : Carries(client[c], state)
        <3> SUFFICES ASSUME NEW c \in Client, client[c].pc \in {"probing", "sending", "uploading", "recording"}
                     PROVE  Carries(client[c], state)
            BY CarriesOther
        <3>1. client[c].file \in FileState
            BY DEF TypeInv, ClientState, Probing, Sending, RecordingState, ReportingState
        <3>2. Carries(client[c], ReadState)
            BY <1>b DEF FilesInv
        <3> QED
            BY <2>8, <3>1, <3>2 DEF Carries
    <2>11. FilesInv'
        BY <2>3, <2>5, <2>9, <2>10 DEF FilesInv, Carries, Told, Readable
    <2> QED
        BY <2>6, <2>11 DEF SavedInv
<1> QED
    BY <1>1, <1>2

\* An answer that a client receives is given when the file is up to date.
LEMMA TalkSavedStep ==
    ASSUME OneRequestAtATime, TypeInv, ServerInv, SavedInv, NEW k \in Conn,
           Receive(k) \/ LoseMessage(k) \/ Abandon(k)
    PROVE  SavedInv'
<1> USE DEF hosts, files, history
<1> DEFINE c == server[k].client
<1>a. SaveInv /\ FilesInv /\ UNCHANGED <<local, state, main, tmp>>
    BY DEF SavedInv, Receive, LoseMessage, Abandon
<1>b. \A i \in Conn : i = k
    BY DEF OneRequestAtATime
<1>c. server[k] \in Handler /\ ~Free(k) /\ server[k] # NoRequest
    BY DEF Receive, LoseMessage, Abandon, Free, NoRequest, TypeInv
<1>1. SaveInv'
    <2>1. CASE Abandon(k)
        <3> DEFINE h == [server[k] EXCEPT !.client = Nobody]
        <3>1. server'[k] = h
            BY <2>1 DEF Abandon, TypeInv
        <3>2. h.stage = server[k].stage
              /\ (h.stage \in Saves => h.save = server[k].save /\ h.fd = server[k].fd)
            BY <1>c, HandlerShape DEF Handler, Arriving, Storing, Saving, Answering, Saves
        <3> HIDE DEF h
        <3> QED
            BY <1>a, <1>b, <3>1, <3>2, SaveSame
    <2>2. CASE Receive(k) \/ LoseMessage(k)
        <3>1. server[k].stage \in {"arriving", "answering"} /\ server'[k] = NoRequest
            BY <2>2 DEF Receive, LoseMessage, TypeInv
        <3>2. server'[k].stage \notin Saves /\ server[k].stage \notin Saves
            BY <3>1 DEF NoRequest, Saves
        <3> QED
            BY <1>a, <1>b, <3>2, SaveSame
    <2> QED
        BY <2>1, <2>2
<1>2. FilesInv'
    <2>1. CASE client' = client
        BY <1>a, <2>1, FilesSame
    <2>2. CASE c \in Client /\ client' = [client EXCEPT ![c] = Failed(client[c])]
        <3>1. Carries(Failed(client[c]), ReadState)
            BY <1>a, <2>2, FailedCarries DEF FilesInv, TypeInv
        <3> QED
            BY <1>a, <2>2, <3>1, FilesStep
    <2>3. CASE /\ Receive(k) /\ c \in Client /\ server[k].answer.ok
               /\ client' = [client EXCEPT ![c] = Succeeded(client[c], server[k].answer)]
        <3>1. server[k] \in Answering /\ server[k].stage = "answering"
            BY <1>c, <2>3, HandlerShape DEF Receive
        <3>2. server[k].answer \in Answer /\ client[c] \in ClientState /\ Talking(k, c)
            BY <1>c, <2>3, <3>1 DEF Answering, TypeInv, Talking
        <3>3. state = ReadState /\ ReadState \in ControlState
            BY <1>a, <3>1, ReadStateType DEF SaveInv, Saves
        <3>4. Promise(server[k], state, client)
            BY DEF ServerInv, AnswerInv
        <3>5. client[c].pc = "pairing" =>
                  server[k].answer.agent \in Agent /\ state.agents[server[k].answer.agent].known
            BY <2>3, <3>1, <3>2, <3>4 DEF TypeInv, TalksInv, PairTalk, Promise, Answered
        <3>6. client[c].pc = "uploading" => Accepted(state, client[c].req)
            BY <1>c, <2>3, <3>1, <3>4 DEF Promise, Answered
        <3>7. Carries(client[c], ReadState)
            BY <1>a, <2>3 DEF FilesInv
        <3>8. Carries(Succeeded(client[c], server[k].answer), ReadState)
            BY <3>2, <3>3, <3>5, <3>6, <3>7, SucceededCarries
        <3> QED
            BY <1>a, <2>3, <3>8, FilesStep
    <2>4. c \in Client \/ c = Nobody
        BY <1>c, HandlerShape DEF Asker
    <2>5. \/ client' = client
          \/ c \in Client /\ client' = [client EXCEPT ![c] = Failed(client[c])]
          \/ /\ Receive(k) /\ c \in Client /\ server[k].answer.ok
             /\ client' = [client EXCEPT ![c] = Succeeded(client[c], server[k].answer)]
        BY <2>4 DEF Receive, LoseMessage, Abandon, TypeInv
    <2> QED
        BY <2>1, <2>2, <2>3, <2>5
<1> QED
    BY <1>1, <1>2 DEF SavedInv

LEMMA CrashSavedStep ==
    ASSUME TypeInv, SavedInv, CrashServer
    PROVE  SavedInv'
<1> USE DEF hosts, files, history
<1>1. /\ UNCHANGED <<local, main, tmp>> /\ state' = ReadState /\ ReadState' = ReadState
      /\ \A k \in Conn : server'[k].stage \notin Saves /\ server'[k].stage # "opened"
    BY DEF CrashServer, ReadState, NoRequest, Saves
<1>2. SaveInv'
    <2>1. Kept(ReadState, ReadState)
        BY ReadStateType, KeptSame DEF Advance
    <2>2. Kept(ReadState, state)' /\ main' # Torn
        BY <1>1, <2>1 DEF Kept, SavedInv, SaveInv
    <2> QED
        BY <1>1, <2>2 DEF SaveInv
<1>3. \A c \in Client : Carries(client'[c], ReadState)
    <2> SUFFICES ASSUME NEW c \in Client PROVE Carries(client'[c], ReadState)
        OBVIOUS
    <2>1. client'[c] \in {client[c], Failed(client[c])}
        BY DEF CrashServer
    <2>2. client[c] \in ClientState /\ Carries(client[c], ReadState)
        BY DEF TypeInv, SavedInv, FilesInv
    <2> QED
        BY <2>1, <2>2, FailedCarries
<1>4. \A h \in Host : Readable(h)' => Told(ReadState, local'[h])
    BY <1>1 DEF SavedInv, FilesInv, Readable
<1>5. FilesInv'
    BY <1>1, <1>3, <1>4 DEF FilesInv, Carries, Told
<1> QED
    BY <1>2, <1>5 DEF SavedInv

LEMMA SavedInit == Init => SavedInv
<1> SUFFICES ASSUME Init PROVE SavedInv
    OBVIOUS
<1>1. state = EmptyState /\ ReadState = EmptyState /\ main # Torn
    BY FileAssumption DEF Init, ReadState
<1>2. Kept(EmptyState, EmptyState)
    BY EmptyType, KeptSame DEF Advance
<1>3. SaveInv
    BY <1>1, <1>2 DEF SaveInv, Init, NoRequest, Saves
<1>4. FilesInv
    BY CarriesOther DEF FilesInv, Init, Readable, Idle
<1> QED
    BY <1>3, <1>4 DEF SavedInv

LEMMA SavedStep ==
    ASSUME OneRequestAtATime, TypeInv, ServerInv, SavedInv, [Next]_vars
    PROVE  SavedInv'
<1>1. CASE \/ \E c \in Client :
                 \/ \E k \in Conn : BeginPair(c, k) \/ BeginPull(c, k) \/ SendUpload(c, k) \/ Report(c, k)
                 \/ \E scope \in Scopes : BeginUpload(c, scope)
                 \/ \E presence \in [Source -> Presences] : Probe(c, presence)
                 \/ ReadLocalState(c) \/ WriteLocalState(c) \/ CommandFails(c)
                 \/ \E torn \in BOOLEAN : Kill(c, torn)
           \/ (\E s \in Source : EditSource(s)) \/ (\E l \in 1..MaxLeases : Expire(l)) \/ UNCHANGED vars
    BY <1>1, ClientSavedStep
<1>2. CASE \E k \in Conn : Handles(k)
    BY <1>2, HandlerSavedStep
<1>3. CASE \E k \in Conn :
              \/ OpenTemporary(k)
              \/ \E content \in {server[k].save, Torn} : RenameTemporary(k, content)
    BY <1>3, SaveSavedStep
<1>4. CASE \E k \in Conn : Receive(k) \/ LoseMessage(k) \/ Abandon(k)
    BY <1>4, TalkSavedStep
<1>5. CASE CrashServer
    BY <1>5, CrashSavedStep
<1> QED
    BY StepGroups, <1>1, <1>2, <1>3, <1>4, <1>5

\* What an agent's file says of its pairing and of accepted generations is in the
\* state file of the server, so no restart forgets it: each handler saves before it
\* answers (writeRemoteAgentState before the response).  For any number of hosts,
\* clients, crashes and lost messages, if the server handles one request at a time;
\* handlers that save at the same time write to one temporary file.
THEOREM AnswersAreSaved ==
    ASSUME OneRequestAtATime
    PROVE  Spec => []AnsweredIsSaved
<1>1. TypeInv /\ ServerInv /\ SavedInv /\ [Next]_vars => SavedInv'
    BY SavedStep
<1>2. SavedInv => AnsweredIsSaved
    BY DEF SavedInv, FilesInv, Told, AnsweredIsSaved
<1>3. OneUploadAtATime
    BY OneRequestOneUpload
<1>4. Spec => []ServerInv
    BY <1>3, ServerInvariant
<1> QED
    BY <1>1, <1>2, <1>4, TypeInvariant, SavedInit, PTL DEF Spec

----------------------------------------------------------------------------
(* What is stored.                                                         *)
(*                                                                         *)
(* Generations order the uploads of a source only if they are all of one   *)
(* agent and an upload that stores something also advances the generation: *)
(* a host that is paired again begins with generation 0 while an upload of *)
(* its old agent may be on the way, and an upload of two sources that is   *)
(* refused at the second has stored the first without a generation.        *)

\* A host is paired once, and then nothing else of it runs.
PairsOnce ==
    \A c \in Client, k \in Conn : BeginPair(c, k) =>
        /\ local[HostOf[c]] = NoFile
        /\ \A d \in Client \ {c} : HostOf[d] = HostOf[c] => client[d] = Idle

\* No upload is refused of which something is stored.
WholeUploads ==
    \A k \in Conn : RejectStale(k) \/ StoreFails(k) => server[k].left = server[k].req.bundled

Carrying == {"probing", "sending", "uploading", "recording"}
Uploading == {"sending", "uploading"}
Loaded(h) == h.stage \in {"arriving", "storing"} /\ h.req.kind = "upload"
Pairing(p) == p.pc = "pairing" \/ (p.pc = "recording" /\ p.job = 0)

OfHost(r, h) == \A s \in r.bundled : OwnerOf[s] = h

OthersIdle(c, procs) == \A d \in Client \ {c} : HostOf[d] = HostOf[c] => procs[d] = Idle

\* As long as a host has no state file, all that runs there is the command that
\* pairs it, and no upload of its sources is under way.
PairInv ==
    /\ \A c \in Client : client[c] # Idle /\ local[HostOf[c]] = NoFile
                            => Pairing(client[c]) /\ OthersIdle(c, client)
    /\ \A c \in Client : client[c].pc = "pairing" => local[HostOf[c]] = NoFile
    /\ \A c \in Client : client[c].pc \in Uploading => OfHost(client[c].req, HostOf[c])
    /\ \A k \in Conn : Loaded(server[k]) => \A s \in server[k].req.bundled : local[OwnerOf[s]] # NoFile

LEMMA UploadingShape ==
    ASSUME NEW p \in ClientState, p.pc \in Uploading
    PROVE  p \in Sending
BY DEF Uploading, ClientState, Probing, RecordingState, ReportingState

LEMMA CarryingShape ==
    ASSUME NEW p \in ClientState, p.pc \in Carrying
    PROVE  p.file \in FileState
BY DEF Carrying, ClientState, Probing, Sending, RecordingState, ReportingState

LEMMA LoadedShape ==
    ASSUME NEW h \in Handler, Loaded(h)
    PROVE  h.req \in UploadRequest /\ h # NoRequest /\ (h.stage = "storing" => h \in Storing)
<1>1. CASE h.stage = "storing"
    BY <1>1, HandlerShape DEF Storing, NoRequest
<1>2. CASE h.stage = "arriving"
    <2>1. h \in Arriving /\ h.req.kind = "upload"
        BY <1>2, HandlerShape DEF Loaded
    <2> QED
        BY <1>2, <2>1 DEF Arriving, Request, UploadRequest, NoRequest
<1> QED
    BY <1>1, <1>2 DEF Loaded

\* What the server does loads no handler; only an upload that is sent does.
LoadedBefore(new, old) ==
    Loaded(new) => /\ Loaded(old) /\ new.req = old.req
                   /\ new.stage = "storing" => \/ new.left = new.req.bundled
                                               \/ old.stage = "storing" /\ new.left \subseteq old.left

LEMMA LoadedSame == \A h \in Handler : LoadedBefore(h, h)
BY DEF LoadedBefore

LEMMA ServingLoadsNone ==
    ASSUME TypeInv, OneUploadAtATime, ServerInv, NEW k \in Conn,
           \/ Handles(k) \/ OpenTemporary(k)
           \/ \E content \in {server[k].save, Torn} : RenameTemporary(k, content)
           \/ Receive(k) \/ LoseMessage(k) \/ Abandon(k)
    PROVE  \A i \in Conn : LoadedBefore(server'[i], server[i])
<1>a. \A i \in Conn : server[i] \in Handler
    BY DEF TypeInv
<1>b. ASSUME NEW h, server' = [server EXCEPT ![k] = h], LoadedBefore(h, server[k])
      PROVE  \A i \in Conn : LoadedBefore(server'[i], server[i])
    BY <1>a, <1>b, LoadedSame DEF TypeInv
<1>c. ASSUME NEW h, h.stage \notin {"arriving", "storing"} PROVE LoadedBefore(h, server[k])
    BY <1>c DEF LoadedBefore, Loaded
<1>1. CASE Handles(k)
    <2>1. Sets(k) \/ Refuses(k) \/ Starts(k) \/ GoesOn(k)
        BY <1>1, HandlerOutcome
    <2>2. CASE Sets(k)
        <3>1. PICK c, st, answer : SetState(k, c, st, answer)
            BY <2>2 DEF Sets
        <3> DEFINE h == [stage |-> "saving", client |-> c, save |-> st, fd |-> "none", answer |-> answer]
        <3>2. server' = [server EXCEPT ![k] = h] /\ h.stage = "saving"
            BY <3>1 DEF SetState
        <3> HIDE DEF h
        <3> QED
            BY <1>b, <1>c, <3>2
    <2>3. CASE Refuses(k)
        <3> DEFINE h == [stage |-> "answering", client |-> server[k].client,
                         answer |-> [NoAnswer EXCEPT !.ok = FALSE]]
        <3>1. server' = [server EXCEPT ![k] = h] /\ h.stage = "answering"
            BY <2>3 DEF Refuses, Refuse, Respond
        <3> HIDE DEF h
        <3> QED
            BY <1>b, <1>c, <3>1
    <2>4. CASE Starts(k)
        <3> DEFINE h == [stage |-> "storing", client |-> server[k].client, req |-> server[k].req,
                         snap |-> state, left |-> server[k].req.bundled]
        <3>1. server' = [server EXCEPT ![k] = h] /\ Loaded(server[k])
            BY <2>4 DEF Starts, Asks, Loaded
        <3>2. LoadedBefore(h, server[k])
            BY <3>1 DEF LoadedBefore
        <3> HIDE DEF h
        <3> QED
            BY <1>b, <3>1, <3>2
    <2>5. CASE GoesOn(k)
        <3>1. PICK s \in Source :
                  /\ AtStage(k, "storing")
                  /\ server' = [server EXCEPT ![k] = [server[k] EXCEPT !.left = server[k].left \ {s}]]
            BY <2>5 DEF GoesOn
        <3> DEFINE h == [server[k] EXCEPT !.left = server[k].left \ {s}]
        <3>2. server[k] \in Storing /\ server[k].stage = "storing"
            BY <1>a, <3>1, HandlerShape DEF AtStage
        <3>3. h.stage = "storing" /\ h.req = server[k].req /\ h.left = server[k].left \ {s}
            BY <3>2 DEF Storing
        <3>4. server' = [server EXCEPT ![k] = h]
            BY <3>1
        <3> HIDE DEF h
        <3>5. LoadedBefore(h, server[k])
            BY <3>2, <3>3 DEF LoadedBefore, Loaded
        <3> QED
            BY <1>b, <3>4, <3>5
    <2> QED
        BY <2>1, <2>2, <2>3, <2>4, <2>5
<1>2. CASE OpenTemporary(k)
    <2>1. server[k] \in Saving /\ server' = [server EXCEPT ![k] = [server[k] EXCEPT !.stage = "opened", !.fd = "tmp"]]
        BY <1>2, HandlerShape DEF OpenTemporary, AtStage, TypeInv
    <2>2. [server[k] EXCEPT !.stage = "opened", !.fd = "tmp"].stage = "opened"
        BY <2>1 DEF Saving
    <2> QED
        BY <1>b, <1>c, <2>1, <2>2
<1>3. ASSUME NEW content \in {server[k].save, Torn}, RenameTemporary(k, content)
      PROVE  \A i \in Conn : LoadedBefore(server'[i], server[i])
    <2>1. CASE tmp = NoFile
        <3> DEFINE h == [stage |-> "answering", client |-> server[k].client,
                         answer |-> [NoAnswer EXCEPT !.ok = FALSE]]
        <3>1. server' = [server EXCEPT ![k] = h] /\ h.stage = "answering"
            BY <1>3, <2>1 DEF RenameTemporary, Respond
        <3> HIDE DEF h
        <3> QED
            BY <1>b, <1>c, <3>1
    <2>2. CASE tmp # NoFile
        <3>1. \A i \in Conn : server'[i] = IF i = k THEN [stage |-> "answering", client |-> server[k].client,
                                                          answer |-> server[k].answer]
                                           ELSE Renamed(server[i])
            BY <1>3, <2>2 DEF RenameTemporary
        <3>2. \A i \in Conn : LoadedBefore(Renamed(server[i]), server[i])
            BY <1>a, RenamedSame DEF LoadedBefore, Loaded
        <3> QED
            BY <1>c, <3>1, <3>2
    <2> QED
        BY <2>1, <2>2
<1>4. CASE Receive(k) \/ LoseMessage(k)
    <2>1. server' = [server EXCEPT ![k] = NoRequest]
        BY <1>4 DEF Receive, LoseMessage
    <2> QED
        BY <1>b, <1>c, <2>1 DEF NoRequest
<1>5. CASE Abandon(k)
    <2> DEFINE h == [server[k] EXCEPT !.client = Nobody]
    <2>1. server' = [server EXCEPT ![k] = h]
        BY <1>5 DEF Abandon, TypeInv
    <2>2. /\ h.stage = server[k].stage
          /\ h.stage \in {"arriving", "storing"} => h.req = server[k].req
          /\ h.stage = "storing" => h.left = server[k].left
        BY <1>5, <1>a DEF Abandon, Free, Handler, Arriving, Storing, Saving, Answering
    <2> HIDE DEF h
    <2>3. LoadedBefore(h, server[k])
        BY <2>2 DEF LoadedBefore, Loaded
    <2> QED
        BY <1>b, <2>1, <2>3
<1> QED
    BY <1>1, <1>2, <1>3, <1>4, <1>5

\* A client changes, with the handlers as they may.
LEMMA PairKept ==
    ASSUME TypeInv, PairInv, NEW c \in Client, NEW p, client' = [client EXCEPT ![c] = p], local' = local,
           p = Idle \/ (p.pc # "pairing" /\ (client[c] # Idle \/ local[HostOf[c]] # NoFile)),
           Pairing(client[c]) => p = Idle \/ Pairing(p),
           p.pc \in Uploading => OfHost(p.req, HostOf[c]),
           \A k \in Conn : Loaded(server'[k]) =>
               \A s \in server'[k].req.bundled : local[OwnerOf[s]] # NoFile
    PROVE  PairInv'
<1>1. \A d \in Client : client'[d] = IF d = c THEN p ELSE client[d]
    BY DEF TypeInv
<1>2. ASSUME NEW d \in Client, client'[d] # Idle, local[HostOf[d]] = NoFile
      PROVE  Pairing(client'[d]) /\ OthersIdle(d, client')
    <2>1. CASE d = c
        <3>1. client[c] # Idle
            BY <1>1, <1>2, <2>1
        <3>2. Pairing(client[c]) /\ OthersIdle(c, client)
            BY <1>2, <2>1, <3>1 DEF PairInv
        <3> QED
            BY <1>1, <1>2, <2>1, <3>2 DEF OthersIdle
    <2>2. CASE d # c
        <3>1. Pairing(client[d]) /\ OthersIdle(d, client)
            BY <1>1, <1>2, <2>2 DEF PairInv
        <3>2. HostOf[c] = HostOf[d] => p = Idle
            BY <1>2, <2>2, <3>1 DEF OthersIdle
        <3> QED
            BY <1>1, <2>2, <3>1, <3>2 DEF OthersIdle
    <2> QED
        BY <2>1, <2>2
<1>3. Idle.pc = "idle" /\ "idle" \notin Uploading
    BY DEF Idle, Uploading
<1>4. \A d \in Client : client'[d].pc = "pairing" => local[HostOf[d]] = NoFile
    BY <1>1, <1>3 DEF PairInv
<1>5. \A d \in Client : client'[d].pc \in Uploading => OfHost(client'[d].req, HostOf[d])
    BY <1>1 DEF PairInv
<1> QED
    BY <1>2, <1>4, <1>5 DEF PairInv, OthersIdle, OfHost, Loaded, Pairing

\* Only handlers change, and none gets an upload.
LEMMA PairQuiet ==
    ASSUME PairInv, UNCHANGED <<client, local>>, \A k \in Conn : LoadedBefore(server'[k], server[k])
    PROVE  PairInv'
<1>1. ASSUME NEW k \in Conn, Loaded(server'[k])
      PROVE  \A s \in server'[k].req.bundled : local[OwnerOf[s]] # NoFile
    <2>1. Loaded(server[k]) /\ server'[k].req = server[k].req
        BY <1>1 DEF LoadedBefore
    <2> QED
        BY <2>1 DEF PairInv
<1> QED
    BY <1>1 DEF PairInv, OthersIdle, OfHost, Loaded, Pairing

LEMMA FailedShape ==
    ASSUME NEW p \in ClientState
    PROVE  /\ Failed(p).pc \in {"idle", "sending", "reporting"}
           /\ Failed(p).pc = "idle" => Failed(p) = Idle
           /\ Failed(p).pc = "sending" => /\ p.pc = "uploading" /\ Failed(p).req = p.req
                                          /\ Failed(p).file = p.file
           /\ p.pc = "pairing" => Failed(p) = Idle
<1>1. CASE p.pc = "uploading"
    <2>1. p \in Sending
        BY <1>1, UploadingShape DEF Uploading
    <2>2. CASE p.tries > 0
        <3> DEFINE fewer == p.tries - 1
                   q == [p EXCEPT !.pc = "sending", !.tries = fewer]
        <3>1. Failed(p) = q
            BY <1>1, <2>2 DEF Failed
        <3>2. q.pc = "sending" /\ q.req = p.req /\ q.file = p.file
            BY <2>1 DEF Sending
        <3> HIDE DEF q
        <3> QED
            BY <1>1, <3>1, <3>2
    <2>3. CASE p.tries = 0
        BY <1>1, <2>3 DEF Failed, Reporting, Idle
    <2>4. p.tries \in Nat
        BY <2>1 DEF Sending
    <2> QED
        BY <2>2, <2>3, <2>4
<1>2. CASE p.pc # "uploading"
    BY <1>2 DEF Failed, Reporting, Idle
<1> QED
    BY <1>1, <1>2

\* A client that gets an answer, or none, does not begin to pair or to upload.
LEMMA AnsweredShape ==
    ASSUME NEW p \in ClientState, NEW answer
    PROVE  /\ Succeeded(p, answer).pc \in {"recording", "leased", "idle"}
           /\ Succeeded(p, answer).pc = "idle" => Succeeded(p, answer) = Idle
           /\ p.pc = "pairing" => Pairing(Succeeded(p, answer))
           /\ p.pc \notin {"pairing", "uploading"} => Succeeded(p, answer).pc # "recording"
BY DEF Succeeded, Recording, Idle, Pairing

LEMMA ClientPairStep ==
    ASSUME TypeInv, PairInv
    PROVE  /\ \A c \in Client :
                 /\ \A k \in Conn : BeginPair(c, k) /\ PairsOnce => PairInv'
                 /\ \A k \in Conn : BeginPull(c, k) \/ SendUpload(c, k) \/ Report(c, k) => PairInv'
                 /\ \A scope \in Scopes : BeginUpload(c, scope) => PairInv'
                 /\ \A presence \in [Source -> Presences] : Probe(c, presence) => PairInv'
                 /\ ReadLocalState(c) \/ WriteLocalState(c) \/ CommandFails(c) => PairInv'
                 /\ \A torn \in BOOLEAN : Kill(c, torn) => PairInv'
           /\ \A s \in Source : EditSource(s) => PairInv'
           /\ \A l \in 1..MaxLeases : Expire(l) => PairInv'
           /\ UNCHANGED vars => PairInv'
<1> USE DEF hosts, files, history
<1>a. /\ \A k \in Conn : server[k] \in Handler
      /\ \A c \in Client : client[c] \in ClientState /\ HostOf[c] \in Host
      /\ Idle.pc = "idle"
    BY RemoteAgentAssumption DEF TypeInv, Idle
<1>b. ASSUME server' = server
      PROVE  \A k \in Conn : Loaded(server'[k]) =>
                 \A s \in server'[k].req.bundled : local[OwnerOf[s]] # NoFile
    BY <1>b DEF PairInv
<1>c. ASSUME NEW c \in Client, NEW k \in Conn, NEW req, Send(c, k, req), req.kind # "upload"
      PROVE  \A i \in Conn : Loaded(server'[i]) =>
                 \A s \in server'[i].req.bundled : local[OwnerOf[s]] # NoFile
    <2> DEFINE h == [stage |-> "arriving", client |-> c, req |-> req]
    <2>1. \A i \in Conn : server'[i] = IF i = k THEN h ELSE server[i]
        BY <1>c DEF Send, TypeInv
    <2>2. ~Loaded(h)
        BY <1>c DEF Loaded
    <2> HIDE DEF h
    <2> QED
        BY <2>1, <2>2 DEF PairInv
<1>d. ASSUME NEW c \in Client, NEW p, client' = [client EXCEPT ![c] = p], UNCHANGED <<local, server>>,
             p.pc # "pairing", client[c] # Idle \/ local[HostOf[c]] # NoFile, ~Pairing(client[c]),
             p.pc \in Uploading => OfHost(p.req, HostOf[c])
      PROVE  PairInv'
    BY <1>b, <1>d, PairKept
<1>1. ASSUME NEW c \in Client, NEW k \in Conn, BeginPair(c, k), PairsOnce PROVE PairInv'
    <2> DEFINE p == [pc |-> "pairing"]
    <2>1. local[HostOf[c]] = NoFile /\ OthersIdle(c, client)
        BY <1>1 DEF PairsOnce, OthersIdle
    <2>2. /\ \A d \in Client : client'[d] = IF d = c THEN p ELSE client[d]
          /\ local' = local /\ client[c] = Idle
        BY <1>1 DEF BeginPair, TypeInv
    <2>3. Pairing(p) /\ p.pc = "pairing" /\ "pairing" \notin Uploading
        BY DEF Pairing, Uploading
    <2>4. \A i \in Conn : Loaded(server'[i]) =>
              \A s \in server'[i].req.bundled : local[OwnerOf[s]] # NoFile
        BY <1>1, <1>c DEF BeginPair
    <2> HIDE DEF p
    <2>5. ASSUME NEW d \in Client, client'[d] # Idle, local[HostOf[d]] = NoFile
          PROVE  Pairing(client'[d]) /\ OthersIdle(d, client')
        <3>1. CASE d = c
            BY <2>1, <2>2, <2>3, <3>1 DEF OthersIdle
        <3>2. CASE d # c
            <4>1. client[d] # Idle
                BY <2>2, <2>5, <3>2
            <4>2. HostOf[d] # HostOf[c]
                BY <2>1, <3>2, <4>1 DEF OthersIdle
            <4>3. Pairing(client[d]) /\ OthersIdle(d, client)
                BY <2>5, <4>1 DEF PairInv
            <4> QED
                BY <2>2, <3>2, <4>2, <4>3 DEF OthersIdle
        <3> QED
            BY <3>1, <3>2
    <2>6. \A d \in Client : client'[d].pc = "pairing" => local[HostOf[d]] = NoFile
        BY <2>1, <2>2 DEF PairInv
    <2>7. \A d \in Client : client'[d].pc \in Uploading => OfHost(client'[d].req, HostOf[d])
        BY <2>2, <2>3 DEF PairInv
    <2> QED
        BY <2>2, <2>4, <2>5, <2>6, <2>7 DEF PairInv, OthersIdle, OfHost, Loaded, Pairing
<1>2. ASSUME NEW c \in Client, NEW k \in Conn, BeginPull(c, k) PROVE PairInv'
    <2> DEFINE p == [pc |-> "leasing", agent |-> local[HostOf[c]].agent]
               req == [kind |-> "lease", agent |-> local[HostOf[c]].agent]
    <2>1. /\ Send(c, k, req) /\ client' = [client EXCEPT ![c] = p] /\ local' = local
          /\ p.pc = "leasing" /\ req.kind = "lease" /\ client[c] = Idle /\ local[HostOf[c]] # NoFile
        BY <1>2 DEF BeginPull, Readable
    <2> HIDE DEF p, req
    <2> QED
        BY <1>a, <1>c, <2>1, PairKept DEF Pairing, Uploading
<1>3. ASSUME NEW c \in Client, NEW k \in Conn, SendUpload(c, k) PROVE PairInv'
    <2> DEFINE p == [client[c] EXCEPT !.pc = "uploading"]
               h == [stage |-> "arriving", client |-> c, req |-> client[c].req]
    <2>1. client[c].pc = "sending" /\ client[c] \in Sending /\ client[c] # Idle
        BY <1>3, <1>a, UploadingShape DEF SendUpload, Uploading
    <2>2. p.pc = "uploading" /\ p.req = client[c].req
        BY <2>1 DEF Sending
    <2>3. client' = [client EXCEPT ![c] = p] /\ local' = local
        BY <1>3 DEF SendUpload, TypeInv
    <2>4. \A i \in Conn : server'[i] = IF i = k THEN h ELSE server[i]
        BY <1>3 DEF SendUpload, Send, TypeInv
    <2>5. OfHost(client[c].req, HostOf[c]) /\ local[HostOf[c]] # NoFile
        BY <2>1 DEF PairInv, Pairing, Uploading
    <2>6. h.req = client[c].req
        OBVIOUS
    <2> HIDE DEF p, h
    <2>7. \A i \in Conn : Loaded(server'[i]) =>
              \A s \in server'[i].req.bundled : local[OwnerOf[s]] # NoFile
        BY <2>4, <2>5, <2>6 DEF PairInv, OfHost
    <2> QED
        BY <2>1, <2>2, <2>3, <2>5, <2>7, PairKept DEF Pairing
<1>4. ASSUME NEW c \in Client, NEW k \in Conn, Report(c, k) PROVE PairInv'
    <2> DEFINE p == [client[c] EXCEPT !.pc = "completing"]
               req == [kind |-> "complete", agent |-> client[c].agent, job |-> client[c].job,
                       status |-> client[c].status]
    <2>1. client[c].pc = "reporting" /\ client[c] \in ReportingState /\ client[c] # Idle
        BY <1>4, <1>a DEF Report, ClientState, Probing, RecordingState, Sending
    <2>2. p.pc = "completing" /\ req.kind = "complete"
        BY <2>1 DEF ReportingState
    <2>3. client' = [client EXCEPT ![c] = p] /\ local' = local /\ Send(c, k, req)
        BY <1>4 DEF Report, TypeInv
    <2> HIDE DEF p, req
    <2> QED
        BY <1>c, <2>1, <2>2, <2>3, PairKept DEF Pairing, Uploading
<1>5. ASSUME NEW c \in Client, NEW scope \in Scopes, BeginUpload(c, scope) PROVE PairInv'
    <2> DEFINE p == Cycle(c, Nobody, 0, scope)
    <2>1. /\ client' = [client EXCEPT ![c] = p] /\ UNCHANGED <<local, server>>
          /\ p.pc = "probing" /\ client[c] = Idle /\ local[HostOf[c]] # NoFile
        BY <1>5 DEF BeginUpload, Cycle, Readable
    <2> HIDE DEF p
    <2> QED
        BY <1>a, <1>d, <2>1 DEF Pairing, Uploading
<1>6. ASSUME NEW c \in Client, NEW presence \in [Source -> Presences], Probe(c, presence)
      PROVE  PairInv'
    <2> DEFINE listed == {s \in client[c].scope : OwnerOf[s] = HostOf[c]}
               bundled == {s \in listed : presence[s] # "absent"}
               data == [s \in Source |-> IF presence[s] = "unreadable" THEN Unreadable
                                         ELSE version[s]]
               gen == [s \in Source |-> client[c].file.gen[s] + (IF s \in bundled THEN 1 ELSE 0)]
               req == [kind |-> "upload", agent |-> client[c].file.agent, job |-> client[c].job,
                       listed |-> listed, bundled |-> bundled, gen |-> gen, data |-> data]
               p == [pc |-> "sending", file |-> client[c].file, puller |-> client[c].puller,
                     tries |-> Retries, req |-> req]
    <2>a. client' = [client EXCEPT ![c] = p]
        BY <1>6 DEF Probe
    <2>b. \A s \in bundled : OwnerOf[s] = HostOf[c]
        OBVIOUS
    <2> HIDE DEF gen, data, bundled, listed
    <2>1. p.pc = "sending" /\ p.req.bundled = bundled
        OBVIOUS
    <2> HIDE DEF p, req
    <2>2. client[c].pc = "probing" /\ UNCHANGED <<server, local>>
        BY <1>6 DEF Probe
    <2>3. OfHost(p.req, HostOf[c])
        BY <2>b, <2>1 DEF OfHost
    <2> QED
        BY <1>a, <1>d, <2>a, <2>1, <2>2, <2>3 DEF Pairing
<1>7. ASSUME NEW c \in Client, ReadLocalState(c) PROVE PairInv'
    <2> DEFINE p == IF Readable(HostOf[c])
                    THEN Cycle(c, client[c].agent, client[c].job, client[c].scope)
                    ELSE Reporting(client[c].agent, client[c].job, "failed")
    <2>1. /\ client' = [client EXCEPT ![c] = p] /\ UNCHANGED <<server, local>>
          /\ client[c].pc = "leased"
        BY <1>7 DEF ReadLocalState
    <2>2. p.pc \in {"probing", "reporting"}
        BY DEF Cycle, Reporting
    <2> HIDE DEF p
    <2> QED
        BY <1>a, <1>d, <2>1, <2>2 DEF Pairing, Uploading
<1>8. ASSUME NEW c \in Client, WriteLocalState(c) PROVE PairInv'
    <2> DEFINE p == IF client[c].job = 0 THEN Idle
                    ELSE Reporting(client[c].puller, client[c].job, "succeeded")
    <2>1. /\ client[c].pc = "recording" /\ client' = [client EXCEPT ![c] = p]
          /\ local' = [local EXCEPT ![HostOf[c]] = client[c].file] /\ server' = server
        BY <1>8 DEF WriteLocalState
    <2>2. p.pc \in {"idle", "reporting"} /\ client[c] # Idle
        BY <1>a, <2>1 DEF Idle, Reporting
    <2> HIDE DEF p
    <2>3. client[c].file # NoFile
        BY <1>a, <2>1, CarryingShape, FileAssumption DEF Carrying
    <2>4. /\ \A h \in Host : local'[h] = IF h = HostOf[c] THEN client[c].file ELSE local[h]
          /\ \A d \in Client : client'[d] = IF d = c THEN p ELSE client[d]
        BY <2>1 DEF TypeInv, TypeOK
    <2>5. ASSUME NEW d \in Client, client'[d] # Idle, local'[HostOf[d]] = NoFile
          PROVE  Pairing(client'[d]) /\ OthersIdle(d, client')
        <3>1. HostOf[d] # HostOf[c]
            BY <1>a, <2>3, <2>4, <2>5
        <3>2. Pairing(client[d]) /\ OthersIdle(d, client)
            BY <1>a, <2>4, <2>5, <3>1 DEF PairInv
        <3> QED
            BY <2>4, <3>1, <3>2 DEF OthersIdle
    <2>6. ASSUME NEW d \in Client, client'[d].pc = "pairing" PROVE local'[HostOf[d]] = NoFile
        <3>1. d # c /\ client[d].pc = "pairing"
            BY <2>2, <2>4, <2>6
        <3>2. local[HostOf[d]] = NoFile /\ client[d] # Idle
            BY <1>a, <3>1 DEF PairInv
        <3>3. OthersIdle(d, client)
            BY <3>2 DEF PairInv
        <3>4. HostOf[c] # HostOf[d]
            BY <2>2, <3>1, <3>3 DEF OthersIdle
        <3> QED
            BY <1>a, <2>4, <3>2, <3>4
    <2>7. \A d \in Client : client'[d].pc \in Uploading => OfHost(client'[d].req, HostOf[d])
        BY <2>2, <2>4 DEF PairInv, Uploading
    <2>8. ASSUME NEW k \in Conn, Loaded(server'[k])
          PROVE  \A s \in server'[k].req.bundled : local'[OwnerOf[s]] # NoFile
        <3>1. Loaded(server[k]) /\ server'[k] = server[k] /\ server[k].req \in UploadRequest
            BY <1>a, <2>1, <2>8, LoadedShape
        <3>2. \A s \in server[k].req.bundled : OwnerOf[s] \in Host
            BY <3>1, RemoteAgentAssumption DEF UploadRequest
        <3>3. \A s \in server[k].req.bundled : local[OwnerOf[s]] # NoFile
            BY <3>1 DEF PairInv
        <3> QED
            BY <2>3, <2>4, <3>1, <3>2, <3>3
    <2> QED
        BY <2>5, <2>6, <2>7, <2>8 DEF PairInv, OthersIdle, OfHost, Loaded, Pairing
<1>9. ASSUME NEW c \in Client, CommandFails(c) PROVE PairInv'
    <2> DEFINE p == IF client[c].job = 0 THEN Idle
                    ELSE Reporting(client[c].puller, client[c].job, "failed")
    <2>1. /\ client' = [client EXCEPT ![c] = p] /\ UNCHANGED <<server, local>>
          /\ client[c].pc \in {"probing", "recording"}
        BY <1>9 DEF CommandFails
    <2>2. p.pc \in {"idle", "reporting"} /\ (client[c].job = 0 => p = Idle)
        BY DEF Idle, Reporting
    <2> HIDE DEF p
    <2> QED
        BY <1>a, <1>b, <2>1, <2>2, PairKept DEF Pairing, Uploading
<1>10. ASSUME NEW c \in Client, NEW torn \in BOOLEAN, Kill(c, torn) PROVE PairInv'
    <2>1. /\ client' = [client EXCEPT ![c] = Idle] /\ server' = server /\ client[c] # Idle
          /\ torn => client[c].pc = "recording"
          /\ local' = IF torn THEN [local EXCEPT ![HostOf[c]] = Torn] ELSE local
        BY <1>10 DEF Kill
    <2>2. CASE ~torn
        BY <1>a, <1>b, <2>1, <2>2, PairKept DEF Uploading
    <2>3. CASE torn
        <3>1. /\ \A h \in Host : local'[h] = IF h = HostOf[c] THEN Torn ELSE local[h]
              /\ \A d \in Client : client'[d] = IF d = c THEN Idle ELSE client[d]
            BY <2>1, <2>3 DEF TypeInv, TypeOK
        <3>2. ASSUME NEW d \in Client, client'[d] # Idle, local'[HostOf[d]] = NoFile
              PROVE  Pairing(client'[d]) /\ OthersIdle(d, client')
            <4>1. HostOf[d] # HostOf[c]
                BY <1>a, <3>1, <3>2, FileAssumption
            <4>2. Pairing(client[d]) /\ OthersIdle(d, client)
                BY <1>a, <3>1, <3>2, <4>1 DEF PairInv
            <4> QED
                BY <3>1, <4>1, <4>2 DEF OthersIdle
        <3>3. ASSUME NEW d \in Client, client'[d].pc = "pairing" PROVE local'[HostOf[d]] = NoFile
            <4>1. d # c /\ client[d].pc = "pairing"
                BY <1>a, <3>1, <3>3
            <4>2. local[HostOf[d]] = NoFile /\ client[d] # Idle
                BY <1>a, <4>1 DEF PairInv
            <4>3. OthersIdle(d, client)
                BY <4>2 DEF PairInv
            <4>4. HostOf[c] # HostOf[d]
                BY <2>1, <4>1, <4>3 DEF OthersIdle
            <4> QED
                BY <1>a, <3>1, <4>2, <4>4
        <3>4. \A d \in Client : client'[d].pc \in Uploading => OfHost(client'[d].req, HostOf[d])
            BY <1>a, <3>1 DEF PairInv, Uploading
        <3>5. ASSUME NEW k \in Conn, Loaded(server'[k])
              PROVE  \A s \in server'[k].req.bundled : local'[OwnerOf[s]] # NoFile
            <4>1. Loaded(server[k]) /\ server'[k] = server[k] /\ server[k].req \in UploadRequest
                BY <1>a, <2>1, <3>5, LoadedShape
            <4>2. \A s \in server[k].req.bundled : OwnerOf[s] \in Host
                BY <4>1, RemoteAgentAssumption DEF UploadRequest
            <4>3. \A s \in server[k].req.bundled : local[OwnerOf[s]] # NoFile
                BY <4>1 DEF PairInv
            <4> QED
                BY <3>1, <4>1, <4>2, <4>3, FileAssumption
        <3> QED
            BY <3>2, <3>3, <3>4, <3>5 DEF PairInv, OthersIdle, OfHost, Loaded, Pairing
    <2> QED
        BY <2>2, <2>3
<1>11. ASSUME UNCHANGED <<client, local, server>> PROVE PairInv'
    BY <1>a, <1>11, LoadedSame, PairQuiet
<1>12. ASSUME (\E s \in Source : EditSource(s)) \/ (\E l \in 1..MaxLeases : Expire(l)) \/ UNCHANGED vars
       PROVE  PairInv'
    BY <1>11, <1>12 DEF EditSource, Expire, vars
<1> QED
    BY <1>1, <1>2, <1>3, <1>4, <1>5, <1>6, <1>7, <1>8, <1>9, <1>10, <1>12

\* An answer, or its loss.
LEMMA TalkPairStep ==
    ASSUME TypeInv, OneUploadAtATime, ServerInv, PairInv, NEW k \in Conn,
           Receive(k) \/ LoseMessage(k) \/ Abandon(k)
    PROVE  PairInv'
<1> DEFINE c == server[k].client
<1>1. /\ local' = local /\ server[k] \in Handler /\ ~Free(k)
      /\ \A i \in Conn : LoadedBefore(server'[i], server[i])
    BY ServingLoadsNone DEF Receive, LoseMessage, Abandon, Free, NoRequest, TypeInv
<1>2. CASE client' = client
    BY <1>1, <1>2, PairQuiet
<1>3. \A i \in Conn : Loaded(server'[i]) => \A s \in server'[i].req.bundled : local[OwnerOf[s]] # NoFile
    <2> SUFFICES ASSUME NEW i \in Conn, Loaded(server'[i])
                 PROVE  \A s \in server'[i].req.bundled : local[OwnerOf[s]] # NoFile
        OBVIOUS
    <2>1. Loaded(server[i]) /\ server'[i].req = server[i].req
        BY <1>1 DEF LoadedBefore
    <2> QED
        BY <2>1 DEF PairInv
<1>4. CASE c \in Client /\ \E p \in {Failed(client[c]), Succeeded(client[c], server[k].answer)} :
                               client' = [client EXCEPT ![c] = p]
    <2>1. PICK p \in {Failed(client[c]), Succeeded(client[c], server[k].answer)} :
              client' = [client EXCEPT ![c] = p]
        BY <1>4
    <2>2. client[c] \in ClientState /\ client[c].pc \in WaitingPc
        BY <1>1, <1>4 DEF TypeInv, TalksInv, Talking, Free
    <2>3. client[c] # Idle /\ (Pairing(client[c]) => client[c].pc = "pairing")
        BY <2>2 DEF Idle, WaitingPc, Pairing
    <2>4. p.pc # "pairing" /\ (client[c].pc = "pairing" => p = Idle \/ Pairing(p))
        BY <2>1, <2>2, FailedShape, AnsweredShape
    <2>5. p.pc \in Uploading => client[c].pc = "uploading" /\ p.req = client[c].req
        BY <2>1, <2>2, FailedShape, AnsweredShape DEF Uploading
    <2>6. p.pc \in Uploading => OfHost(p.req, HostOf[c])
        BY <1>4, <2>5 DEF PairInv, Uploading
    <2> QED
        BY <1>1, <1>3, <1>4, <2>1, <2>3, <2>4, <2>6, PairKept
<1>5. c \in Client \/ c = Nobody
    BY <1>1, HandlerShape DEF Asker, Free
<1>6. \/ client' = client
      \/ c \in Client /\ \E p \in {Failed(client[c]), Succeeded(client[c], server[k].answer)} :
                             client' = [client EXCEPT ![c] = p]
    <2>1. CASE Receive(k)
        BY <1>5, <2>1 DEF Receive, TypeInv
    <2>2. CASE LoseMessage(k) \/ Abandon(k)
        BY <1>5, <2>2 DEF LoseMessage, Abandon, TypeInv
    <2> QED
        BY <2>1, <2>2
<1> QED
    BY <1>2, <1>4, <1>6

LEMMA PairInvStep ==
    ASSUME OneUploadAtATime, TypeInv, ServerInv, PairInv, [Next]_vars, ~CrashServer,
           [PairsOnce]_vars
    PROVE  PairInv'
<1> USE DEF hosts, files, history
<1>1. CASE \E c \in Client, k \in Conn : BeginPair(c, k)
    <2>1. CASE PairsOnce
        BY <1>1, <2>1, ClientPairStep
    <2>2. CASE UNCHANGED vars
        BY <2>2, ClientPairStep
    <2> QED
        BY <2>1, <2>2
<1>2. CASE \/ \E c \in Client :
                 \/ \E k \in Conn : BeginPull(c, k) \/ SendUpload(c, k) \/ Report(c, k)
                 \/ \E scope \in Scopes : BeginUpload(c, scope)
                 \/ \E presence \in [Source -> Presences] : Probe(c, presence)
                 \/ ReadLocalState(c) \/ WriteLocalState(c) \/ CommandFails(c)
                 \/ \E torn \in BOOLEAN : Kill(c, torn)
           \/ (\E s \in Source : EditSource(s)) \/ (\E l \in 1..MaxLeases : Expire(l)) \/ UNCHANGED vars
    BY <1>2, ClientPairStep
<1>3. ASSUME NEW k \in Conn,
             \/ Handles(k) \/ OpenTemporary(k)
             \/ \E content \in {server[k].save, Torn} : RenameTemporary(k, content)
      PROVE  PairInv'
    <2>1. UNCHANGED <<client, local>>
        BY <1>3, HandlerOutcome DEF OpenTemporary, RenameTemporary
    <2> QED
        BY <1>3, <2>1, ServingLoadsNone, PairQuiet
<1>4. CASE \E k \in Conn : Receive(k) \/ LoseMessage(k) \/ Abandon(k)
    BY <1>4, TalkPairStep
<1> QED
    BY StepGroups, <1>1, <1>2, <1>3, <1>4

LEMMA PairInit == Init => PairInv
BY DEF Init, PairInv, Idle, Uploading, Loaded, NoRequest

\* The sources that handler h has stored, and those of all uploads that are being
\* stored, whose generations are yet to be set.
StoredOf(h) == IF h.stage = "storing" THEN h.req.bundled \ h.left ELSE {}
Done(srv) ==
    {as \in Agent \X Source :
        \E k \in Conn : as[2] \in StoredOf(srv[k]) /\ srv[k].req.agent = as[1]}

\* What upload r brings was the source as it is or was, and if its generation is
\* still to come, nothing newer is stored.
Fits(r, st, v, w, done) ==
    \A s \in r.bundled :
        /\ r.gen[s] <= st.agents[r.agent].gen[s] + 1
        /\ r.data[s] # Unreadable =>
              /\ r.data[s] <= v[s]
              /\ r.gen[s] > st.agents[r.agent].gen[s] =>
                    w[s] <= r.data[s] \/ <<r.agent, s>> \in done

\* What a file says of the sources is stored.
Holds(file, w) == \A s \in Source : file.sum[s] # Unreadable => file.sum[s] <= w[s]
Brought(r, sources, w) == \A s \in sources : r.data[s] # Unreadable => r.data[s] <= w[s]

\* Everything that is of a host is of its one agent f[h].
FileOrder(h, x, f, st, w) ==
    x \notin {NoFile, Torn} => x.agent = f[h] /\ Told(st, x) /\ Holds(x, w)
ClientOrder(c, p, f, st, v, w, done) ==
    /\ p.pc \in Carrying => p.file.agent = f[HostOf[c]] /\ Told(st, p.file) /\ Holds(p.file, w)
    /\ p.pc \in Uploading => p.req.agent = p.file.agent /\ Fits(p.req, st, v, w, done)
HandlerOrder(h, f, st, v, w, done) ==
    Loaded(h) => /\ Fits(h.req, st, v, w, done)
                 /\ \A s \in h.req.bundled : h.req.agent = f[OwnerOf[s]]
                 /\ h.stage = "storing" => h.left \subseteq h.req.bundled
                 /\ Brought(h.req, StoredOf(h), w)
AnswerOrder(h, procs, w) ==
    h # NoRequest /\ h.stage \in Answered /\ h.answer.ok =>
        \A c \in Client : h.client = c /\ procs[c].pc = "uploading" 
            => Brought(procs[c].req, procs[c].req.bundled, w)

Orderly(f) ==
    /\ \A s \in Source : store[s] <= version[s]
    /\ \A h \in Host : FileOrder(h, local[h], f, state, store)
    /\ \A c \in Client : ClientOrder(c, client[c], f, state, version, store, Done(server))
    /\ \A k \in Conn : /\ HandlerOrder(server[k], f, state, version, store, Done(server))
                       /\ AnswerOrder(server[k], client, store)

StoredAsBefore(new, old) ==
    StoredOf(new) = StoredOf(old) /\ (StoredOf(old) # {} => new.req = old.req)

LEMMA DoneSame ==
    ASSUME \A k \in Conn : StoredAsBefore(server'[k], server[k])
    PROVE  Done(server') = Done(server)
BY DEF Done, StoredAsBefore

\* An upload ends with all its sources stored, or refused before the first.
LEMMA ServingStoresNone ==
    ASSUME TypeInv, OneUploadAtATime, ServerInv, NEW k \in Conn, [WholeUploads]_vars,
           \/ Handles(k) /\ \A s \in Source : ~StorePayload(k, s)
           \/ OpenTemporary(k)
           \/ \E content \in {server[k].save, Torn} : RenameTemporary(k, content)
           \/ Receive(k) \/ LoseMessage(k) \/ Abandon(k)
    PROVE  \A i \in Conn : StoredAsBefore(server'[i], server[i])
<1>a. \A i \in Conn : server[i] \in Handler
    BY DEF TypeInv
<1>b. ASSUME NEW h, server' = [server EXCEPT ![k] = h], StoredOf(h) = {}, StoredOf(server[k]) = {}
      PROVE  \A i \in Conn : StoredAsBefore(server'[i], server[i])
    BY <1>a, <1>b DEF TypeInv, StoredAsBefore
<1>c. ASSUME NEW h, h.stage # "storing" PROVE StoredOf(h) = {}
    BY <1>c DEF StoredOf
<1>1. ASSUME Handles(k), \A s \in Source : ~StorePayload(k, s)
      PROVE  \A i \in Conn : StoredAsBefore(server'[i], server[i])
    <2> DEFINE refused == [stage |-> "answering", client |-> server[k].client,
                           answer |-> [NoAnswer EXCEPT !.ok = FALSE]]
    <2>1. ASSUME Refuse(k) PROVE server' = [server EXCEPT ![k] = refused] /\ StoredOf(refused) = {}
        BY <2>1 DEF Refuse, Respond, StoredOf
    <2> HIDE DEF refused
    <2>2. CASE server[k].stage = "storing"
        <3>a. ~Free(k) /\ \A kind : ~Asks(k, kind)
            BY <2>2 DEF Free, NoRequest, Asks
        <3>b. /\ \A b \in Agent : ~Pair(k, b) /\ \A labels \in SUBSET Label : ~Relabel(k, b, labels)
              /\ \A selector \in Selectors, scope \in Scopes, expected \in Expectations :
                    ~CreateJob(k, selector, scope, expected)
              /\ ~LeaseJob(k) /\ ~CompleteJob(k) /\ ~ReceiveUpload(k)
            BY <3>a DEF Pair, Relabel, CreateJob, LeaseJob, CompleteJob, ReceiveUpload, Arrives
        <3>1. RejectStale(k) \/ StoreFails(k)
            BY <1>1, <3>b DEF Handles
        <3>2. Refuse(k)
            BY <3>1 DEF RejectStale, StoreFails
        <3>3. server[k].left = server[k].req.bundled
            <4>1. server'[k].stage = "answering"
                BY <3>2 DEF Refuse, Respond, TypeInv
            <4>2. server' # server
                BY <2>2, <4>1
            <4>3. WholeUploads
                BY <4>2 DEF vars
            <4> QED
                BY <3>1, <4>3 DEF WholeUploads
        <3>4. StoredOf(server[k]) = {}
            BY <3>3 DEF StoredOf
        <3> QED
            BY <1>b, <2>1, <3>2, <3>4
    <2>3. CASE server[k].stage # "storing"
        <3>1. StoredOf(server[k]) = {}
            BY <1>c, <2>3
        <3>2. Sets(k) \/ Refuses(k) \/ Starts(k) \/ GoesOn(k)
            BY <1>1, HandlerOutcome
        <3>3. CASE Sets(k)
            <4>1. PICK c, st, answer : SetState(k, c, st, answer)
                BY <3>3 DEF Sets
            <4> DEFINE h == [stage |-> "saving", client |-> c, save |-> st, fd |-> "none", answer |-> answer]
            <4>2. server' = [server EXCEPT ![k] = h] /\ h.stage = "saving"
                BY <4>1 DEF SetState
            <4> HIDE DEF h
            <4> QED
                BY <1>b, <1>c, <3>1, <4>2
        <3>4. CASE Refuses(k)
            BY <1>b, <2>1, <3>1, <3>4 DEF Refuses
        <3>5. CASE Starts(k)
            <4> DEFINE h == [stage |-> "storing", client |-> server[k].client, req |-> server[k].req,
                             snap |-> state, left |-> server[k].req.bundled]
            <4>1. server' = [server EXCEPT ![k] = h]
                BY <3>5 DEF Starts
            <4>2. StoredOf(h) = {}
                BY DEF StoredOf
            <4> HIDE DEF h
            <4> QED
                BY <1>b, <3>1, <4>1, <4>2
        <3>6. ~GoesOn(k)
            BY <2>3 DEF GoesOn, AtStage
        <3> QED
            BY <3>2, <3>3, <3>4, <3>5, <3>6
    <2> QED
        BY <2>2, <2>3
<1>2. CASE OpenTemporary(k)
    <2> DEFINE h == [server[k] EXCEPT !.stage = "opened", !.fd = "tmp"]
    <2>1. server[k] \in Saving /\ server[k].stage = "saving" /\ server' = [server EXCEPT ![k] = h]
        BY <1>2, <1>a, HandlerShape DEF OpenTemporary, AtStage, TypeInv
    <2>2. h.stage = "opened"
        BY <2>1 DEF Saving
    <2> HIDE DEF h
    <2> QED
        BY <1>b, <1>c, <2>1, <2>2
<1>3. ASSUME NEW content \in {server[k].save, Torn}, RenameTemporary(k, content)
      PROVE  \A i \in Conn : StoredAsBefore(server'[i], server[i])
    <2>1. server[k].stage = "opened" /\ StoredOf(server[k]) = {}
        BY <1>3, <1>c DEF RenameTemporary, AtStage
    <2>2. CASE tmp = NoFile
        <3> DEFINE h == [stage |-> "answering", client |-> server[k].client,
                         answer |-> [NoAnswer EXCEPT !.ok = FALSE]]
        <3>1. server' = [server EXCEPT ![k] = h] /\ h.stage = "answering"
            BY <1>3, <2>2 DEF RenameTemporary, Respond
        <3> HIDE DEF h
        <3> QED
            BY <1>b, <1>c, <2>1, <3>1
    <2>3. CASE tmp # NoFile
        <3>1. \A i \in Conn : server'[i] = IF i = k THEN [stage |-> "answering", client |-> server[k].client,
                                                          answer |-> server[k].answer]
                                           ELSE Renamed(server[i])
            BY <1>3, <2>3 DEF RenameTemporary
        <3>2. \A i \in Conn : StoredAsBefore(Renamed(server[i]), server[i])
            BY <1>a, RenamedSame DEF StoredAsBefore, StoredOf
        <3>3. ASSUME NEW h, h.stage = "answering" PROVE StoredAsBefore(h, server[k])
            BY <1>c, <2>1, <3>3 DEF StoredAsBefore
        <3> QED
            BY <3>1, <3>2, <3>3
    <2> QED
        BY <2>2, <2>3
<1>4. CASE Receive(k) \/ LoseMessage(k)
    <2>1. server' = [server EXCEPT ![k] = NoRequest]
        BY <1>4 DEF Receive, LoseMessage
    <2>2. server[k].stage \in {"arriving", "answering"}
        BY <1>4 DEF Receive, LoseMessage
    <2> QED
        BY <1>b, <1>c, <2>1, <2>2 DEF NoRequest
<1>5. CASE Abandon(k)
    <2> DEFINE h == [server[k] EXCEPT !.client = Nobody]
    <2>1. server' = [server EXCEPT ![k] = h]
        BY <1>5 DEF Abandon, TypeInv
    <2>2. /\ h.stage = server[k].stage
          /\ h.stage = "storing" => h.req = server[k].req /\ h.left = server[k].left
        BY <1>5, <1>a DEF Abandon, Free, Handler, Arriving, Storing, Saving, Answering
    <2> HIDE DEF h
    <2>3. StoredAsBefore(h, server[k]) /\ \A i \in Conn : StoredAsBefore(server[i], server[i])
        BY <2>2 DEF StoredAsBefore, StoredOf
    <2> QED
        BY <2>1, <2>3 DEF TypeInv
<1> QED
    BY <1>1, <1>2, <1>3, <1>4, <1>5

AgentOfHost == [Host -> Agent \cup {Nobody}]
StoreInv == \E f \in AgentOfHost : Orderly(f)

\* A step that only lets grow what there is.  A source that it stores, or that is
\* stored already by an upload that goes on, either gets its generation from the
\* agent of its host, or its upload still goes on.
Grows(f) ==
    /\ state' \in ControlState /\ Kept(state, state')
    /\ version' \in [Source -> 1..MaxVersion] /\ store' \in [Source -> 0..MaxVersion]
    /\ \A s \in Source : /\ version[s] <= version'[s]
                         /\ store[s] <= store'[s] /\ store'[s] <= version'[s]
                         /\ \/ state'.agents[f[OwnerOf[s]]].gen[s] > state.agents[f[OwnerOf[s]]].gen[s]
                            \/ <<f[OwnerOf[s]], s>> \in Done(server')
                            \/ store'[s] = store[s] /\ <<f[OwnerOf[s]], s>> \notin Done(server)

LEMMA FitsOn ==
    ASSUME TypeInv, NEW f \in AgentOfHost, Grows(f), NEW r \in UploadRequest,
           \A s \in r.bundled : r.agent = f[OwnerOf[s]], Fits(r, state, version, store, Done(server))
    PROVE  Fits(r, state', version', store', Done(server'))
<1> SUFFICES ASSUME NEW s \in r.bundled
             PROVE  /\ r.gen[s] <= state'.agents[r.agent].gen[s] + 1
                    /\ r.data[s] # Unreadable =>
                          /\ r.data[s] <= version'[s]
                          /\ r.gen[s] > state'.agents[r.agent].gen[s] =>
                                store'[s] <= r.data[s] \/ <<r.agent, s>> \in Done(server')
    BY DEF Fits
<1>1. s \in Source /\ r.agent \in Agent /\ r.gen[s] \in Nat /\ r.agent = f[OwnerOf[s]]
    BY RemoteAgentAssumption DEF UploadRequest, Generations
<1> DEFINE old == state.agents[r.agent].gen[s]
           new == state'.agents[r.agent].gen[s]
<1>2. old \in Nat /\ new \in Nat /\ new >= old
    BY <1>1 DEF Grows, Kept, TypeInv, TypeOK, ControlState, AgentRecord, Generations
<1>3. r.data[s] # Unreadable => r.data[s] \in Nat
    BY <1>1 DEF UploadRequest
<1>4. /\ r.gen[s] <= old + 1
      /\ r.data[s] # Unreadable =>
            /\ r.data[s] <= version[s]
            /\ r.gen[s] > old => store[s] <= r.data[s] \/ <<r.agent, s>> \in Done(server)
    BY DEF Fits
<1>5. /\ version[s] \in Nat /\ version'[s] \in Nat /\ store[s] \in Nat /\ store'[s] \in Nat
      /\ version[s] <= version'[s]
      /\ \/ new > old
         \/ <<r.agent, s>> \in Done(server')
         \/ store'[s] = store[s] /\ <<r.agent, s>> \notin Done(server)
    BY <1>1 DEF Grows, TypeInv, TypeOK
<1> HIDE DEF old, new
<1>6. r.gen[s] <= new + 1
    BY <1>1, <1>2, <1>4
<1>7. r.data[s] # Unreadable => r.data[s] <= version'[s]
    BY <1>3, <1>4, <1>5
<1>8. r.data[s] # Unreadable /\ r.gen[s] > new =>
          store'[s] <= r.data[s] \/ <<r.agent, s>> \in Done(server')
    BY <1>1, <1>2, <1>4, <1>5
<1> QED
    BY <1>6, <1>7, <1>8 DEF new

LEMMA GrowsStore ==
    ASSUME TypeInv, NEW f, Grows(f), NEW s \in Source
    PROVE  store[s] \in Nat /\ store'[s] \in Nat /\ store[s] <= store'[s]
<1>1. store[s] <= store'[s] /\ store' \in [Source -> 0..MaxVersion]
    BY DEF Grows
<1> QED
    BY <1>1 DEF TypeInv, TypeOK

LEMMA HoldsOn ==
    ASSUME TypeInv, NEW f, Grows(f), NEW file \in FileState, Holds(file, store)
    PROVE  Holds(file, store')
<1> SUFFICES ASSUME NEW s \in Source, file.sum[s] # Unreadable PROVE file.sum[s] <= store'[s]
    BY DEF Holds
<1>1. file.sum[s] \in Nat /\ file.sum[s] <= store[s]
    BY DEF FileState, Holds
<1>2. store[s] \in Nat /\ store'[s] \in Nat /\ store[s] <= store'[s]
    BY GrowsStore
<1> QED
    BY <1>1, <1>2

LEMMA BroughtOn ==
    ASSUME TypeInv, NEW f, Grows(f), NEW r \in UploadRequest, NEW sources \in SUBSET r.bundled,
           Brought(r, sources, store)
    PROVE  Brought(r, sources, store')
<1> SUFFICES ASSUME NEW s \in sources, r.data[s] # Unreadable PROVE r.data[s] <= store'[s]
    BY DEF Brought
<1>1. s \in Source /\ r.data[s] \in Nat /\ r.data[s] <= store[s]
    BY DEF UploadRequest, Brought
<1>2. store[s] \in Nat /\ store'[s] \in Nat /\ store[s] <= store'[s]
    BY <1>1, GrowsStore
<1> QED
    BY <1>1, <1>2

LEMMA ToldGrows ==
    ASSUME TypeInv, NEW f, Grows(f), NEW file \in FileState, Told(state, file)
    PROVE  Told(state', file)
BY ToldOn DEF Grows, TypeInv, TypeOK

LEMMA FileOn ==
    ASSUME TypeInv, NEW f \in AgentOfHost, Grows(f), NEW h \in Host, NEW x \in FileState \cup {NoFile, Torn},
           FileOrder(h, x, f, state, store)
    PROVE  FileOrder(h, x, f, state', store')
<1>1. CASE x \in {NoFile, Torn}
    BY <1>1 DEF FileOrder
<1>2. CASE x \notin {NoFile, Torn}
    <2>1. x \in FileState /\ x.agent = f[h] /\ Told(state, x) /\ Holds(x, store)
        BY <1>2 DEF FileOrder
    <2>2. Told(state', x) /\ Holds(x, store')
        BY <2>1, ToldGrows, HoldsOn
    <2> QED
        BY <2>1, <2>2 DEF FileOrder
<1> QED
    BY <1>1, <1>2

LEMMA ClientOn ==
    ASSUME TypeInv, NEW f \in AgentOfHost, Grows(f), NEW c \in Client, NEW p \in ClientState,
           p.pc \in Uploading => OfHost(p.req, HostOf[c]),
           ClientOrder(c, p, f, state, version, store, Done(server))
    PROVE  ClientOrder(c, p, f, state', version', store', Done(server'))
<1>1. ASSUME p.pc \in Carrying
      PROVE  p.file.agent = f[HostOf[c]] /\ Told(state', p.file) /\ Holds(p.file, store')
    <2>1. p.file \in FileState
        BY <1>1, CarryingShape
    <2>2. p.file.agent = f[HostOf[c]] /\ Told(state, p.file) /\ Holds(p.file, store)
        BY <1>1 DEF ClientOrder
    <2> QED
        BY <2>1, <2>2, ToldGrows, HoldsOn
<1>2. ASSUME p.pc \in Uploading
      PROVE  p.req.agent = p.file.agent /\ Fits(p.req, state', version', store', Done(server'))
    <2>1. p.req \in UploadRequest /\ p.pc \in Carrying
        BY <1>2, UploadingShape DEF Sending, Uploading, Carrying
    <2>2. p.req.agent = p.file.agent /\ Fits(p.req, state, version, store, Done(server))
        BY <1>2 DEF ClientOrder
    <2>3. \A s \in p.req.bundled : p.req.agent = f[OwnerOf[s]]
        BY <1>2, <2>1, <2>2 DEF ClientOrder, OfHost
    <2>4. Fits(p.req, state', version', store', Done(server'))
        BY <2>1, <2>2, <2>3, FitsOn
    <2> QED
        BY <2>2, <2>4
<1> QED
    BY <1>1, <1>2 DEF ClientOrder

LEMMA HandlerOn ==
    ASSUME TypeInv, NEW f \in AgentOfHost, Grows(f), NEW h \in Handler,
           HandlerOrder(h, f, state, version, store, Done(server))
    PROVE  HandlerOrder(h, f, state', version', store', Done(server'))
<1> SUFFICES ASSUME Loaded(h)
             PROVE  /\ Fits(h.req, state', version', store', Done(server'))
                    /\ \A s \in h.req.bundled : h.req.agent = f[OwnerOf[s]]
                    /\ h.stage = "storing" => h.left \subseteq h.req.bundled
                    /\ Brought(h.req, StoredOf(h), store')
    BY DEF HandlerOrder
<1>1. h.req \in UploadRequest
    BY LoadedShape
<1>2. /\ Fits(h.req, state, version, store, Done(server))
      /\ \A s \in h.req.bundled : h.req.agent = f[OwnerOf[s]]
      /\ h.stage = "storing" => h.left \subseteq h.req.bundled
      /\ Brought(h.req, StoredOf(h), store)
    BY DEF HandlerOrder
<1>3. Fits(h.req, state', version', store', Done(server'))
    BY <1>1, <1>2, FitsOn
<1>4. StoredOf(h) \subseteq h.req.bundled
    BY DEF StoredOf
<1>5. Brought(h.req, StoredOf(h), store')
    BY <1>1, <1>2, <1>4, BroughtOn
<1> QED
    BY <1>2, <1>3, <1>5

\* A handler that is loaded as it was before is as orderly as before.
LEMMA HandlerBefore ==
    ASSUME NEW new, NEW old, LoadedBefore(new, old), StoredAsBefore(new, old),
           NEW f, NEW st, NEW v, NEW w, NEW done, HandlerOrder(old, f, st, v, w, done)
    PROVE  HandlerOrder(new, f, st, v, w, done)
BY DEF LoadedBefore, StoredAsBefore, HandlerOrder, Loaded

\* A handler says nothing of an upload to a client that did not change.
LEMMA AnswerOn ==
    ASSUME TypeInv, NEW f, Grows(f), NEW i \in Conn, AnswerOrder(server[i], client, store),
           \A d \in Client : Talking(i, d) => client'[d] = client[d]
    PROVE  AnswerOrder(server[i], client', store')
<1> SUFFICES ASSUME server[i] # NoRequest, server[i].stage \in Answered, server[i].answer.ok,
                    NEW c \in Client, server[i].client = c, client'[c].pc = "uploading"
             PROVE  Brought(client'[c].req, client'[c].req.bundled, store')
    BY DEF AnswerOrder
<1>1. client'[c] = client[c] /\ client[c] \in ClientState
    BY DEF Talking, TypeInv
<1>2. client[c].req \in UploadRequest
    BY <1>1, UploadingShape DEF Sending, Uploading
<1>3. Brought(client[c].req, client[c].req.bundled, store)
    BY <1>1 DEF AnswerOrder
<1>4. Brought(client[c].req, client[c].req.bundled, store')
    BY <1>2, <1>3, BroughtOn
<1> QED
    BY <1>1, <1>4

\* All together.
LEMMA OrderlyNext ==
    ASSUME TypeInv, PairInv, NEW f \in AgentOfHost, Orderly(f), Grows(f),
           TypeInv', PairInv',
           \A h \in Host : FileOrder(h, local'[h], f, state, store),
           \A c \in Client : ClientOrder(c, client'[c], f, state, version, store, Done(server)),
           \A k \in Conn : \/ HandlerOrder(server'[k], f, state, version, store, Done(server))
                           \/ HandlerOrder(server'[k], f, state', version', store', Done(server')),
           \A k \in Conn : AnswerOrder(server'[k], client', store')
    PROVE  Orderly(f)'
<1>1. \A s \in Source : store'[s] <= version'[s]
    BY DEF Grows
<1>2. \A h \in Host : FileOrder(h, local'[h], f, state', store')
    BY FileOn DEF TypeInv, TypeOK
<1>3. ASSUME NEW c \in Client PROVE ClientOrder(c, client'[c], f, state', version', store', Done(server'))
    <2>1. client'[c] \in ClientState /\ (client'[c].pc \in Uploading => OfHost(client'[c].req, HostOf[c]))
        BY DEF TypeInv, PairInv, OfHost
    <2> QED
        BY <2>1, ClientOn
<1>4. \A k \in Conn : HandlerOrder(server'[k], f, state', version', store', Done(server'))
    BY HandlerOn DEF TypeInv
<1> QED
    BY <1>1, <1>2, <1>3, <1>4
       DEF Orderly, FileOrder, ClientOrder, HandlerOrder, AnswerOrder, Told, Holds, Fits, Brought,
           Loaded, StoredOf, Done

LEMMA GrowsSame ==
    ASSUME TypeInv, TypeInv', NEW f, Orderly(f), store' = store, Kept(state, state'),
           Done(server') = Done(server), \A s \in Source : version[s] <= version'[s]
    PROVE  Grows(f)
<1>1. /\ state' \in ControlState /\ version' \in [Source -> 1..MaxVersion]
      /\ store' \in [Source -> 0..MaxVersion]
    BY DEF TypeInv, TypeOK
<1>2. ASSUME NEW s \in Source PROVE store[s] <= store'[s] /\ store'[s] <= version'[s]
    <2>1. store[s] <= version[s] /\ version[s] <= version'[s]
        BY DEF Orderly
    <2>2. store[s] \in Nat /\ version[s] \in Nat /\ version'[s] \in Nat
        BY <1>1 DEF TypeInv, TypeOK
    <2> QED
        BY <2>1, <2>2
<1> QED
    BY <1>1, <1>2 DEF Grows

LEMMA StateKept == TypeInv => Kept(state, state)
BY KeptSame DEF TypeInv, TypeOK, Advance

LEMMA VersionSame == TypeInv => \A s \in Source : version[s] <= version[s]
BY DEF TypeInv, TypeOK

\* A client that waits for nothing goes on, and may send what it has.
LEMMA ClientGoesOn ==
    ASSUME TypeInv, TypeInv', PairInv, PairInv', NEW f \in AgentOfHost, Orderly(f),
           NEW c \in Client, NEW p, client' = [client EXCEPT ![c] = p],
           \A i \in Conn : ~Talking(i, c),
           UNCHANGED <<state, version, store>>,
           ClientOrder(c, p, f, state, version, store, Done(server)),
           \A h \in Host : FileOrder(h, local'[h], f, state, store),
           \A i \in Conn : \/ server'[i] = server[i]
                           \/ /\ server[i].stage = "free" /\ server'[i].stage = "arriving"
                              /\ HandlerOrder(server'[i], f, state, version, store, Done(server))
    PROVE  Orderly(f)'
<1>a. Done(server') = Done(server)
    BY DoneSame DEF StoredAsBefore, StoredOf
<1>1. Grows(f)
    BY <1>a, GrowsSame, StateKept, VersionSame
<1>2. \A d \in Client : client'[d] = IF d = c THEN p ELSE client[d]
    BY DEF TypeInv
<1>3. \A d \in Client : ClientOrder(d, client'[d], f, state, version, store, Done(server))
    BY <1>2 DEF Orderly
<1>4. \A i \in Conn : HandlerOrder(server'[i], f, state, version, store, Done(server))
    BY DEF Orderly
<1>5. ASSUME NEW i \in Conn PROVE AnswerOrder(server'[i], client', store')
    <2>1. CASE server'[i] = server[i]
        <3>1. \A d \in Client : Talking(i, d) => client'[d] = client[d]
            BY <1>2
        <3>2. AnswerOrder(server[i], client', store')
            BY <1>1, <3>1, AnswerOn DEF Orderly
        <3> QED
            BY <2>1, <3>2
    <2>2. CASE server'[i].stage = "arriving"
        BY <2>2 DEF AnswerOrder, Answered
    <2> QED
        BY <2>1, <2>2
<1> QED
    BY <1>1, <1>3, <1>4, <1>5, OrderlyNext

\* A process that carries nothing.
LEMMA CarriesNothing ==
    ASSUME NEW c, NEW p, p.pc \notin Carrying, NEW f, NEW st, NEW v, NEW w, NEW done
    PROVE  ClientOrder(c, p, f, st, v, w, done)
BY DEF ClientOrder, Carrying, Uploading

\* A process that goes on with what the file of its host says.
LEMMA CyclesInOrder ==
    ASSUME TypeInv, NEW f \in AgentOfHost, Orderly(f), NEW c \in Client, Readable(HostOf[c]),
           NEW puller, NEW job, NEW scope
    PROVE  ClientOrder(c, Cycle(c, puller, job, scope), f, state, version, store, Done(server))
<1>1. HostOf[c] \in Host
    BY RemoteAgentAssumption
<1>2. FileOrder(HostOf[c], local[HostOf[c]], f, state, store)
    BY <1>1 DEF Orderly
<1> QED
    BY <1>2 DEF ClientOrder, Cycle, FileOrder, Readable, Carrying, Uploading

\* What a probe finds follows what the host's agent uploaded last, and is the
\* source as it is.
LEMMA ProbesInOrder ==
    ASSUME TypeInv, NEW f \in AgentOfHost, Orderly(f), NEW c \in Client, client[c].pc = "probing",
           NEW r, r.agent = client[c].file.agent, r.bundled \subseteq Source,
           \A s \in r.bundled : /\ r.gen[s] = client[c].file.gen[s] + 1
                                /\ r.data[s] \in {Unreadable, version[s]}
    PROVE  Fits(r, state, version, store, Done(server))
<1>1. client[c].file \in FileState /\ Told(state, client[c].file)
    BY CarryingShape DEF TypeInv, Orderly, ClientOrder, Carrying
<1> SUFFICES ASSUME NEW s \in r.bundled
             PROVE  /\ r.gen[s] <= state.agents[r.agent].gen[s] + 1
                    /\ r.data[s] # Unreadable =>
                          /\ r.data[s] <= version[s]
                          /\ r.gen[s] > state.agents[r.agent].gen[s] => store[s] <= r.data[s]
    BY DEF Fits
<1>2. /\ client[c].file.gen[s] \in Nat /\ state.agents[r.agent].gen[s] \in Nat
      /\ client[c].file.gen[s] <= state.agents[r.agent].gen[s]
    BY <1>1 DEF FileState, Generations, TypeInv, TypeOK, ControlState, AgentRecord, Told
<1>3. version[s] \in Nat /\ store[s] \in Nat /\ store[s] <= version[s]
    BY DEF TypeInv, TypeOK, Orderly
<1>4. r.gen[s] = client[c].file.gen[s] + 1
    OBVIOUS
<1>5. r.gen[s] <= state.agents[r.agent].gen[s] + 1
    BY <1>2, <1>4
<1>6. r.data[s] # Unreadable => r.data[s] = version[s]
    OBVIOUS
<1> QED
    BY <1>3, <1>5, <1>6

LEMMA ClientOrderStep ==
    ASSUME TypeInv, TypeInv', PairInv, PairInv', NEW f \in AgentOfHost, Orderly(f)
    PROVE  /\ \A c \in Client :
                 /\ \A k \in Conn : BeginPair(c, k) \/ BeginPull(c, k) \/ SendUpload(c, k) \/ Report(c, k)
                                       => Orderly(f)'
                 /\ \A scope \in Scopes : BeginUpload(c, scope) => Orderly(f)'
                 /\ \A presence \in [Source -> Presences] : Probe(c, presence) => Orderly(f)'
                 /\ ReadLocalState(c) \/ WriteLocalState(c) \/ CommandFails(c) => Orderly(f)'
                 /\ \A torn \in BOOLEAN : Kill(c, torn) => Orderly(f)'
           /\ \A s \in Source : EditSource(s) => Orderly(f)'
           /\ \A l \in 1..MaxLeases : Expire(l) => Orderly(f)'
           /\ UNCHANGED vars => Orderly(f)'
<1> USE DEF hosts, files, history
<1>a. /\ \A h \in Host : FileOrder(h, local[h], f, state, store)
      /\ \A c \in Client : ClientOrder(c, client[c], f, state, version, store, Done(server))
      /\ \A c \in Client : client[c] \in ClientState
    BY DEF Orderly, TypeInv
<1>b. \A c \in Client : client[c].pc \notin WaitingPc => \A i \in Conn : ~Talking(i, c)
    BY DEF TypeInv, TalksInv
<1>c. ASSUME NEW c \in Client, NEW p, client' = [client EXCEPT ![c] = p], client[c].pc \notin WaitingPc,
             UNCHANGED <<state, version, store, local, server>>,
             ClientOrder(c, p, f, state, version, store, Done(server))
      PROVE  Orderly(f)'
    BY <1>a, <1>b, <1>c, ClientGoesOn
<1>d. ASSUME NEW c \in Client, NEW p, client' = [client EXCEPT ![c] = p], client[c].pc \notin WaitingPc,
             UNCHANGED <<state, version, store, local>>, NEW k \in Conn, NEW req, Send(c, k, req),
             req.kind # "upload", p.pc \notin Carrying
      PROVE  Orderly(f)'
    <2> DEFINE h == [stage |-> "arriving", client |-> c, req |-> req]
    <2>1. \A i \in Conn : server'[i] = IF i = k THEN h ELSE server[i]
        BY <1>d DEF Send, TypeInv
    <2>2. h.stage = "arriving" /\ server[k].stage = "free" /\ HandlerOrder(h, f, state, version, store, Done(server))
        BY <1>d DEF HandlerOrder, Loaded, Send, Free, NoRequest
    <2>3. ClientOrder(c, p, f, state, version, store, Done(server))
        BY <1>d, CarriesNothing
    <2> HIDE DEF h
    <2>4. \A i \in Conn : \/ server'[i] = server[i]
                          \/ /\ server[i].stage = "free" /\ server'[i].stage = "arriving"
                             /\ HandlerOrder(server'[i], f, state, version, store, Done(server))
        BY <2>1, <2>2
    <2> QED
        BY <1>a, <1>b, <1>d, <2>3, <2>4, ClientGoesOn
<1>1. ASSUME NEW c \in Client, NEW k \in Conn, BeginPair(c, k) PROVE Orderly(f)'
    <2> DEFINE p == [pc |-> "pairing"]
               req == [kind |-> "pair"]
    <2>1. /\ Send(c, k, req) /\ client' = [client EXCEPT ![c] = p] /\ p.pc = "pairing"
          /\ req.kind = "pair" /\ client[c].pc = "idle" /\ UNCHANGED <<state, version, store, local>>
        BY <1>1 DEF BeginPair, Idle
    <2> HIDE DEF p, req
    <2> QED
        BY <1>d, <2>1 DEF Carrying, WaitingPc
<1>2. ASSUME NEW c \in Client, NEW k \in Conn, BeginPull(c, k) PROVE Orderly(f)'
    <2> DEFINE p == [pc |-> "leasing", agent |-> local[HostOf[c]].agent]
               req == [kind |-> "lease", agent |-> local[HostOf[c]].agent]
    <2>1. /\ Send(c, k, req) /\ client' = [client EXCEPT ![c] = p] /\ p.pc = "leasing"
          /\ req.kind = "lease" /\ client[c].pc = "idle" /\ UNCHANGED <<state, version, store, local>>
        BY <1>2 DEF BeginPull, Idle
    <2> HIDE DEF p, req
    <2> QED
        BY <1>d, <2>1 DEF Carrying, WaitingPc
<1>3. ASSUME NEW c \in Client, NEW k \in Conn, SendUpload(c, k) PROVE Orderly(f)'
    <2> DEFINE p == [client[c] EXCEPT !.pc = "uploading"]
               h == [stage |-> "arriving", client |-> c, req |-> client[c].req]
    <2>1. client[c] \in Sending /\ client[c].pc = "sending"
        BY <1>3, <1>a, UploadingShape DEF SendUpload, Uploading
    <2>2. p.file = client[c].file /\ p.req = client[c].req /\ p.pc = "uploading"
        BY <2>1 DEF Sending
    <2>3. client' = [client EXCEPT ![c] = p] /\ UNCHANGED <<state, version, store, local>>
        BY <1>3 DEF SendUpload, TypeInv
    <2>4. server[k].stage = "free" /\ \A i \in Conn : server'[i] = IF i = k THEN h ELSE server[i]
        BY <1>3 DEF SendUpload, Send, Free, NoRequest, TypeInv
    <2>5. h.stage = "arriving" /\ h.req = client[c].req
        OBVIOUS
    <2> HIDE DEF p, h
    <2>6. ClientOrder(c, p, f, state, version, store, Done(server))
        BY <1>a, <2>1, <2>2 DEF ClientOrder, Carrying, Uploading
    <2>7. \A s \in h.req.bundled : h.req.agent = f[OwnerOf[s]]
        <3>1. \A s \in h.req.bundled : OwnerOf[s] = HostOf[c]
            BY <2>1, <2>5 DEF PairInv, Uploading, OfHost
        <3>2. h.req.agent = client[c].file.agent /\ client[c].file.agent = f[HostOf[c]]
            BY <1>a, <2>1, <2>5 DEF ClientOrder, Carrying, Uploading
        <3> QED
            BY <3>1, <3>2
    <2>8. HandlerOrder(h, f, state, version, store, Done(server))
        BY <1>a, <2>1, <2>5, <2>7 DEF HandlerOrder, ClientOrder, Uploading, StoredOf, Brought
    <2>9. \A i \in Conn : \/ server'[i] = server[i]
                          \/ /\ server[i].stage = "free" /\ server'[i].stage = "arriving"
                             /\ HandlerOrder(server'[i], f, state, version, store, Done(server))
        BY <2>4, <2>5, <2>8
    <2>10. \A i \in Conn : ~Talking(i, c)
        BY <1>b, <2>1 DEF WaitingPc
    <2> QED
        BY <1>a, <2>3, <2>6, <2>9, <2>10, ClientGoesOn
<1>4. ASSUME NEW c \in Client, NEW k \in Conn, Report(c, k) PROVE Orderly(f)'
    <2> DEFINE p == [client[c] EXCEPT !.pc = "completing"]
               req == [kind |-> "complete", agent |-> client[c].agent, job |-> client[c].job,
                       status |-> client[c].status]
    <2>1. client[c] \in ReportingState /\ client[c].pc = "reporting"
        BY <1>4, <1>a DEF Report, ClientState, Probing, RecordingState, Sending
    <2>2. p.pc = "completing" /\ req.kind = "complete"
        BY <2>1 DEF ReportingState
    <2>3. /\ client' = [client EXCEPT ![c] = p] /\ Send(c, k, req)
          /\ UNCHANGED <<state, version, store, local>>
        BY <1>4 DEF Report, TypeInv
    <2> HIDE DEF p, req
    <2> QED
        BY <1>d, <2>1, <2>2, <2>3 DEF Carrying, WaitingPc
<1>5. ASSUME NEW c \in Client, NEW scope \in Scopes, BeginUpload(c, scope) PROVE Orderly(f)'
    <2>1. /\ client' = [client EXCEPT ![c] = Cycle(c, Nobody, 0, scope)] /\ client[c].pc = "idle"
          /\ UNCHANGED <<state, version, store, local, server>> /\ Readable(HostOf[c])
        BY <1>5 DEF BeginUpload, Idle
    <2> QED
        BY <1>c, <2>1, CyclesInOrder DEF WaitingPc
<1>6. ASSUME NEW c \in Client, NEW presence \in [Source -> Presences], Probe(c, presence)
      PROVE  Orderly(f)'
    <2> DEFINE listed == {s \in client[c].scope : OwnerOf[s] = HostOf[c]}
               bundled == {s \in listed : presence[s] # "absent"}
               data == [s \in Source |-> IF presence[s] = "unreadable" THEN Unreadable
                                         ELSE version[s]]
               gen == [s \in Source |-> client[c].file.gen[s] + (IF s \in bundled THEN 1 ELSE 0)]
               req == [kind |-> "upload", agent |-> client[c].file.agent, job |-> client[c].job,
                       listed |-> listed, bundled |-> bundled, gen |-> gen, data |-> data]
               p == [pc |-> "sending", file |-> client[c].file, puller |-> client[c].puller,
                     tries |-> Retries, req |-> req]
    <2>a. client' = [client EXCEPT ![c] = p]
        BY <1>6 DEF Probe
    <2>b. bundled \subseteq client[c].scope
        OBVIOUS
    <2> HIDE DEF bundled, listed
    <2>c. \A s \in Source \cap bundled : /\ gen[s] = client[c].file.gen[s] + 1
                                         /\ data[s] \in {Unreadable, version[s]}
        OBVIOUS
    <2> HIDE DEF gen, data
    <2>1. /\ p.pc = "sending" /\ p.file = client[c].file /\ p.req = req
          /\ req.agent = client[c].file.agent
          /\ req.bundled = bundled /\ req.gen = gen /\ req.data = data
        OBVIOUS
    <2> HIDE DEF p, req
    <2>2. client[c].pc = "probing" /\ UNCHANGED <<state, version, store, local, server>>
        BY <1>6 DEF Probe
    <2>3. client[c] \in Probing /\ bundled \subseteq Source
        BY <1>a, <2>b, <2>2 DEF ClientState, Sending, RecordingState, ReportingState, Probing
    <2>4. Fits(req, state, version, store, Done(server))
        BY <2>c, <2>1, <2>2, <2>3, ProbesInOrder
    <2>5. ClientOrder(c, p, f, state, version, store, Done(server))
        BY <1>a, <2>1, <2>2, <2>4 DEF ClientOrder, Carrying, Uploading
    <2> QED
        BY <1>c, <2>a, <2>2, <2>5 DEF WaitingPc
<1>7. ASSUME NEW c \in Client, ReadLocalState(c) PROVE Orderly(f)'
    <2> DEFINE p == IF Readable(HostOf[c])
                    THEN Cycle(c, client[c].agent, client[c].job, client[c].scope)
                    ELSE Reporting(client[c].agent, client[c].job, "failed")
    <2>1. /\ client' = [client EXCEPT ![c] = p] /\ client[c].pc = "leased"
          /\ UNCHANGED <<state, version, store, local, server>>
        BY <1>7 DEF ReadLocalState
    <2>2. ClientOrder(c, p, f, state, version, store, Done(server))
        <3>1. CASE Readable(HostOf[c])
            BY <3>1, CyclesInOrder
        <3>2. CASE ~Readable(HostOf[c])
            BY <3>2, CarriesNothing DEF Reporting, Carrying
        <3> QED
            BY <3>1, <3>2
    <2> HIDE DEF p
    <2> QED
        BY <1>c, <2>1, <2>2 DEF WaitingPc
<1>8. ASSUME NEW c \in Client, WriteLocalState(c) PROVE Orderly(f)'
    <2> DEFINE p == IF client[c].job = 0 THEN Idle
                    ELSE Reporting(client[c].puller, client[c].job, "succeeded")
    <2>1. /\ client[c].pc = "recording" /\ client' = [client EXCEPT ![c] = p]
          /\ local' = [local EXCEPT ![HostOf[c]] = client[c].file]
          /\ UNCHANGED <<state, version, store, server>>
        BY <1>8 DEF WriteLocalState
    <2>2. p.pc \in {"idle", "reporting"}
        BY DEF Idle, Reporting
    <2> HIDE DEF p
    <2>3. ClientOrder(c, p, f, state, version, store, Done(server))
        BY <2>2, CarriesNothing DEF Carrying
    <2>4. FileOrder(HostOf[c], client[c].file, f, state, store)
        BY <1>a, <2>1 DEF ClientOrder, FileOrder, Carrying
    <2>5. \A h \in Host : FileOrder(h, local'[h], f, state, store)
        BY <1>a, <2>1, <2>4 DEF TypeInv, TypeOK
    <2>6. \A i \in Conn : ~Talking(i, c)
        BY <1>b, <2>1 DEF WaitingPc
    <2> QED
        BY <2>1, <2>3, <2>5, <2>6, ClientGoesOn
<1>9. ASSUME NEW c \in Client, CommandFails(c) PROVE Orderly(f)'
    <2> DEFINE p == IF client[c].job = 0 THEN Idle
                    ELSE Reporting(client[c].puller, client[c].job, "failed")
    <2>1. /\ client[c].pc \in {"probing", "recording"} /\ client' = [client EXCEPT ![c] = p]
          /\ UNCHANGED <<state, version, store, local, server>>
        BY <1>9 DEF CommandFails
    <2>2. p.pc \in {"idle", "reporting"}
        BY DEF Idle, Reporting
    <2> HIDE DEF p
    <2>3. ClientOrder(c, p, f, state, version, store, Done(server))
        BY <2>2, CarriesNothing DEF Carrying
    <2> QED
        BY <1>c, <2>1, <2>3 DEF WaitingPc
<1>10. ASSUME NEW c \in Client, NEW torn \in BOOLEAN, Kill(c, torn) PROVE Orderly(f)'
    <2>1. /\ client' = [client EXCEPT ![c] = Idle]
          /\ local' = IF torn THEN [local EXCEPT ![HostOf[c]] = Torn] ELSE local
          /\ UNCHANGED <<state, version, store, server>>
        BY <1>10 DEF Kill
    <2>2. \A i \in Conn : ~Talking(i, c)
        BY <1>10 DEF Kill, Waiting, Free, Talking
    <2>3. ClientOrder(c, Idle, f, state, version, store, Done(server))
        BY CarriesNothing DEF Idle, Carrying
    <2>4. \A h \in Host : local'[h] \in {local[h], Torn}
        BY <2>1 DEF TypeInv, TypeOK
    <2>5. \A h \in Host : FileOrder(h, local'[h], f, state, store)
        BY <1>a, <2>4 DEF FileOrder
    <2> QED
        BY <2>1, <2>2, <2>3, <2>5, ClientGoesOn
<1>11. ASSUME UNCHANGED <<client, local, server, state, store>>,
              \A s \in Source : version[s] <= version'[s]
       PROVE  Orderly(f)'
    <2>1. Grows(f)
        BY <1>11, GrowsSame, StateKept
    <2>2. \A i \in Conn : AnswerOrder(server'[i], client', store')
        BY <1>11 DEF Orderly, AnswerOrder, Brought
    <2> QED
        BY <1>a, <1>11, <2>1, <2>2, OrderlyNext DEF Orderly
<1>12. ASSUME NEW s \in Source, EditSource(s) PROVE Orderly(f)'
    <2>1. version' = [version EXCEPT ![s] = version[s] + 1]
        BY <1>12 DEF EditSource
    <2>2. \A t \in Source : version[t] <= version'[t]
        BY <2>1 DEF TypeInv, TypeOK
    <2> QED
        BY <1>11, <1>12, <2>2 DEF EditSource
<1>13. ASSUME (\E l \in 1..MaxLeases : Expire(l)) \/ UNCHANGED vars PROVE Orderly(f)'
    <2>1. UNCHANGED <<client, local, server, state, store, version>>
        BY <1>13 DEF Expire, vars
    <2>2. \A s \in Source : version[s] <= version'[s]
        BY <2>1, VersionSame
    <2> QED
        BY <1>11, <2>1, <2>2
<1> QED
    BY <1>1, <1>2, <1>3, <1>4, <1>5, <1>6, <1>7, <1>8, <1>9, <1>10, <1>12, <1>13

LEMMA AfterUploadGen ==
    ASSUME NEW st \in ControlState, NEW r \in UploadRequest, NEW s \in r.bundled
    PROVE  AfterUpload(st, r).agents[r.agent].gen[s] = r.gen[s]
<1>1. r.agent \in Agent /\ r.bundled \subseteq Source
    BY DEF UploadRequest
<1> QED
    BY <1>1 DEF AfterUpload, ControlState, AgentRecord

\* A source that is stored makes every other upload of it that is on the way stale:
\* at once, or when the upload that stores it is complete.
LEMMA StoresInOrder ==
    ASSUME OneUploadAtATime, TypeInv, TypeInv', ServerInv, PairInv, PairInv',
           NEW f \in AgentOfHost, Orderly(f), NEW k \in Conn, NEW s \in Source, StorePayload(k, s)
    PROVE  Orderly(f)' /\ \A t \in Source : store'[t] >= store[t]
<1> USE DEF hosts, files, history
<1> DEFINE h == server[k]
           r == server[k].req
           a == server[k].req.agent
           new == server'[k]
<1>1. /\ h \in Storing /\ h.stage = "storing" /\ h # NoRequest /\ s \in h.left /\ Fresh(k, s)
      /\ UNCHANGED <<version, client, local>>
    BY HandlerShape DEF StorePayload, Free, TypeInv
<1>2. r \in UploadRequest /\ Loaded(h) /\ a \in Agent /\ h.left \subseteq Source /\ r.bundled \subseteq Source
    BY <1>1 DEF Storing, UploadRequest, Loaded
<1>3. /\ Fits(r, state, version, store, Done(server)) /\ h.left \subseteq r.bundled
      /\ \A t \in r.bundled : a = f[OwnerOf[t]]
      /\ Brought(r, r.bundled \ h.left, store)
    BY <1>1, <1>2 DEF Orderly, HandlerOrder, StoredOf
<1>4. /\ h.snap = state
      /\ \A t \in r.bundled \ h.left : r.gen[t] > state.agents[a].gen[t]
      /\ \A i \in Conn : server[i].stage = "storing" => i = k
    BY <1>1 DEF ServerInv, UploadInv, Storage
<1>5. r.gen[s] > state.agents[a].gen[s]
    BY <1>1, <1>4 DEF Fresh
<1>6. \/ /\ h.left = {s}
         /\ new = [stage |-> "saving", client |-> h.client, save |-> AfterUpload(state, r), fd |-> "none",
                   answer |-> NoAnswer]
         /\ state' = AfterUpload(state, r)
      \/ /\ new = [h EXCEPT !.left = h.left \ {s}]
         /\ state' = state
    BY <1>4 DEF StorePayload, SetState, TypeInv
<1>7. \A i \in Conn \ {k} : server'[i] = server[i]
    BY DEF StorePayload, SetState, TypeInv
<1>8. /\ \A t \in Source \ {s} : store'[t] = store[t]
      /\ store'[s] = IF r.data[s] = Unreadable THEN store[s] ELSE r.data[s]
    BY DEF StorePayload, TypeInv, TypeOK
<1>9. \/ /\ new.stage = "saving" /\ new.client = h.client /\ h.left = {s} /\ state' = AfterUpload(state, r)
      \/ /\ new.stage = "storing" /\ new.req = r /\ new.left = h.left \ {s} /\ state' = state
    <2>1. [h EXCEPT !.left = h.left \ {s}].stage = "storing" /\ [h EXCEPT !.left = h.left \ {s}].req = r
          /\ [h EXCEPT !.left = h.left \ {s}].left = h.left \ {s}
        BY <1>1 DEF Storing
    <2> HIDE DEF h, r, a, new
    <2>2. CASE /\ h.left = {s}
               /\ new = [stage |-> "saving", client |-> h.client, save |-> AfterUpload(state, r),
                         fd |-> "none", answer |-> NoAnswer]
               /\ state' = AfterUpload(state, r)
        BY <2>2
    <2>3. CASE new = [h EXCEPT !.left = h.left \ {s}] /\ state' = state
        BY <2>1, <2>3
    <2> QED
        BY <1>6, <2>2, <2>3
<1>10. Kept(state, state')
    <2>1. Sets(k) \/ Refuses(k) \/ Starts(k) \/ GoesOn(k)
        BY HandlerOutcome DEF Handles
    <2>2. state' = state \/ Kept(state, state')
        BY <2>1 DEF Sets, Refuses, Starts, GoesOn, SetState, Refuse, Advance
    <2> QED
        BY <2>2, StateKept
<1>11. state' = AfterUpload(state, r) => \A t \in r.bundled : state'.agents[a].gen[t] = r.gen[t]
    BY <1>2, AfterUploadGen DEF TypeInv, TypeOK
<1>12. \A b \in Agent, t \in Source : <<b, t>> \in Done(server) => b = a /\ t \in r.bundled \ h.left
    BY <1>4 DEF Done, StoredOf
<1>13. new.stage = "storing" /\ new.req = r /\ new.left = h.left \ {s} =>
           \A t \in r.bundled : t \notin h.left \/ t = s => <<a, t>> \in Done(server')
    BY <1>2 DEF Done, StoredOf
<1> HIDE DEF h, r, a, new
<1>14. /\ \A t \in Source : /\ store[t] \in Nat /\ version[t] \in Nat /\ store'[t] \in Nat
                            /\ store[t] <= version[t]
       /\ r.data[s] # Unreadable => r.data[s] \in Nat
    BY <1>2 DEF TypeInv, TypeOK, Orderly, UploadRequest
<1>15. s \in r.bundled /\ <<a, s>> \notin Done(server)
    BY <1>1, <1>2, <1>3, <1>12 DEF h
<1>16. r.data[s] # Unreadable => r.data[s] <= version[s] /\ store[s] <= r.data[s]
    BY <1>3, <1>5, <1>15 DEF Fits, a, r
<1>17. \A t \in Source : store[t] <= store'[t] /\ store'[t] <= version[t]
    <2> SUFFICES ASSUME NEW t \in Source PROVE store[t] <= store'[t] /\ store'[t] <= version[t]
        OBVIOUS
    <2>1. CASE t = s
        BY <1>8, <1>14, <1>16, <2>1
    <2>2. CASE t # s
        BY <1>8, <1>14, <2>2
    <2> QED
        BY <2>1, <2>2
<1>18. ASSUME NEW t \in Source
       PROVE  \/ state'.agents[f[OwnerOf[t]]].gen[t] > state.agents[f[OwnerOf[t]]].gen[t]
              \/ <<f[OwnerOf[t]], t>> \in Done(server')
              \/ store'[t] = store[t] /\ <<f[OwnerOf[t]], t>> \notin Done(server)
    <2>1. CASE t \notin r.bundled
        <3>1. store'[t] = store[t]
            BY <1>8, <1>15, <2>1
        <3>2. \A b : <<b, t>> \in Done(server) => b \in Agent
            BY DEF Done
        <3> QED
            BY <1>12, <2>1, <3>1, <3>2
    <2>2. CASE t \in r.bundled /\ state' = AfterUpload(state, r) /\ h.left = {s}
        <3>1. r.gen[t] > state.agents[a].gen[t]
            BY <1>4, <1>5, <2>2 DEF h, r, a
        <3>2. state'.agents[a].gen[t] > state.agents[a].gen[t]
            BY <1>11, <2>2, <3>1
        <3> QED
            BY <1>3, <2>2, <3>2
    <2>3. CASE t \in r.bundled /\ new.stage = "storing" /\ new.req = r /\ new.left = h.left \ {s}
        <3>1. a = f[OwnerOf[t]]
            BY <1>3, <2>3
        <3>2. CASE t \notin h.left \/ t = s
            BY <1>13, <2>3, <3>1, <3>2
        <3>3. CASE t \in h.left /\ t # s
            BY <1>2, <1>8, <1>12, <2>3, <3>1, <3>3
        <3> QED
            BY <3>2, <3>3
    <2> QED
        BY <1>9, <2>1, <2>2, <2>3
<1>19. Grows(f)
    <2>1. /\ state' \in ControlState /\ version' \in [Source -> 1..MaxVersion]
          /\ store' \in [Source -> 0..MaxVersion]
        BY DEF TypeInv, TypeOK
    <2>2. \A t \in Source : version[t] <= version'[t] /\ store'[t] <= version'[t]
        BY <1>1, <1>14, <1>17
    <2> QED
        BY <1>10, <1>17, <1>18, <2>1, <2>2 DEF Grows
<1>20. Brought(r, (r.bundled \ h.left) \cup {s}, store')
    <2>1. Brought(r, r.bundled \ h.left, store')
        BY <1>2, <1>3, <1>19, BroughtOn
    <2>2. r.data[s] # Unreadable => r.data[s] <= store'[s]
        BY <1>8, <1>14
    <2> QED
        BY <2>1, <2>2 DEF Brought
<1>21. ASSUME NEW i \in Conn PROVE AnswerOrder(server'[i], client', store')
    <2>1. CASE i = k /\ new.stage = "saving" /\ new.client = h.client /\ h.left = {s}
        <3> SUFFICES ASSUME NEW c \in Client, new.client = c, client[c].pc = "uploading"
                     PROVE  Brought(client[c].req, client[c].req.bundled, store')
            BY <1>1, <2>1 DEF AnswerOrder, new
        <3>1. client[c].req = r
            BY <1>1, <2>1 DEF ServerInv, AnswerInv, Promise, h, r
        <3>2. r.bundled \subseteq (r.bundled \ h.left) \cup {s}
            BY <2>1
        <3> QED
            BY <1>20, <3>1, <3>2 DEF Brought
    <2>2. CASE i = k /\ new.stage = "storing"
        BY <2>2 DEF AnswerOrder, Answered, new
    <2>3. CASE i # k
        <3>1. AnswerOrder(server[i], client, store)
            BY DEF Orderly
        <3>2. AnswerOrder(server[i], client', store')
            BY <1>1, <1>19, <3>1, AnswerOn
        <3> QED
            BY <1>7, <2>3, <3>2
    <2> QED
        BY <1>9, <2>1, <2>2, <2>3
<1>22. ASSUME NEW i \in Conn
       PROVE  \/ HandlerOrder(server'[i], f, state, version, store, Done(server))
              \/ HandlerOrder(server'[i], f, state', version', store', Done(server'))
    <2>1. CASE i # k
        BY <1>7, <2>1 DEF Orderly
    <2>2. CASE i = k /\ new.stage = "saving"
        BY <2>2 DEF HandlerOrder, Loaded, new
    <2>3. CASE i = k /\ new.stage = "storing" /\ new.req = r /\ new.left = h.left \ {s}
        <3>1. Fits(r, state', version', store', Done(server'))
            BY <1>2, <1>3, <1>19, FitsOn DEF a, r
        <3>2. StoredOf(new) \subseteq (r.bundled \ h.left) \cup {s}
            BY <2>3 DEF StoredOf
        <3>3. Brought(r, StoredOf(new), store')
            BY <1>20, <3>2 DEF Brought
        <3>4. HandlerOrder(new, f, state', version', store', Done(server'))
            BY <1>3, <2>3, <3>1, <3>3 DEF HandlerOrder, Loaded, a, r
        <3> QED
            BY <2>3, <3>4 DEF new
    <2> QED
        BY <1>9, <2>1, <2>2, <2>3
<1>23. /\ \A x \in Host : FileOrder(x, local'[x], f, state, store)
       /\ \A c \in Client : ClientOrder(c, client'[c], f, state, version, store, Done(server))
    BY <1>1 DEF Orderly
<1>24. Orderly(f)'
    BY <1>19, <1>21, <1>22, <1>23, OrderlyNext
<1>25. \A t \in Source : store'[t] >= store[t]
    BY <1>14, <1>17
<1> QED
    BY <1>24, <1>25

\* The other handlers leave the store alone, and a good answer to an upload that
\* they set is one to an upload that brought nothing.
LEMMA OthersAnswer ==
    ASSUME TypeInv, ServerInv, NEW k \in Conn, Handles(k), \A s \in Source : ~StorePayload(k, s)
    PROVE  /\ UNCHANGED <<store, version, local, client>>
           /\ AnswerOrder(server'[k], client, store)
<1> USE DEF hosts, files, history
<1>a. AnswerInv /\ \A c \in Client : client[c] \in ClientState
    BY DEF ServerInv, TypeInv
<1>b. ASSUME NEW c, NEW st, NEW answer, SetState(k, c, st, answer)
      PROVE  server'[k].client = c
    BY <1>b DEF SetState, TypeInv
<1>c. ASSUME Refuse(k) PROVE AnswerOrder(server'[k], client, store) /\ server'[k].client = server[k].client
    <2> DEFINE h == [stage |-> "answering", client |-> server[k].client,
                     answer |-> [NoAnswer EXCEPT !.ok = FALSE]]
    <2>1. server'[k] = h
        BY <1>c DEF Refuse, Respond, TypeInv
    <2>2. h.client = server[k].client /\ h.answer.ok = FALSE
        BY DEF NoAnswer
    <2> HIDE DEF h
    <2> QED
        BY <2>1, <2>2 DEF AnswerOrder
<1>d. ASSUME NEW kind, Asks(k, kind), kind # "upload", server'[k].client = server[k].client
      PROVE  AnswerOrder(server'[k], client, store)
    <2>1. \A c \in Client : server[k].client = c => client[c].pc # "uploading"
        BY <1>a, <1>d, NotUploading DEF Talking, Asks, Free
    <2> QED
        BY <1>d, <2>1 DEF AnswerOrder
<1>e. ASSUME NEW st, NEW answer, SetState(k, Nobody, st, answer) PROVE AnswerOrder(server'[k], client, store)
    BY <1>b, <1>e, RemoteAgentAssumption DEF AnswerOrder
<1>1. ASSUME NEW b \in Agent, Pair(k, b)
      PROVE  UNCHANGED <<store, version, local, client>> /\ AnswerOrder(server'[k], client, store)
    BY <1>1, <1>b, <1>d DEF Pair, Arrives
<1>2. ASSUME NEW b \in Agent, NEW labels \in SUBSET Label, Relabel(k, b, labels)
      PROVE  UNCHANGED <<store, version, local, client>> /\ AnswerOrder(server'[k], client, store)
    BY <1>2, <1>e DEF Relabel
<1>3. ASSUME NEW selector \in Selectors, NEW scope \in Scopes, NEW expected \in Expectations,
             CreateJob(k, selector, scope, expected)
      PROVE  UNCHANGED <<store, version, local, client>> /\ AnswerOrder(server'[k], client, store)
    BY <1>3, <1>e DEF CreateJob
<1>4. ASSUME LeaseJob(k)
      PROVE  UNCHANGED <<store, version, local, client>> /\ AnswerOrder(server'[k], client, store)
    <2>1. Asks(k, "lease") /\ UNCHANGED <<store, version, local, client>>
        BY <1>4 DEF LeaseJob, Arrives
    <2>2. Refuse(k) \/ \E st, answer : SetState(k, server[k].client, st, answer)
        BY <1>4 DEF LeaseJob
    <2>3. server'[k].client = server[k].client
        BY <2>2, <1>b, <1>c
    <2> QED
        BY <1>d, <2>1, <2>3
<1>5. ASSUME CompleteJob(k)
      PROVE  UNCHANGED <<store, version, local, client>> /\ AnswerOrder(server'[k], client, store)
    <2>1. Asks(k, "complete") /\ UNCHANGED <<store, version, local, client>>
        BY <1>5 DEF CompleteJob, Arrives
    <2>2. Refuse(k) \/ \E st, answer : SetState(k, server[k].client, st, answer)
        BY <1>5 DEF CompleteJob
    <2>3. server'[k].client = server[k].client
        BY <2>2, <1>b, <1>c
    <2> QED
        BY <1>d, <2>1, <2>3
<1>6. ASSUME ReceiveUpload(k)
      PROVE  UNCHANGED <<store, version, local, client>> /\ AnswerOrder(server'[k], client, store)
    <2> DEFINE r == server[k].req
    <2>1. /\ Asks(k, "upload") /\ server[k] # NoRequest /\ server[k].stage = "arriving"
          /\ UNCHANGED <<store, version, local, client>>
        BY <1>6 DEF ReceiveUpload, Arrives, Asks, Free
    <2>2. CASE Refuse(k)
        BY <1>c, <2>1, <2>2
    <2>3. CASE r.bundled = {} /\ SetState(k, server[k].client, AfterUpload(state, r), NoAnswer)
        <3>1. server'[k].client = server[k].client
            BY <1>b, <2>3
        <3>2. \A c \in Client : server[k].client = c /\ client[c].pc = "uploading" => client[c].req = r
            BY <1>a, <2>1 DEF AnswerInv, Promise
        <3> HIDE DEF r
        <3>3. \A c \in Client : server[k].client = c /\ client[c].pc = "uploading"
                                   => Brought(client[c].req, client[c].req.bundled, store)
            BY <2>3, <3>2 DEF Brought
        <3> QED
            BY <2>1, <3>1, <3>3 DEF AnswerOrder
    <2>4. CASE server'[k].stage = "storing"
        BY <2>1, <2>4 DEF AnswerOrder, Answered
    <2>5. \/ Refuse(k) \/ server'[k].stage = "storing"
          \/ r.bundled = {} /\ SetState(k, server[k].client, AfterUpload(state, r), NoAnswer)
        BY <1>6 DEF ReceiveUpload, TypeInv
    <2> QED
        BY <2>2, <2>3, <2>4, <2>5
<1>7. ASSUME RejectStale(k) \/ StoreFails(k)
      PROVE  UNCHANGED <<store, version, local, client>> /\ AnswerOrder(server'[k], client, store)
    BY <1>7, <1>c DEF RejectStale, StoreFails
<1> QED
    BY <1>1, <1>2, <1>3, <1>4, <1>5, <1>6, <1>7 DEF Handles

\* The server goes on, and stores nothing.
LEMMA ServerOrderStep ==
    ASSUME OneUploadAtATime, TypeInv, TypeInv', ServerInv, PairInv, PairInv',
           NEW f \in AgentOfHost, Orderly(f), NEW k \in Conn, [WholeUploads]_vars,
           \/ Handles(k) /\ \A s \in Source : ~StorePayload(k, s)
           \/ OpenTemporary(k)
           \/ \E content \in {server[k].save, Torn} : RenameTemporary(k, content)
    PROVE  Orderly(f)' /\ store' = store
<1> USE DEF hosts, files, history
<1>1. UNCHANGED <<store, version, local, client>>
    BY OthersAnswer DEF OpenTemporary, RenameTemporary
<1>2. Kept(state, state')
    <2>1. CASE Handles(k)
        <3>1. Sets(k) \/ Refuses(k) \/ Starts(k) \/ GoesOn(k)
            BY <2>1, HandlerOutcome
        <3>2. state' = state \/ Kept(state, state')
            BY <3>1 DEF Sets, Refuses, Starts, GoesOn, SetState, Refuse, Advance
        <3> QED
            BY <3>2, StateKept
    <2>2. CASE state' = state
        BY <2>2, StateKept
    <2> QED
        BY <2>1, <2>2 DEF OpenTemporary, RenameTemporary
<1>b. /\ \A i \in Conn : StoredAsBefore(server'[i], server[i])
      /\ Done(server') = Done(server)
    BY ServingStoresNone, DoneSame
<1>3. Grows(f)
    BY <1>1, <1>2, <1>b, VersionSame, GrowsSame
<1>4. \A i \in Conn : HandlerOrder(server'[i], f, state, version, store, Done(server))
    <2>1. \A i \in Conn : LoadedBefore(server'[i], server[i])
        BY ServingLoadsNone
    <2> QED
        BY <1>b, <2>1, HandlerBefore DEF Orderly
<1>a. \A i \in Conn : server[i] \in Handler /\ AnswerOrder(server[i], client, store)
    BY DEF TypeInv, Orderly
<1>5. ASSUME NEW i \in Conn PROVE AnswerOrder(server'[i], client, store)
    <2>1. CASE Handles(k) /\ \A s \in Source : ~StorePayload(k, s)
        <3>1. CASE i = k
            BY <2>1, <3>1, OthersAnswer
        <3>2. CASE i # k
            <4>1. Sets(k) \/ Refuses(k) \/ Starts(k) \/ GoesOn(k)
                BY <2>1, HandlerOutcome
            <4>2. server'[i] = server[i]
                BY <3>2, <4>1 DEF Sets, SetState, Refuses, Refuse, Respond, Starts, GoesOn, TypeInv
            <4> QED
                BY <1>a, <4>2
        <3> QED
            BY <3>1, <3>2
    <2>2. CASE OpenTemporary(k)
        <3> DEFINE h == [server[k] EXCEPT !.stage = "opened", !.fd = "tmp"]
        <3>1. server[k] \in Saving /\ server[k].stage = "saving" /\ server[k] # NoRequest
            BY <1>a, <2>2, HandlerShape DEF OpenTemporary, AtStage, Free
        <3>2. server' = [server EXCEPT ![k] = h]
            BY <2>2 DEF OpenTemporary, TypeInv
        <3>3. h.stage = "opened" /\ h.client = server[k].client /\ h.answer = server[k].answer
            BY <3>1 DEF Saving
        <3> HIDE DEF h
        <3>4. AnswerOrder(h, client, store)
            BY <1>a, <3>1, <3>3 DEF AnswerOrder, Answered
        <3> QED
            BY <1>a, <3>2, <3>4 DEF TypeInv
    <2>3. ASSUME NEW content \in {server[k].save, Torn}, RenameTemporary(k, content)
          PROVE  AnswerOrder(server'[i], client, store)
        <3>1. server[k].stage = "opened" /\ server[k] # NoRequest
            BY <2>3 DEF RenameTemporary, AtStage, Free
        <3>2. CASE tmp = NoFile
            <4> DEFINE h == [stage |-> "answering", client |-> server[k].client,
                             answer |-> [NoAnswer EXCEPT !.ok = FALSE]]
            <4>1. server' = [server EXCEPT ![k] = h]
                BY <2>3, <3>2 DEF RenameTemporary, Respond
            <4>2. AnswerOrder(h, client, store)
                BY DEF AnswerOrder, NoAnswer
            <4> HIDE DEF h
            <4> QED
                BY <1>a, <4>1, <4>2 DEF TypeInv
        <3>3. CASE tmp # NoFile
            <4> DEFINE g == [stage |-> "answering", client |-> server[k].client,
                             answer |-> server[k].answer]
            <4>1. \A j \in Conn : server'[j] = IF j = k THEN g ELSE Renamed(server[j])
                BY <2>3, <3>3 DEF RenameTemporary
            <4>2. AnswerOrder(g, client, store)
                BY <1>a, <3>1 DEF AnswerOrder, Answered
            <4> HIDE DEF g
            <4>3. AnswerOrder(Renamed(server[i]), client, store)
                <5> DEFINE h == server[i]
                           q == Renamed(server[i])
                <5>1. /\ q # NoRequest <=> h # NoRequest
                      /\ q.stage = h.stage
                      /\ h # NoRequest => q.client = h.client
                      /\ h.stage \in Answered => q.answer = h.answer
                    BY <1>a, RenamedSame
                <5>2. AnswerOrder(h, client, store)
                    BY <1>a
                <5> HIDE DEF q, h
                <5>3. AnswerOrder(q, client, store)
                    BY <5>1, <5>2 DEF AnswerOrder
                <5> QED
                    BY <5>3 DEF q
            <4> QED
                BY <4>1, <4>2, <4>3
        <3> QED
            BY <3>2, <3>3
    <2> QED
        BY <2>1, <2>2, <2>3
<1>6. \A i \in Conn : AnswerOrder(server'[i], client', store')
    BY <1>1, <1>5
<1>7. /\ \A x \in Host : FileOrder(x, local'[x], f, state, store)
      /\ \A c \in Client : ClientOrder(c, client'[c], f, state, version, store, Done(server))
    BY <1>1 DEF Orderly
<1>8. Orderly(f)'
    BY <1>3, <1>4, <1>6, <1>7, OrderlyNext
<1> QED
    BY <1>1, <1>8

\* A good answer to an upload: what was brought is stored, and recorded as such.
LEMMA UploadedInOrder ==
    ASSUME TypeInv, NEW f \in AgentOfHost, NEW c \in Client, NEW p \in ClientState,
           NEW answer \in Answer, p.pc = "uploading", Brought(p.req, p.req.bundled, store), Accepted(state, p.req),
           ClientOrder(c, p, f, state, version, store, Done(server))
    PROVE  ClientOrder(c, Succeeded(p, answer), f, state, version, store, Done(server))
<1> DEFINE file == Uploaded(p.file, p.req)
<1>1. p.file \in FileState /\ p.req \in UploadRequest
    BY UploadingShape DEF Sending, Uploading
<1>2. Succeeded(p, answer) = Recording(file, p.puller, p.req.job)
    BY DEF Succeeded
<1>3. /\ file.agent = p.file.agent
      /\ \A s \in Source : file.gen[s] = IF s \in p.req.bundled THEN p.req.gen[s] ELSE p.file.gen[s]
      /\ \A s \in Source : file.sum[s] = IF s \in p.req.bundled THEN p.req.data[s] ELSE p.file.sum[s]
    BY <1>1 DEF Uploaded, FileState
<1>4. /\ p.file.agent = f[HostOf[c]] /\ Told(state, p.file) /\ Holds(p.file, store)
      /\ p.req.agent = p.file.agent
    BY DEF ClientOrder, Carrying, Uploading
<1> HIDE DEF file
<1>5. Told(state, file)
    BY <1>3, <1>4 DEF Told, Accepted
<1>6. Holds(file, store)
    BY <1>3, <1>4 DEF Holds, Brought
<1>7. /\ Recording(file, p.puller, p.req.job).file = file
      /\ Recording(file, p.puller, p.req.job).pc \notin Uploading
    BY DEF Recording, Uploading
<1> QED
    BY <1>2, <1>3, <1>4, <1>5, <1>6, <1>7 DEF ClientOrder

\* A failed request: an upload may be tried again as it is.
LEMMA FailedInOrder ==
    ASSUME NEW f, NEW c, NEW p \in ClientState, NEW st, NEW v, NEW w, NEW done,
           ClientOrder(c, p, f, st, v, w, done)
    PROVE  ClientOrder(c, Failed(p), f, st, v, w, done)
<1>1. CASE Failed(p).pc = "sending"
    BY <1>1, FailedShape DEF ClientOrder, Carrying, Uploading
<1>2. CASE Failed(p).pc \in {"idle", "reporting"}
    BY <1>2, CarriesNothing DEF Carrying
<1> QED
    BY <1>1, <1>2, FailedShape

\* An answer, or its loss, while the host keeps its agent.
LEMMA TalkOrderStep ==
    ASSUME OneUploadAtATime, TypeInv, TypeInv', ServerInv, PairInv, PairInv', [WholeUploads]_vars,
           NEW f \in AgentOfHost, NEW k \in Conn, Receive(k) \/ LoseMessage(k) \/ Abandon(k),
           Orderly(f),
           ~(Receive(k) /\ server[k].client \in Client /\ client[server[k].client].pc = "pairing"
             /\ server[k].answer.ok)
    PROVE  Orderly(f)'
<1> USE DEF hosts, files, history
<1> DEFINE c == server[k].client
<1>1. /\ UNCHANGED <<local, state, version, store>> /\ server[k] \in Handler /\ ~Free(k)
      /\ \A i \in Conn : LoadedBefore(server'[i], server[i])
    BY ServingLoadsNone DEF Receive, LoseMessage, Abandon, Free, NoRequest, TypeInv
<1>a. /\ \A i \in Conn : StoredAsBefore(server'[i], server[i])
      /\ Done(server') = Done(server)
    BY ServingStoresNone, DoneSame
<1>2. Grows(f)
    BY <1>1, <1>a, GrowsSame, StateKept, VersionSame
<1>3. \A i \in Conn : HandlerOrder(server'[i], f, state, version, store, Done(server))
    BY <1>1, <1>a, HandlerBefore DEF Orderly
<1>4. c \in Client \/ c = Nobody
    BY <1>1, HandlerShape DEF Asker, Free
<1>5. \/ client' = client
      \/ c \in Client /\ client' = [client EXCEPT ![c] = Failed(client[c])]
      \/ /\ Receive(k) /\ c \in Client /\ server[k].answer.ok
         /\ client' = [client EXCEPT ![c] = Succeeded(client[c], server[k].answer)]
    BY <1>4 DEF Receive, LoseMessage, Abandon, TypeInv
<1>6. \A d \in Client : d # c => client'[d] = client[d]
    BY <1>5 DEF TypeInv
<1>7. \A d \in Client : /\ client[d] \in ClientState
                        /\ ClientOrder(d, client[d], f, state, version, store, Done(server))
    BY DEF TypeInv, Orderly
<1>8. ASSUME NEW d \in Client PROVE ClientOrder(d, client'[d], f, state, version, store, Done(server))
    <2>1. CASE client'[d] = client[d]
        BY <1>7, <2>1
    <2>2. CASE client'[d] = Failed(client[d])
        BY <1>7, <2>2, FailedInOrder
    <2>3. CASE /\ d = c /\ Receive(k) /\ server[k].answer.ok
               /\ client'[d] = Succeeded(client[d], server[k].answer)
        <3>1. server[k] \in Answering /\ server[k].stage = "answering" /\ server[k] # NoRequest
            BY <1>1, <2>3, HandlerShape DEF Receive, Free
        <3>2. server[k].answer \in Answer
            BY <3>1 DEF Answering
        <3>3. CASE client[d].pc = "uploading"
            <4>1. Accepted(state, client[d].req)
                BY <2>3, <3>1, <3>3 DEF ServerInv, AnswerInv, Promise, Answered
            <4>2. Brought(client[d].req, client[d].req.bundled, store)
                BY <2>3, <3>1, <3>3 DEF Orderly, AnswerOrder, Answered
            <4> QED
                BY <1>7, <2>3, <3>2, <3>3, <4>1, <4>2, UploadedInOrder
        <3>4. CASE client[d].pc # "uploading"
            <4>1. client[d].pc # "pairing"
                BY <2>3
            <4>2. client'[d].pc \in {"leased", "idle"}
                BY <1>7, <2>3, <3>4, <4>1, AnsweredShape
            <4> QED
                BY <4>2, CarriesNothing DEF Carrying
        <3> QED
            BY <3>3, <3>4
    <2>4. \/ client'[d] = client[d] \/ client'[d] = Failed(client[d])
          \/ /\ d = c /\ Receive(k) /\ server[k].answer.ok
             /\ client'[d] = Succeeded(client[d], server[k].answer)
        <3>1. CASE d # c
            BY <1>6, <3>1
        <3>2. CASE d = c
            BY <1>5, <3>2 DEF TypeInv
        <3> QED
            BY <3>1, <3>2
    <2> QED
        BY <2>1, <2>2, <2>3, <2>4
<1>9. ASSUME NEW i \in Conn PROVE AnswerOrder(server'[i], client', store')
    <2>1. CASE i # k
        <3>1. server'[i] = server[i]
            BY <2>1 DEF Receive, LoseMessage, Abandon, TypeInv
        <3>2. \A d \in Client : Talking(i, d) => client'[d] = client[d]
            <4> SUFFICES ASSUME NEW d \in Client, Talking(i, d) PROVE d # c
                BY <1>6
            <4> QED
                BY <1>1, <2>1 DEF TypeInv, TalksInv, Talking, Free
        <3>3. AnswerOrder(server[i], client', store')
            BY <1>2, <3>2, AnswerOn DEF Orderly
        <3> QED
            BY <3>1, <3>3
    <2>2. CASE i = k /\ (Receive(k) \/ LoseMessage(k))
        <3>1. server'[i] = NoRequest
            BY <2>2 DEF Receive, LoseMessage, TypeInv
        <3> QED
            BY <3>1 DEF AnswerOrder
    <2>3. CASE i = k /\ Abandon(k)
        <3>1. server'[i].client = Nobody
            BY <1>1, <2>3 DEF Abandon, TypeInv, Handler, Arriving, Storing, Saving, Answering, Free
        <3> QED
            BY <3>1, RemoteAgentAssumption DEF AnswerOrder
    <2> QED
        BY <2>1, <2>2, <2>3
<1>10. \A h \in Host : FileOrder(h, local'[h], f, state, store)
    BY <1>1 DEF Orderly
<1> QED
    BY <1>2, <1>3, <1>8, <1>9, <1>10, OrderlyNext

\* A host that is paired: nothing else is of it yet, so the new agent is its one.
LEMMA PairedInOrder ==
    ASSUME OneUploadAtATime, TypeInv, TypeInv', ServerInv, PairInv, PairInv', [WholeUploads]_vars,
           NEW f \in AgentOfHost, NEW k \in Conn, Receive(k), Orderly(f),
           server[k].client \in Client, client[server[k].client].pc = "pairing", server[k].answer.ok
    PROVE  \E g \in AgentOfHost : Orderly(g)'
<1> USE DEF hosts, files, history
<1> DEFINE c == server[k].client
           b == server[k].answer.agent
           h == HostOf[c]
           file == [agent |-> b, gen |-> [s \in Source |-> 0], sum |-> [s \in Source |-> 0]]
           p == Recording(file, Nobody, 0)
<1>1. /\ UNCHANGED <<local, state, version, store>> /\ server[k].stage = "answering"
      /\ server[k] \in Answering /\ server[k] # NoRequest /\ Talking(k, c)
      /\ \A i \in Conn : LoadedBefore(server'[i], server[i])
    <2>1. server[k].stage = "answering" /\ server[k] \in Handler
        BY DEF Receive, TypeInv
    <2> QED
        BY <2>1, HandlerShape, ServingLoadsNone DEF Receive, NoRequest, Talking
<1>a. /\ \A i \in Conn : StoredAsBefore(server'[i], server[i])
      /\ Done(server') = Done(server)
    BY ServingStoresNone, DoneSame
<1>2. b \in Agent /\ state.agents[b].known
    BY <1>1 DEF TypeInv, TalksInv, PairTalk, ServerInv, AnswerInv, Promise, Answered
<1>3. h \in Host /\ local[h] = NoFile
    BY RemoteAgentAssumption DEF PairInv
<1>4. \A d \in Client : d # c /\ HostOf[d] = h => client[d] = Idle
    BY <1>3 DEF PairInv, OthersIdle, Idle
<1>5. \A d \in Client : client'[d] = IF d = c THEN p ELSE client[d]
    <2>1. Succeeded(client[c], server[k].answer) = p
        BY DEF Succeeded
    <2>2. client' = [client EXCEPT ![c] = Succeeded(client[c], server[k].answer)]
        BY RemoteAgentAssumption DEF Receive
    <2> HIDE DEF p
    <2> QED
        BY <2>1, <2>2 DEF TypeInv
<1>6. PICK g \in AgentOfHost : g[h] = b /\ \A x \in Host : x # h => g[x] = f[x]
    <2> DEFINE with == [f EXCEPT ![h] = b]
    <2>1. with \in AgentOfHost /\ with[h] = b /\ \A x \in Host : x # h => with[x] = f[x]
        BY <1>2, <1>3 DEF AgentOfHost
    <2> HIDE DEF with
    <2> QED
        BY <2>1
<1>7. Told(state, file) /\ file.agent = b /\ Holds(file, store)
    <2>1. \A s \in Source : state.agents[b].gen[s] \in Nat
        BY <1>2 DEF TypeInv, TypeOK, ControlState, AgentRecord, Generations
    <2>2. \A s \in Source : store[s] \in Nat
        BY DEF TypeInv, TypeOK
    <2> QED
        BY <1>2, <2>1, <2>2 DEF Told, Holds
<1>8. p.file = file /\ p.pc = "recording"
    BY DEF Recording
<1> HIDE DEF b, file, p
<1>9. ASSUME NEW d \in Client PROVE ClientOrder(d, client'[d], g, state, version, store, Done(server))
    <2>1. CASE d = c
        BY <1>5, <1>6, <1>7, <1>8, <2>1 DEF ClientOrder, Uploading
    <2>2. CASE d # c /\ HostOf[d] = h
        <3>1. client'[d] = Idle
            BY <1>4, <1>5, <2>2
        <3> QED
            BY <3>1, CarriesNothing DEF Idle, Carrying
    <2>3. CASE HostOf[d] # h
        <3>1. d # c /\ client'[d] = client[d] /\ g[HostOf[d]] = f[HostOf[d]]
            BY <1>5, <1>6, <2>3, RemoteAgentAssumption
        <3>2. ClientOrder(d, client[d], f, state, version, store, Done(server))
            BY DEF Orderly
        <3> QED
            BY <3>1, <3>2 DEF ClientOrder
    <2> QED
        BY <2>1, <2>2, <2>3
<1>10. ASSUME NEW x \in Host PROVE FileOrder(x, local[x], g, state, store)
    <2>1. FileOrder(x, local[x], f, state, store)
        BY DEF Orderly
    <2> QED
        BY <1>3, <1>6, <2>1 DEF FileOrder
<1>11. ASSUME NEW i \in Conn PROVE HandlerOrder(server'[i], g, state, version, store, Done(server))
    <2>1. HandlerOrder(server'[i], f, state, version, store, Done(server))
        BY <1>1, <1>a, HandlerBefore DEF Orderly
    <2>2. ASSUME Loaded(server'[i]), NEW s \in server'[i].req.bundled PROVE g[OwnerOf[s]] = f[OwnerOf[s]]
        <3>1. Loaded(server[i]) /\ server'[i].req = server[i].req
            BY <1>1, <2>2 DEF LoadedBefore
        <3>2. local[OwnerOf[s]] # NoFile /\ s \in Source
            BY <2>2, <3>1, LoadedShape DEF PairInv, TypeInv, UploadRequest
        <3> QED
            BY <1>3, <1>6, <3>2, RemoteAgentAssumption
    <2> QED
        BY <2>1, <2>2 DEF HandlerOrder
<1>12. ASSUME NEW i \in Conn PROVE AnswerOrder(server'[i], client', store)
    <2>1. CASE i = k
        <3>1. server'[i] = NoRequest
            BY <2>1 DEF Receive, TypeInv
        <3> QED
            BY <3>1 DEF AnswerOrder
    <2>2. CASE i # k
        <3>1. server'[i] = server[i]
            BY <2>2 DEF Receive, TypeInv
        <3>2. \A d \in Client : Talking(i, d) => client'[d] = client[d]
            BY <1>1, <1>5, <2>2 DEF TypeInv, TalksInv
        <3>3. AnswerOrder(server[i], client, store)
            BY DEF Orderly
        <3> QED
            BY <3>1, <3>2, <3>3 DEF AnswerOrder, Talking
    <2> QED
        BY <2>1, <2>2
<1>13. \A s \in Source : store[s] <= version[s]
    BY DEF Orderly
<1>14. /\ \A s \in Source : store'[s] <= version'[s]
       /\ \A x \in Host : FileOrder(x, local'[x], g, state', store')
       /\ \A d \in Client : ClientOrder(d, client'[d], g, state', version', store', Done(server'))
       /\ \A i \in Conn : /\ HandlerOrder(server'[i], g, state', version', store', Done(server'))
                           /\ AnswerOrder(server'[i], client', store')
    <2> USE <1>1, <1>a
    <2>1. \A s \in Source : store'[s] <= version'[s]
        BY <1>13
    <2>2. \A x \in Host : FileOrder(x, local'[x], g, state', store')
        BY <1>10
    <2>3. \A d \in Client : ClientOrder(d, client'[d], g, state', version', store', Done(server'))
        BY <1>9
    <2>4. \A i \in Conn : /\ HandlerOrder(server'[i], g, state', version', store', Done(server'))
                           /\ AnswerOrder(server'[i], client', store')
        BY <1>11, <1>12
    <2> QED
        BY <2>1, <2>2, <2>3, <2>4
<1>15. Orderly(g)'
    BY <1>14 DEF Orderly, FileOrder, ClientOrder, HandlerOrder, AnswerOrder, Told, Holds, Fits, Brought,
        Loaded, StoredOf, Done
<1> QED
    BY <1>15

LEMMA StoreInvStep ==
    ASSUME OneUploadAtATime, TypeInv, TypeInv', ServerInv, PairInv, PairInv', StoreInv,
           [WholeUploads]_vars, [Next]_vars, ~CrashServer
    PROVE  StoreInv' /\ \A s \in Source : store'[s] >= store[s]
<1> USE DEF hosts, files, history
<1>1. PICK f \in AgentOfHost : Orderly(f)
    BY DEF StoreInv
<1>2. \A s \in Source : store[s] >= store[s]
    BY DEF TypeInv, TypeOK
<1>3. Orderly(f)' => StoreInv'
    BY <1>1 DEF StoreInv
<1>4. CASE \/ \E c \in Client :
                 \/ \E k \in Conn : BeginPair(c, k) \/ BeginPull(c, k) \/ SendUpload(c, k) \/ Report(c, k)
                 \/ \E scope \in Scopes : BeginUpload(c, scope)
                 \/ \E presence \in [Source -> Presences] : Probe(c, presence)
                 \/ ReadLocalState(c) \/ WriteLocalState(c) \/ CommandFails(c)
                 \/ \E torn \in BOOLEAN : Kill(c, torn)
           \/ (\E s \in Source : EditSource(s)) \/ (\E l \in 1..MaxLeases : Expire(l)) \/ UNCHANGED vars
    <2>1. Orderly(f)'
        BY <1>1, <1>4, ClientOrderStep
    <2>2. store' = store
        BY <1>4 DEF BeginPair, BeginPull, SendUpload, Report, BeginUpload, Probe, ReadLocalState,
            WriteLocalState, CommandFails, Kill, EditSource, Expire, vars
    <2> QED
        BY <1>2, <1>3, <2>1, <2>2
<1>5. ASSUME NEW k \in Conn, NEW s \in Source, StorePayload(k, s)
      PROVE  StoreInv' /\ \A t \in Source : store'[t] >= store[t]
    BY <1>1, <1>3, <1>5, StoresInOrder
<1>6. ASSUME NEW k \in Conn,
             \/ Handles(k) /\ \A s \in Source : ~StorePayload(k, s)
             \/ OpenTemporary(k)
             \/ \E content \in {server[k].save, Torn} : RenameTemporary(k, content)
      PROVE  StoreInv' /\ \A s \in Source : store'[s] >= store[s]
    <2>1. Orderly(f)' /\ store' = store
        BY <1>1, <1>6, ServerOrderStep
    <2> QED
        BY <1>2, <1>3, <2>1
<1>7. ASSUME NEW k \in Conn, Receive(k) \/ LoseMessage(k) \/ Abandon(k)
      PROVE  StoreInv' /\ \A s \in Source : store'[s] >= store[s]
    <2>1. store' = store
        BY <1>7 DEF Receive, LoseMessage, Abandon
    <2>2. StoreInv'
        <3>1. CASE Receive(k) /\ server[k].client \in Client /\ client[server[k].client].pc = "pairing"
                   /\ server[k].answer.ok
            <4>1. \E g \in AgentOfHost : Orderly(g)'
                BY <1>1, <3>1, PairedInOrder
            <4> QED
                BY <4>1 DEF StoreInv
        <3>2. CASE ~(Receive(k) /\ server[k].client \in Client
                     /\ client[server[k].client].pc = "pairing" /\ server[k].answer.ok)
            BY <1>1, <1>3, <1>7, <3>2, TalkOrderStep
        <3> QED
            BY <3>1, <3>2
    <2> QED
        BY <1>2, <2>1, <2>2
<1> QED
    BY StepGroups, <1>4, <1>5, <1>6, <1>7

LEMMA StoreInit == Init => StoreInv
<1> SUFFICES ASSUME Init PROVE StoreInv
    OBVIOUS
<1> DEFINE f == [h \in Host |-> Nobody]
<1>1. f \in AgentOfHost
    BY DEF AgentOfHost
<1>2. \A s \in Source : store[s] <= version[s]
    BY DEF Init
<1>3. \A h \in Host : FileOrder(h, local[h], f, state, store)
    BY DEF Init, FileOrder
<1>4. \A c \in Client : ClientOrder(c, client[c], f, state, version, store, Done(server))
    BY CarriesNothing DEF Init, Idle, Carrying
<1>5. \A k \in Conn : /\ HandlerOrder(server[k], f, state, version, store, Done(server))
                      /\ AnswerOrder(server[k], client, store)
    BY DEF Init, NoRequest, HandlerOrder, Loaded, AnswerOrder
<1> HIDE DEF f
<1>6. Orderly(f)
    BY <1>2, <1>3, <1>4, <1>5 DEF Orderly
<1> QED
    BY <1>1, <1>6 DEF StoreInv

OrderInv == PairInv /\ StoreInv

LEMMA OrderInvariant ==
    ASSUME OneUploadAtATime, MaxCrashes = 0
    PROVE  Spec /\ [][PairsOnce /\ WholeUploads]_vars => []OrderInv
<1>1. Init => OrderInv
    BY PairInit, StoreInit DEF OrderInv
<1>2. TypeInv /\ TypeInv' /\ ServerInv /\ CrashesCounted /\ OrderInv /\ [Next]_vars
          /\ [PairsOnce /\ WholeUploads]_vars => OrderInv'
    <2> SUFFICES ASSUME TypeInv, TypeInv', ServerInv, CrashesCounted, OrderInv,
                        [Next]_vars, [PairsOnce /\ WholeUploads]_vars
                 PROVE  OrderInv'
        OBVIOUS
    <2>1. ~CrashServer
        BY DEF CrashServer, CrashesCounted
    <2>2. PairInv /\ StoreInv
        BY DEF OrderInv
    <2>3. PairInv'
        BY <2>1, <2>2, PairInvStep
    <2>4. StoreInv'
        BY <2>1, <2>2, <2>3, StoreInvStep
    <2> QED
        BY <2>3, <2>4 DEF OrderInv
<1> QED
    BY <1>1, <1>2, TypeInvariant, ServerInvariant, CrashesCount, PTL DEF Spec

\* An upload that was collected earlier never overwrites what a later one brought,
\* whatever is retried, lost, abandoned or answered late, for any number of hosts,
\* clients and requests: each source that is stored advances the generation that
\* its next upload must exceed (applyRemoteAgentUpload).  It holds while the server
\* runs, if a host is paired once and no upload is refused in the middle.
THEOREM StoreOnlyGrows ==
    ASSUME OneUploadAtATime, MaxCrashes = 0
    PROVE  Spec /\ [][PairsOnce /\ WholeUploads]_vars => StoreNeverRegresses
<1> DEFINE Grown == \A s \in Source : store'[s] >= store[s]
<1>1. TypeInv /\ TypeInv' /\ ServerInv /\ CrashesCounted /\ OrderInv /\ OrderInv'
          /\ [Next]_vars /\ [PairsOnce /\ WholeUploads]_vars => Grown
    <2> SUFFICES ASSUME TypeInv, TypeInv', ServerInv, CrashesCounted, OrderInv, OrderInv',
                        [Next]_vars, [PairsOnce /\ WholeUploads]_vars
                 PROVE  Grown
        OBVIOUS
    <2>1. ~CrashServer
        BY DEF CrashServer, CrashesCounted
    <2>2. PairInv /\ StoreInv /\ PairInv'
        BY DEF OrderInv
    <2> QED
        BY <2>1, <2>2, StoreInvStep
<1> HIDE DEF Grown
<1>2. Spec /\ [][PairsOnce /\ WholeUploads]_vars => [][Grown]_vars
    BY <1>1, TypeInvariant, ServerInvariant, CrashesCount, OrderInvariant, PTL DEF Spec
<1> QED
    BY <1>2 DEF Grown, StoreNeverRegresses

\* What an agent's file says of a source as uploaded is stored, in that version or
\* a later one (applyRemoteUploadSuccess is called for an accepted upload only).
THEOREM RecordedAreStored ==
    ASSUME OneUploadAtATime, MaxCrashes = 0
    PROVE  Spec /\ [][PairsOnce /\ WholeUploads]_vars => []RecordedIsStored
<1>1. TypeInv /\ OrderInv => RecordedIsStored
    <2> SUFFICES ASSUME TypeInv, OrderInv, NEW s \in Source, local[OwnerOf[s]] \notin {NoFile, Torn},
                        local[OwnerOf[s]].sum[s] # Unreadable
                 PROVE  store[s] >= local[OwnerOf[s]].sum[s]
        BY DEF RecordedIsStored
    <2> DEFINE file == local[OwnerOf[s]]
    <2>1. OwnerOf[s] \in Host /\ file \in FileState
        BY RemoteAgentAssumption DEF TypeInv, TypeOK
    <2>2. Holds(file, store)
        BY <2>1 DEF OrderInv, StoreInv, Orderly, FileOrder
    <2>3. file.sum[s] \in Nat /\ store[s] \in Nat
        BY <2>1 DEF FileState, TypeInv, TypeOK
    <2> HIDE DEF file
    <2>4. file.sum[s] <= store[s]
        BY <2>2 DEF Holds, file
    <2> QED
        BY <2>3, <2>4 DEF file
<1> QED
    BY <1>1, TypeInvariant, OrderInvariant, PTL

----------------------------------------------------------------------------
(* What a step makes of a client, of a request and of a job.               *)

\* From where client c goes where in one step: what it works on stays with it.
Moves(c) ==
    LET p == client[c]
        q == client'[c]
        told(k) == Talking(k, c) /\ server[k].stage = "answering" /\ server[k].answer.ok
        again == q.puller = p.puller /\ q.file = p.file
    IN
    \/ q = p
    \/ q = Idle
    \/ p = Idle /\ q.pc = "pairing"
    \/ /\ p = Idle /\ Readable(HostOf[c]) /\ "pull" \in Runs[c]
       /\ q.pc = "leasing" /\ q.agent = local[HostOf[c]].agent
    \/ \E k \in Conn : /\ told(k) /\ p.pc = "leasing" /\ server[k].answer.job # 0
                       /\ q.pc = "leased" /\ q.agent = p.agent /\ q.job = server[k].answer.job
    \/ /\ p = Idle /\ Readable(HostOf[c])
       /\ q.pc = "probing" /\ q.file = local[HostOf[c]] /\ q.job = 0
    \/ /\ p.pc = "leased" /\ Readable(HostOf[c])
       /\ q.pc = "probing" /\ q.file = local[HostOf[c]] /\ q.job = p.job /\ q.puller = p.agent
    \/ /\ \E presence \in [Source -> Presences] : Probe(c, presence)
       /\ p.pc = "probing" /\ q.pc = "sending" /\ again
       /\ q.req.agent = p.file.agent /\ q.req.job = p.job
    \/ p.pc = "sending" /\ q.pc = "uploading" /\ again /\ q.req = p.req
    \/ p.pc = "uploading" /\ q.pc = "sending" /\ again /\ q.req = p.req
    \/ /\ \E k \in Conn : told(k)
       /\ p.pc = "uploading" /\ q.pc = "recording"
       /\ q.file.agent = p.file.agent /\ q.puller = p.puller /\ q.job = p.req.job
    \/ \E k \in Conn : /\ told(k) /\ p.pc = "pairing"
                       /\ q.pc = "recording" /\ q.file.agent = server[k].answer.agent /\ q.job = 0
    \/ p.pc = "leased" /\ q = Reporting(p.agent, p.job, "failed")
    \/ p.pc \in {"probing", "recording"} /\ p.job # 0 /\ q = Reporting(p.puller, p.job, "failed")
    \/ p.pc = "uploading" /\ p.req.job # 0 /\ q = Reporting(p.puller, p.req.job, "failed")
    \/ p.pc = "recording" /\ p.job # 0 /\ q = Reporting(p.puller, p.job, "succeeded")
    \/ p.pc = "completing" /\ q = Reporting(p.agent, p.job, "failed")
    \/ /\ p.pc = "reporting" /\ q.pc = "completing"
       /\ q.agent = p.agent /\ q.job = p.job /\ q.status = p.status

LEMMA ShapeOf ==
    ASSUME NEW p \in ClientState
    PROVE  /\ p.pc = "idle" => p = Idle
           /\ p.pc = "leased" => p \in [pc : {"leased"}, agent : Agent, job : Job, scope : SUBSET Source]
           /\ p.pc = "leasing" => p \in [pc : {"leasing"}, agent : Agent]
           /\ p.pc = "probing" => p \in Probing
           /\ p.pc = "recording" => p \in RecordingState
           /\ p.pc \in {"reporting", "completing"} => p \in ReportingState
           /\ p.pc \in Uploading => p \in Sending
BY DEF ClientState, Probing, Sending, RecordingState, ReportingState, Idle, Uploading

\* An answer, or none.
LEMMA FailedMoves ==
    ASSUME TypeInv, NEW c \in Client, client[c].pc \in WaitingPc, client'[c] = Failed(client[c])
    PROVE  Moves(c)
<1> DEFINE p == client[c]
<1>0. p \in ClientState
    BY DEF TypeInv
<1>1. CASE p.pc = "uploading"
    <2>1. p \in Sending
        BY <1>0, <1>1, ShapeOf DEF Uploading
    <2>2. CASE p.tries > 0
        <3> DEFINE fewer == p.tries - 1
                   q == [p EXCEPT !.pc = "sending", !.tries = fewer]
        <3>1. client'[c] = q
            BY <1>1, <2>2 DEF Failed
        <3>2. q.pc = "sending" /\ q.req = p.req /\ q.file = p.file /\ q.puller = p.puller
            BY <2>1 DEF Sending
        <3> HIDE DEF q
        <3> QED
            BY <1>1, <3>1, <3>2 DEF Moves
    <2>3. CASE p.tries = 0
        BY <1>1, <2>3 DEF Failed, Moves
    <2>4. p.tries \in Nat
        BY <2>1 DEF Sending
    <2> QED
        BY <2>2, <2>3, <2>4
<1>2. CASE p.pc # "uploading"
    BY <1>2 DEF Failed, Moves
<1> QED
    BY <1>1, <1>2

LEMMA SucceededMoves ==
    ASSUME TypeInv, NEW c \in Client, NEW k \in Conn, Talking(k, c), server[k].stage = "answering",
           server[k].answer.ok, client'[c] = Succeeded(client[c], server[k].answer)
    PROVE  Moves(c)
<1> DEFINE p == client[c]
<1>0. p \in ClientState
    BY DEF TypeInv
<1>1. CASE p.pc = "uploading"
    <2>1. p \in Sending
        BY <1>0, <1>1, ShapeOf DEF Uploading
    <2> DEFINE q == Recording(Uploaded(p.file, p.req), p.puller, p.req.job)
    <2>2. client'[c] = q
        BY <1>1 DEF Succeeded
    <2>3. /\ q.pc = "recording" /\ q.file.agent = p.file.agent /\ q.puller = p.puller
          /\ q.job = p.req.job
        BY <2>1 DEF Recording, Uploaded, Sending, FileState
    <2> HIDE DEF q
    <2> QED
        BY <1>1, <2>2, <2>3 DEF Moves
<1>2. CASE p.pc = "pairing"
    <2> DEFINE q == Recording([agent |-> server[k].answer.agent, gen |-> [s \in Source |-> 0],
                               sum |-> [s \in Source |-> 0]], Nobody, 0)
    <2>1. client'[c] = q
        BY <1>2 DEF Succeeded
    <2>2. q.pc = "recording" /\ q.file.agent = server[k].answer.agent /\ q.job = 0
        BY DEF Recording
    <2> HIDE DEF q
    <2> QED
        BY <1>2, <2>1, <2>2 DEF Moves
<1>3. CASE p.pc = "leasing" /\ server[k].answer.job # 0
    <2> DEFINE q == [pc |-> "leased", agent |-> p.agent, job |-> server[k].answer.job,
                     scope |-> server[k].answer.scope]
    <2>1. client'[c] = q
        BY <1>3 DEF Succeeded
    <2>2. q.pc = "leased" /\ q.agent = p.agent /\ q.job = server[k].answer.job
        OBVIOUS
    <2> HIDE DEF q
    <2> QED
        BY <1>3, <2>1, <2>2 DEF Moves
<1>4. CASE p.pc \notin {"uploading", "pairing"} /\ ~(p.pc = "leasing" /\ server[k].answer.job # 0)
    BY <1>4 DEF Succeeded, Moves
<1> QED
    BY <1>1, <1>2, <1>3, <1>4

\* Who is answered: nobody, or one client.
LEMMA TalkMoves ==
    ASSUME TypeInv, NEW k \in Conn, Receive(k) \/ LoseMessage(k) \/ Abandon(k)
    PROVE  \A c \in Client : Moves(c) /\ (client'[c] = client[c] \/ Talking(k, c))
<1> DEFINE d == server[k].client
<1>1. server[k] \in Handler /\ ~Free(k)
    BY DEF Receive, LoseMessage, Abandon, Free, NoRequest, TypeInv
<1>2. d \in Client \/ d = Nobody
    BY <1>1, HandlerShape DEF Asker, Free
<1>3. \/ client' = client
      \/ d \in Client /\ client' = [client EXCEPT ![d] = Failed(client[d])]
      \/ /\ Receive(k) /\ d \in Client /\ server[k].answer.ok
         /\ client' = [client EXCEPT ![d] = Succeeded(client[d], server[k].answer)]
    BY <1>2 DEF Receive, LoseMessage, Abandon, TypeInv
<1> SUFFICES ASSUME NEW c \in Client PROVE Moves(c) /\ (client'[c] = client[c] \/ Talking(k, c))
    OBVIOUS
<1>4. CASE client'[c] = client[c]
    BY <1>4 DEF Moves
<1>5. CASE c = d /\ client'[c] = Failed(client[c])
    <2>1. Talking(k, c) /\ client[c].pc \in WaitingPc
        BY <1>1, <1>5 DEF Talking, Free, TypeInv, TalksInv
    <2> QED
        BY <1>5, <2>1, FailedMoves
<1>6. CASE Receive(k) /\ c = d /\ server[k].answer.ok /\ client'[c] = Succeeded(client[c], server[k].answer)
    <2>1. Talking(k, c) /\ server[k].stage = "answering"
        BY <1>1, <1>6 DEF Talking, Free, Receive
    <2> QED
        BY <1>6, <2>1, SucceededMoves
<1> QED
    BY <1>3, <1>4, <1>5, <1>6 DEF TypeInv

LEMMA ClientMoves ==
    ASSUME TypeInv, NEW c \in Client,
           \/ \E k \in Conn : BeginPair(c, k) \/ BeginPull(c, k) \/ SendUpload(c, k) \/ Report(c, k)
           \/ \E scope \in Scopes : BeginUpload(c, scope)
           \/ \E presence \in [Source -> Presences] : Probe(c, presence)
           \/ ReadLocalState(c) \/ WriteLocalState(c) \/ CommandFails(c)
           \/ \E torn \in BOOLEAN : Kill(c, torn)
    PROVE  Moves(c) /\ \A d \in Client \ {c} : client'[d] = client[d]
<1> DEFINE p == client[c]
<1>0. p \in ClientState /\ client \in [Client -> ClientState]
    BY DEF TypeInv
<1>a. ASSUME NEW q, client' = [client EXCEPT ![c] = q]
      PROVE  client'[c] = q /\ \A d \in Client \ {c} : client'[d] = client[d]
    BY <1>0, <1>a
<1>1. CASE \E k \in Conn : BeginPair(c, k)
    <2> DEFINE q == [pc |-> "pairing"]
    <2>1. p = Idle /\ client' = [client EXCEPT ![c] = q] /\ q.pc = "pairing"
        BY <1>1 DEF BeginPair
    <2> HIDE DEF q
    <2> QED
        BY <1>a, <2>1 DEF Moves
<1>2. CASE \E k \in Conn : BeginPull(c, k)
    <2> DEFINE q == [pc |-> "leasing", agent |-> local[HostOf[c]].agent]
    <2>1. /\ p = Idle /\ client' = [client EXCEPT ![c] = q] /\ Readable(HostOf[c])
          /\ "pull" \in Runs[c] /\ q.pc = "leasing" /\ q.agent = local[HostOf[c]].agent
        BY <1>2 DEF BeginPull
    <2> HIDE DEF q
    <2> QED
        BY <1>a, <2>1 DEF Moves
<1>3. CASE \E k \in Conn : SendUpload(c, k)
    <2> DEFINE q == [p EXCEPT !.pc = "uploading"]
    <2>1. p \in Sending /\ p.pc = "sending" /\ client' = [client EXCEPT ![c] = q]
        BY <1>0, <1>3, ShapeOf DEF SendUpload, Uploading
    <2>2. q.pc = "uploading" /\ q.file = p.file /\ q.puller = p.puller /\ q.req = p.req
        BY <2>1 DEF Sending
    <2> HIDE DEF q
    <2> QED
        BY <1>a, <2>1, <2>2 DEF Moves
<1>4. CASE \E k \in Conn : Report(c, k)
    <2> DEFINE q == [p EXCEPT !.pc = "completing"]
    <2>1. p \in ReportingState /\ p.pc = "reporting" /\ client' = [client EXCEPT ![c] = q]
        BY <1>0, <1>4, ShapeOf DEF Report
    <2>2. q.pc = "completing" /\ q.agent = p.agent /\ q.job = p.job /\ q.status = p.status
        BY <2>1 DEF ReportingState
    <2> HIDE DEF q
    <2> QED
        BY <1>a, <2>1, <2>2 DEF Moves
<1>5. CASE \E scope \in Scopes : BeginUpload(c, scope)
    <2>1. PICK scope \in Scopes : BeginUpload(c, scope)
        BY <1>5
    <2> DEFINE q == Cycle(c, Nobody, 0, scope)
    <2>2. /\ p = Idle /\ client' = [client EXCEPT ![c] = q] /\ Readable(HostOf[c])
          /\ q.pc = "probing" /\ q.file = local[HostOf[c]] /\ q.job = 0
        BY <2>1 DEF BeginUpload, Cycle
    <2> HIDE DEF q
    <2> QED
        BY <1>a, <2>2 DEF Moves
<1>6. CASE \E presence \in [Source -> Presences] : Probe(c, presence)
    <2>1. PICK presence \in [Source -> Presences] : Probe(c, presence)
        BY <1>6
    <2> DEFINE listed == {s \in client[c].scope : OwnerOf[s] = HostOf[c]}
               bundled == {s \in listed : presence[s] # "absent"}
               data == [s \in Source |-> IF presence[s] = "unreadable" THEN Unreadable
                                         ELSE version[s]]
               gen == [s \in Source |-> client[c].file.gen[s] + (IF s \in bundled THEN 1 ELSE 0)]
               req == [kind |-> "upload", agent |-> client[c].file.agent, job |-> client[c].job,
                       listed |-> listed, bundled |-> bundled, gen |-> gen, data |-> data]
               q == [pc |-> "sending", file |-> client[c].file, puller |-> client[c].puller,
                     tries |-> Retries, req |-> req]
    <2>2. client' = [client EXCEPT ![c] = q] /\ p.pc = "probing"
        BY <2>1 DEF Probe
    <2> HIDE DEF listed, bundled, data, gen
    <2>3. /\ q.pc = "sending" /\ q.file = p.file /\ q.puller = p.puller
          /\ q.req.agent = p.file.agent /\ q.req.job = p.job
        OBVIOUS
    <2> HIDE DEF q, req
    <2> QED
        BY <1>a, <2>1, <2>2, <2>3 DEF Moves
<1>7. CASE ReadLocalState(c)
    <2>1. CASE Readable(HostOf[c])
        <3> DEFINE q == Cycle(c, p.agent, p.job, p.scope)
        <3>1. /\ p.pc = "leased" /\ client' = [client EXCEPT ![c] = q] /\ q.pc = "probing"
              /\ q.file = local[HostOf[c]] /\ q.job = p.job /\ q.puller = p.agent
            BY <1>7, <2>1 DEF ReadLocalState, Cycle
        <3> HIDE DEF q
        <3> QED
            BY <1>a, <2>1, <3>1 DEF Moves
    <2>2. CASE ~Readable(HostOf[c])
        <3>1. /\ p.pc = "leased"
              /\ client' = [client EXCEPT ![c] = Reporting(p.agent, p.job, "failed")]
            BY <1>7, <2>2 DEF ReadLocalState
        <3> QED
            BY <1>a, <3>1 DEF Moves
    <2> QED
        BY <2>1, <2>2
<1>8. CASE WriteLocalState(c)
    <2> DEFINE q == IF p.job = 0 THEN Idle ELSE Reporting(p.puller, p.job, "succeeded")
    <2>1. p.pc = "recording" /\ client' = [client EXCEPT ![c] = q]
        BY <1>8 DEF WriteLocalState
    <2> QED
        BY <1>a, <2>1 DEF Moves
<1>9. CASE CommandFails(c)
    <2> DEFINE q == IF p.job = 0 THEN Idle ELSE Reporting(p.puller, p.job, "failed")
    <2>1. p.pc \in {"probing", "recording"} /\ client' = [client EXCEPT ![c] = q]
        BY <1>9 DEF CommandFails
    <2> QED
        BY <1>a, <2>1 DEF Moves
<1>10. CASE \E torn \in BOOLEAN : Kill(c, torn)
    BY <1>a, <1>10 DEF Kill, Moves
<1> QED
    BY <1>1, <1>2, <1>3, <1>4, <1>5, <1>6, <1>7, <1>8, <1>9, <1>10

LEMMA EveryMove ==
    ASSUME TypeInv, OneUploadAtATime, ServerInv, [Next]_vars, ~CrashServer
    PROVE  \A c \in Client : Moves(c)
<1> USE DEF hosts, files, history
<1>1. ASSUME client' = client PROVE \A c \in Client : Moves(c)
    BY <1>1 DEF Moves
<1>2. ASSUME NEW k \in Conn, Handles(k) PROVE client' = client
    BY <1>2, HandlerOutcome
<1>3. ASSUME NEW c \in Client,
           \/ \E k \in Conn : BeginPair(c, k) \/ BeginPull(c, k) \/ SendUpload(c, k) \/ Report(c, k)
           \/ \E scope \in Scopes : BeginUpload(c, scope)
           \/ \E presence \in [Source -> Presences] : Probe(c, presence)
           \/ ReadLocalState(c) \/ WriteLocalState(c) \/ CommandFails(c)
           \/ \E torn \in BOOLEAN : Kill(c, torn)
      PROVE  \A d \in Client : Moves(d)
    <2>1. Moves(c) /\ \A d \in Client \ {c} : client'[d] = client[d]
        BY <1>3, ClientMoves
    <2> QED
        BY <2>1 DEF Moves
<1>4. CASE \/ \E s \in Source : EditSource(s)
           \/ \E l \in 1..MaxLeases : Expire(l)
           \/ UNCHANGED vars
           \/ \E k \in Conn : OpenTemporary(k) \/ \E content \in {server[k].save, Torn} : RenameTemporary(k, content)
    <2>1. client' = client
        BY <1>4 DEF EditSource, Expire, OpenTemporary, RenameTemporary, vars
    <2> QED
        BY <1>1, <2>1
<1>5. CASE \E k \in Conn : Receive(k) \/ LoseMessage(k) \/ Abandon(k)
    BY <1>5, TalkMoves
<1> QED
    BY StepGroups, <1>1, <1>2, <1>3, <1>4, <1>5

----------------------------------------------------------------------------
(* One agent per host.                                                     *)

\* Process p works as agent a: with its file, for its lease or in its report.
WorksAs(p, a) ==
    \/ p.pc \in {"leasing", "leased", "reporting", "completing"} /\ p.agent = a
    \/ p.pc \in Carrying /\ p.file.agent = a
    \/ p.pc \in {"probing", "recording"} /\ p.job # 0 /\ p.puller = a
    \/ p.pc \in Uploading /\ p.req.agent = a
    \/ p.pc \in Uploading /\ p.req.job # 0 /\ p.puller = a

IsAgentOf(h, a, files_, procs) ==
    \/ files_[h] \notin {NoFile, Torn} /\ files_[h].agent = a
    \/ \E c \in Client : HostOf[c] = h /\ WorksAs(procs[c], a)

\* All that runs on a host, and its file, is of one agent.
AgentInv ==
    \A h \in Host, a, b \in Agent :
        IsAgentOf(h, a, local, client) /\ IsAgentOf(h, b, local, client) => a = b

\* Client c is told the agent it is paired as.
PairedAs(c, a) ==
    /\ client[c].pc = "pairing"
    /\ \E k \in Conn : /\ Talking(k, c) /\ server[k].stage = "answering" /\ server[k].answer.ok
                       /\ server[k].answer.agent = a

LEMMA FileMoves ==
    ASSUME TypeInv, OneUploadAtATime, ServerInv, [Next]_vars, ~CrashServer
    PROVE  \A h \in Host :
               \/ local'[h] = local[h]
               \/ local'[h] = Torn
               \/ \E c \in Client : /\ HostOf[c] = h /\ client[c].pc = "recording"
                                    /\ local'[h] = client[c].file
<1> USE DEF hosts, files, history
<1>1. CASE local' = local
    BY <1>1
<1>2. ASSUME NEW c \in Client, WriteLocalState(c)
      PROVE  \A h \in Host : \/ local'[h] = local[h]
                             \/ /\ HostOf[c] = h /\ client[c].pc = "recording"
                                /\ local'[h] = client[c].file
    BY <1>2 DEF WriteLocalState, TypeInv, TypeOK
<1>3. ASSUME NEW c \in Client, NEW torn \in BOOLEAN, Kill(c, torn)
      PROVE  \A h \in Host : local'[h] \in {local[h], Torn}
    BY <1>3 DEF Kill, TypeInv, TypeOK
<1>4. \/ local' = local
      \/ \E c \in Client : WriteLocalState(c) \/ \E torn \in BOOLEAN : Kill(c, torn)
    <2>1. ASSUME NEW k \in Conn, Handles(k) PROVE local' = local
        BY <2>1, HandlerOutcome
    <2> QED
        BY <2>1, StepGroups
           DEF BeginPair, BeginPull, SendUpload, Report, BeginUpload, Probe, ReadLocalState,
               CommandFails, EditSource, Expire, vars, OpenTemporary, RenameTemporary, Receive,
               LoseMessage, Abandon
<1> QED
    BY <1>1, <1>2, <1>3, <1>4

\* A process works as the agent it worked as, or of its host, or that it is paired as.
LEMMA WorksBefore ==
    ASSUME TypeInv, NEW c \in Client, Moves(c), NEW a \in Agent, WorksAs(client'[c], a)
    PROVE  \/ WorksAs(client[c], a)
           \/ Readable(HostOf[c]) /\ local[HostOf[c]].agent = a
           \/ PairedAs(c, a) /\ client'[c].pc = "recording"
<1> DEFINE p == client[c]
           q == client'[c]
<1>1. CASE q.pc \in {"reporting", "completing"}
    BY <1>1 DEF Moves, WorksAs, Reporting, Idle, Carrying, Uploading
<1>2. CASE q.pc \in {"leasing", "leased"}
    BY <1>2 DEF Moves, WorksAs, Reporting, Idle, Carrying, Uploading
<1>3. CASE q.pc = "probing"
    BY <1>3 DEF Moves, WorksAs, Reporting, Idle, Carrying, Uploading
<1>4. CASE q.pc \in Uploading
    BY <1>4 DEF Moves, WorksAs, Reporting, Idle, Carrying, Uploading
<1>5. CASE q.pc = "recording"
    BY <1>5 DEF Moves, WorksAs, Reporting, Idle, Carrying, Uploading, PairedAs
<1> QED
    BY <1>1, <1>2, <1>3, <1>4, <1>5 DEF WorksAs, Carrying, Uploading

\* While a host is not paired, nothing of it is of an agent.
LEMMA UnpairedHasNone ==
    ASSUME TypeInv, PairInv, NEW c \in Client, client[c].pc = "pairing", NEW a \in Agent
    PROVE  ~IsAgentOf(HostOf[c], a, local, client)
<1>1. local[HostOf[c]] = NoFile /\ client[c] # Idle
    BY DEF PairInv, Idle
<1>2. \A d \in Client \ {c} : HostOf[d] = HostOf[c] => client[d] = Idle
    BY <1>1 DEF PairInv, OthersIdle
<1> QED
    BY <1>1, <1>2 DEF IsAgentOf, WorksAs, Idle, Carrying, Uploading

\* What is of an agent was before, unless its host is being paired.
LEMMA AgentsBefore ==
    ASSUME TypeInv, OneUploadAtATime, ServerInv, PairInv, [Next]_vars, ~CrashServer,
           NEW h \in Host, NEW a \in Agent, IsAgentOf(h, a, local', client')
    PROVE  \/ IsAgentOf(h, a, local, client)
           \/ \E c \in Client : /\ HostOf[c] = h /\ PairedAs(c, a) /\ client'[c] # client[c]
                                /\ client'[c].pc = "recording"
<1>1. CASE local'[h] \notin {NoFile, Torn} /\ local'[h].agent = a
    <2>1. \/ local'[h] = local[h]
          \/ \E c \in Client : /\ HostOf[c] = h /\ client[c].pc = "recording"
                               /\ local'[h] = client[c].file
        BY <1>1, FileMoves
    <2> QED
        BY <1>1, <2>1 DEF IsAgentOf, WorksAs, Carrying
<1>2. CASE \E c \in Client : HostOf[c] = h /\ WorksAs(client'[c], a)
    <2>1. PICK c \in Client : HostOf[c] = h /\ WorksAs(client'[c], a)
        BY <1>2
    <2>2. Moves(c)
        BY EveryMove
    <2>3. \/ WorksAs(client[c], a)
          \/ Readable(HostOf[c]) /\ local[HostOf[c]].agent = a
          \/ PairedAs(c, a) /\ client'[c].pc = "recording"
        BY <2>1, <2>2, WorksBefore
    <2> QED
        BY <2>1, <2>3 DEF IsAgentOf, Readable, PairedAs
<1> QED
    BY <1>1, <1>2 DEF IsAgentOf

LEMMA AgentStep ==
    ASSUME TypeInv, OneUploadAtATime, ServerInv, PairInv, AgentInv, [Next]_vars, ~CrashServer
    PROVE  AgentInv'
<1> SUFFICES ASSUME NEW h \in Host, NEW a \in Agent, NEW b \in Agent,
                    IsAgentOf(h, a, local', client'), IsAgentOf(h, b, local', client')
             PROVE  a = b
    BY DEF AgentInv, IsAgentOf
<1>1. CASE IsAgentOf(h, a, local, client) /\ IsAgentOf(h, b, local, client)
    BY <1>1 DEF AgentInv
<1>2. ASSUME NEW c \in Client, HostOf[c] = h, client[c].pc = "pairing"
      PROVE  a = b
    <2>1. ~IsAgentOf(h, a, local, client) /\ ~IsAgentOf(h, b, local, client)
        BY <1>2, UnpairedHasNone
    <2>2. PICK d \in Client : HostOf[d] = h /\ PairedAs(d, a)
        BY <2>1, AgentsBefore
    <2>3. PICK e \in Client : HostOf[e] = h /\ PairedAs(e, b)
        BY <2>1, AgentsBefore
    <2>4. client[d] # Idle /\ client[e] # Idle /\ local[h] = NoFile
        BY <2>2, <2>3 DEF PairedAs, Idle, PairInv
    <2>5. d = e
        BY <2>2, <2>3, <2>4 DEF PairInv, OthersIdle
    <2> QED
        BY <2>2, <2>3, <2>5 DEF PairedAs, TypeInv, TalksInv
<1>3. \/ IsAgentOf(h, a, local, client) /\ IsAgentOf(h, b, local, client)
      \/ \E c \in Client : HostOf[c] = h /\ client[c].pc = "pairing"
    BY AgentsBefore DEF PairedAs
<1> QED
    BY <1>1, <1>2, <1>3

LEMMA AgentInit == Init => AgentInv
BY DEF Init, AgentInv, IsAgentOf, WorksAs, Idle, Carrying, Uploading

----------------------------------------------------------------------------
(* What a handler makes of the jobs.                                       *)

\* A handler leases a job, or ends it as it is reported; it changes nothing else.
JobMoves(k) ==
    \A j \in Job, a \in Agent :
        LET old == state.jobs[j].status[a]
            new == state'.jobs[j].status[a]
        IN  \/ new = old
            \/ new = "leased" /\ old \notin EndStatus
            \/ /\ Asks(k, "complete") /\ server[k].req.job = j /\ server[k].req.agent = a
               /\ new = server[k].req.status

LEMMA SameJobsMove ==
    ASSUME NEW k, state'.jobs = state.jobs
    PROVE  JobMoves(k)
BY DEF JobMoves

LEMMA HandlerJobs ==
    ASSUME TypeInv, OneUploadAtATime, ServerInv, NEW k \in Conn, Handles(k)
    PROVE  JobMoves(k)
<1> USE DEF hosts, files, history
<1>a. state \in ControlState /\ created \in Nat /\ LaterJobs(state, created) /\ UploadInv
    BY HeldIsCopy, RemoteAgentAssumption DEF TypeInv, TypeOK, ServerInv, LaterInv
<1>b. ASSUME Refuse(k) PROVE JobMoves(k)
    BY <1>b, SameJobsMove DEF Refuse
<1>1. ASSUME NEW a \in Agent, Pair(k, a) PROVE JobMoves(k)
    <2>1. state' = [state EXCEPT !.agents[a].known = TRUE]
        BY <1>1 DEF Pair, SetState
    <2>2. state'.jobs = state.jobs
        BY <1>a, <2>1 DEF ControlState
    <2> QED
        BY <2>2, SameJobsMove
<1>2. ASSUME NEW a \in Agent, NEW labels \in SUBSET Label, Relabel(k, a, labels)
      PROVE  JobMoves(k)
    <2>1. state' = [state EXCEPT !.agents[a].labels = labels]
        BY <1>2 DEF Relabel, SetState
    <2>2. state'.jobs = state.jobs
        BY <1>a, <2>1 DEF ControlState
    <2> QED
        BY <2>2, SameJobsMove
<1>3. ASSUME NEW selector \in Selectors, NEW scope \in Scopes, NEW expected \in Expectations,
             CreateJob(k, selector, scope, expected)
      PROVE  JobMoves(k)
    <2>1. state' = WithJob(state, created + 1, selector, scope, expected)
        BY <1>3 DEF CreateJob, SetState
    <2>2. \A j \in Job : state'.jobs[j] = IF j = created + 1 THEN NewJob(TRUE, selector, scope, expected)
                                          ELSE state.jobs[j]
        BY <1>a, <2>1 DEF WithJob, ControlState
    <2> SUFFICES ASSUME NEW j \in Job, NEW a \in Agent
                 PROVE  state'.jobs[j].status[a] = state.jobs[j].status[a]
        BY DEF JobMoves
    <2>3. CASE j = created + 1
        <3>1. state.jobs[j].status[a] = "pending"
            BY <1>a, <2>3 DEF LaterJobs
        <3>2. NewJob(TRUE, selector, scope, expected).status[a] = "pending"
            BY DEF NewJob
        <3> QED
            BY <2>2, <2>3, <3>1, <3>2
    <2> QED
        BY <2>2, <2>3
<1>4. ASSUME NEW j \in Job, NEW a \in Agent, NEW status \in AnyStatus, NEW l \in 0..MaxLeases,
             state' = WithStatus(state, j, a, status, l)
      PROVE  \A i \in Job, b \in Agent :
                 state'.jobs[i].status[b] = IF i = j /\ b = a THEN status ELSE state.jobs[i].status[b]
    BY <1>a, <1>4, WithStatusType
<1>5. ASSUME LeaseJob(k) PROVE JobMoves(k)
    <2> DEFINE a == server[k].req.agent
               candidates == {j \in Job : IsLeaseCandidate(state, j, a)}
               j == Oldest(candidates)
    <2>1. Asks(k, "lease") /\ a \in Agent
        BY <1>5, AsksShape DEF LeaseJob, Arrives
    <2>2. \/ state' = state
          \/ /\ candidates # {} /\ leases < MaxLeases
             /\ state' = WithStatus(state, j, a, "leased", leases + 1)
        BY <1>5 DEF LeaseJob, SetState, Refuse
    <2>3. CASE state' = state
        BY <2>3, SameJobsMove
    <2>4. CASE /\ candidates # {} /\ leases < MaxLeases
               /\ state' = WithStatus(state, j, a, "leased", leases + 1)
        <3>1. j \in candidates
            BY <2>4, OldestIn
        <3>2. j \in Job /\ state.jobs[j].status[a] \notin EndStatus
            BY <3>1 DEF IsLeaseCandidate, EndStatus
        <3>3. leases + 1 \in 0..MaxLeases /\ "leased" \in AnyStatus
            BY <2>4, RemoteAgentAssumption, Statuses DEF TypeInv, TypeOK
        <3>4. state' = WithStatus(state, j, a, "leased", leases + 1)
            BY <2>4
        <3> HIDE DEF j, a, candidates
        <3>5. \A i \in Job, b \in Agent :
                  state'.jobs[i].status[b] = IF i = j /\ b = a THEN "leased" ELSE state.jobs[i].status[b]
            BY <1>4, <2>1, <3>2, <3>3, <3>4
        <3> QED
            BY <3>2, <3>5 DEF JobMoves
    <2> QED
        BY <2>2, <2>3, <2>4
<1>6. ASSUME CompleteJob(k) PROVE JobMoves(k)
    <2> DEFINE r == server[k].req
               l == state.jobs[r.job].lease[r.agent]
    <2>1. Asks(k, "complete")
        BY <1>6 DEF CompleteJob, Arrives
    <2>2. r.agent \in Agent /\ r.job \in Job /\ r.status \in AnyStatus
        BY <2>1, AsksShape, Statuses
    <2>3. l \in 0..MaxLeases
        BY <1>a, <2>2 DEF ControlState, JobRecord
    <2>4. Refuse(k) \/ state' = WithStatus(state, r.job, r.agent, r.status, l)
        BY <1>6 DEF CompleteJob, SetState
    <2>5. CASE state' = WithStatus(state, r.job, r.agent, r.status, l)
        <3> HIDE DEF l
        <3>1. \A i \in Job, b \in Agent :
                  state'.jobs[i].status[b] = IF i = r.job /\ b = r.agent THEN r.status
                                             ELSE state.jobs[i].status[b]
            BY <1>4, <2>2, <2>3, <2>5
        <3> QED
            BY <2>1, <3>1 DEF JobMoves
    <2> QED
        BY <1>b, <2>4, <2>5
<1>7. ASSUME ReceiveUpload(k) PROVE JobMoves(k)
    <2> DEFINE r == server[k].req
    <2>1. Asks(k, "upload") /\ r \in UploadRequest
        BY <1>7, AsksShape DEF ReceiveUpload, Arrives
    <2>2. state' = state \/ state' = AfterUpload(state, r)
        BY <1>7 DEF ReceiveUpload, SetState, Refuse
    <2>3. state'.jobs = state.jobs
        BY <1>a, <2>1, <2>2, AfterUploadType
    <2> QED
        BY <2>3, SameJobsMove
<1>8. ASSUME NEW s \in Source, StorePayload(k, s) PROVE JobMoves(k)
    <2> DEFINE h == server[k]
    <2>1. h.stage = "storing"
        BY <1>8 DEF StorePayload
    <2>2. h \in Storing /\ h.req \in UploadRequest
        BY <2>1, HandlerShape DEF TypeInv, Storing
    <2>3. h.snap = state
        BY <1>a, <2>1 DEF UploadInv, Storage
    <2>4. state' = state \/ state' = AfterUpload(state, h.req)
        BY <1>8, <2>3 DEF StorePayload, SetState
    <2>5. state'.jobs = state.jobs
        BY <1>a, <2>2, <2>4, AfterUploadType
    <2> QED
        BY <2>5, SameJobsMove
<1>9. ASSUME RejectStale(k) \/ StoreFails(k) PROVE JobMoves(k)
    BY <1>b, <1>9 DEF RejectStale, StoreFails
<1> QED
    BY <1>1, <1>2, <1>3, <1>5, <1>6, <1>7, <1>8, <1>9 DEF Handles

\* Client c sends a request: to lease a job as the agent it works as from now on, or
\* to end the job that it reports.
Sends(k, c) ==
    LET r == server'[k].req IN
    /\ server'[k].client = c
    /\ \/ r.kind \in {"pair", "upload"}
       \/ r.kind = "lease" /\ client'[c].pc = "leasing" /\ r.agent = client'[c].agent
       \/ /\ r = [kind |-> "complete", agent |-> client[c].agent, job |-> client[c].job,
                  status |-> client[c].status]
          /\ client[c].pc = "reporting" /\ client'[c].pc = "completing"

Arrived(h) == h.stage = "arriving"
Ends(h) == Arrived(h) /\ h.req.kind = "complete"

\* A request arrives when a client sends it, and stays as it is.
LEMMA ArriveMoves ==
    ASSUME TypeInv, OneUploadAtATime, ServerInv, [Next]_vars, ~CrashServer
    PROVE  \A k \in Conn : Arrived(server'[k]) =>
               \/ /\ Arrived(server[k]) /\ server'[k].req = server[k].req
                  /\ server'[k].client = server[k].client \/ Abandon(k)
               \/ \E c \in Client : Sends(k, c)
<1> USE DEF hosts, files, history
<1>a. \A k \in Conn : server[k] \in Handler
    BY DEF TypeInv
<1>b. ASSUME NEW i \in Conn, NEW h, server' = [server EXCEPT ![i] = h], ~Arrived(h)
      PROVE  \A k \in Conn : Arrived(server'[k]) => server'[k] = server[k]
    BY <1>b DEF TypeInv
<1>c. ASSUME \A k \in Conn : Arrived(server'[k]) => server'[k] = server[k]
      PROVE  \A k \in Conn : Arrived(server'[k]) =>
                 /\ Arrived(server[k]) /\ server'[k].req = server[k].req
                 /\ server'[k].client = server[k].client \/ Abandon(k)
    BY <1>c
<1>d. ASSUME NEW c \in Client, NEW i \in Conn, NEW req, Send(c, i, req),
             \/ req.kind \in {"pair", "upload"}
             \/ req.kind = "lease" /\ client'[c].pc = "leasing" /\ req.agent = client'[c].agent
             \/ /\ req = [kind |-> "complete", agent |-> client[c].agent, job |-> client[c].job,
                          status |-> client[c].status]
                /\ client[c].pc = "reporting" /\ client'[c].pc = "completing"
      PROVE  \A k \in Conn : Arrived(server'[k]) => server'[k] = server[k] \/ Sends(k, c)
    <2> DEFINE h == [stage |-> "arriving", client |-> c, req |-> req]
    <2>1. server' = [server EXCEPT ![i] = h] /\ h.client = c /\ h.req = req
        BY <1>d DEF Send
    <2> HIDE DEF h
    <2>2. \A k \in Conn : server'[k] = server[k] \/ server'[k] = h
        BY <2>1 DEF TypeInv
    <2> QED
        BY <1>d, <2>1, <2>2 DEF Sends
<1>1. ASSUME NEW c \in Client, NEW i \in Conn, BeginPair(c, i) \/ BeginPull(c, i) \/ SendUpload(c, i)
      PROVE  \A k \in Conn : Arrived(server'[k]) => server'[k] = server[k] \/ Sends(k, c)
    <2>1. CASE BeginPair(c, i)
        <3>1. Send(c, i, [kind |-> "pair"])
            BY <2>1 DEF BeginPair
        <3> QED
            BY <1>d, <3>1
    <2>2. CASE BeginPull(c, i)
        <3> DEFINE a == local[HostOf[c]].agent
        <3>1. Send(c, i, [kind |-> "lease", agent |-> a])
            BY <2>2 DEF BeginPull
        <3>2. client'[c].pc = "leasing" /\ client'[c].agent = a
            BY <2>2 DEF BeginPull, TypeInv
        <3> HIDE DEF a
        <3> QED
            BY <1>d, <3>1, <3>2
    <2>3. CASE SendUpload(c, i)
        <3>1. client[c] \in Sending
            BY <2>3, UploadingShape DEF SendUpload, Uploading, TypeInv
        <3>2. client[c].req.kind = "upload"
            BY <3>1 DEF Sending, UploadRequest
        <3>3. Send(c, i, client[c].req)
            BY <2>3 DEF SendUpload
        <3> QED
            BY <1>d, <3>2, <3>3
    <2> QED
        BY <1>1, <2>1, <2>2, <2>3
<1>2. ASSUME NEW c \in Client, NEW i \in Conn, Report(c, i)
      PROVE  \A k \in Conn : Arrived(server'[k]) => server'[k] = server[k] \/ Sends(k, c)
    <2> DEFINE req == [kind |-> "complete", agent |-> client[c].agent, job |-> client[c].job,
                       status |-> client[c].status]
    <2>1. /\ client[c].pc = "reporting" /\ Send(c, i, req)
          /\ client' = [client EXCEPT ![c].pc = "completing"]
        BY <1>2 DEF Report
    <2>2. client[c] \in ReportingState
        BY <2>1, ShapeOf DEF TypeInv
    <2>3. client'[c].pc = "completing"
        BY <2>1, <2>2 DEF ReportingState, TypeInv
    <2> QED
        BY <1>d, <2>1, <2>3
<1>3. ASSUME NEW i \in Conn, Handles(i)
      PROVE  \A k \in Conn : Arrived(server'[k]) => server'[k] = server[k]
    <2>1. Sets(i) \/ Refuses(i) \/ Starts(i) \/ GoesOn(i)
        BY <1>3, HandlerOutcome
    <2>2. CASE Sets(i)
        <3>1. PICK c, st, answer : SetState(i, c, st, answer)
            BY <2>2 DEF Sets
        <3> DEFINE h == [stage |-> "saving", client |-> c, save |-> st, fd |-> "none", answer |-> answer]
        <3>2. server' = [server EXCEPT ![i] = h] /\ h.stage = "saving"
            BY <3>1 DEF SetState
        <3> HIDE DEF h
        <3> QED
            BY <1>b, <3>2 DEF Arrived
    <2>3. CASE Refuses(i)
        <3> DEFINE h == [stage |-> "answering", client |-> server[i].client,
                         answer |-> [NoAnswer EXCEPT !.ok = FALSE]]
        <3>1. server' = [server EXCEPT ![i] = h] /\ h.stage = "answering"
            BY <2>3 DEF Refuses, Refuse, Respond
        <3> HIDE DEF h
        <3> QED
            BY <1>b, <3>1 DEF Arrived
    <2>4. CASE Starts(i)
        <3> DEFINE h == [stage |-> "storing", client |-> server[i].client, req |-> server[i].req,
                         snap |-> state, left |-> server[i].req.bundled]
        <3>1. server' = [server EXCEPT ![i] = h] /\ h.stage = "storing"
            BY <2>4 DEF Starts
        <3> HIDE DEF h
        <3> QED
            BY <1>b, <3>1 DEF Arrived
    <2>5. CASE GoesOn(i)
        <3>1. PICK s \in Source :
                  /\ AtStage(i, "storing")
                  /\ server' = [server EXCEPT ![i] = [server[i] EXCEPT !.left = server[i].left \ {s}]]
            BY <2>5 DEF GoesOn
        <3> DEFINE h == [server[i] EXCEPT !.left = server[i].left \ {s}]
        <3>2. server[i] \in Storing
            BY <1>a, <3>1, HandlerShape DEF AtStage
        <3>3. h.stage = "storing"
            BY <3>2 DEF Storing
        <3>4. server' = [server EXCEPT ![i] = h]
            BY <3>1
        <3> HIDE DEF h
        <3> QED
            BY <1>b, <3>3, <3>4 DEF Arrived
    <2> QED
        BY <2>1, <2>2, <2>3, <2>4, <2>5
<1>4. ASSUME NEW i \in Conn, OpenTemporary(i)
      PROVE  \A k \in Conn : Arrived(server'[k]) => server'[k] = server[k]
    <2>1. server[i] \in Saving
        BY <1>4, <1>a, HandlerShape DEF OpenTemporary, AtStage
    <2> DEFINE h == [server[i] EXCEPT !.stage = "opened", !.fd = "tmp"]
    <2>2. server' = [server EXCEPT ![i] = h]
        BY <1>4 DEF OpenTemporary, TypeInv
    <2>3. h.stage = "opened"
        BY <2>1 DEF Saving
    <2> HIDE DEF h
    <2> QED
        BY <1>b, <2>2, <2>3 DEF Arrived
<1>5. ASSUME NEW i \in Conn, NEW content, RenameTemporary(i, content)
      PROVE  \A k \in Conn : Arrived(server'[k]) => server'[k] = server[k]
    <2>1. ASSUME NEW k \in Conn PROVE server'[k] = server[k] \/ ~Arrived(server'[k])
        <3>1. CASE tmp = NoFile
            BY <1>5, <3>1 DEF RenameTemporary, Respond, Arrived, TypeInv
        <3>2. CASE tmp # NoFile
            <4>1. server'[k] = IF k = i THEN [stage |-> "answering", client |-> server[i].client,
                                              answer |-> server[i].answer]
                               ELSE Renamed(server[k])
                BY <1>5, <3>2 DEF RenameTemporary
            <4>2. CASE k = i
                BY <4>1, <4>2 DEF Arrived
            <4>3. CASE k # i /\ ~(server[k] # NoRequest /\ server[k].stage = "opened")
                BY <4>1, <4>3 DEF Renamed
            <4>4. CASE k # i /\ server[k] # NoRequest /\ server[k].stage = "opened"
                <5>1. server[k] \in Saving
                    BY <1>a, <4>4, HandlerShape
                <5>2. Renamed(server[k]).stage = "opened"
                    BY <4>4, <5>1 DEF Renamed, Saving
                <5> QED
                    BY <4>1, <4>4, <5>2 DEF Arrived
            <4> QED
                BY <4>2, <4>3, <4>4
        <3> QED
            BY <3>1, <3>2
    <2> QED
        BY <2>1
<1>6. ASSUME NEW i \in Conn, Receive(i) \/ LoseMessage(i)
      PROVE  \A k \in Conn : Arrived(server'[k]) => server'[k] = server[k]
    <2>1. server' = [server EXCEPT ![i] = NoRequest]
        BY <1>6 DEF Receive, LoseMessage
    <2> QED
        BY <1>b, <2>1 DEF Arrived, NoRequest
<1>7. ASSUME NEW i \in Conn, Abandon(i)
      PROVE  \A k \in Conn : Arrived(server'[k]) =>
                 /\ Arrived(server[k]) /\ server'[k].req = server[k].req
                 /\ server'[k].client = server[k].client \/ Abandon(k)
    <2> SUFFICES ASSUME NEW k \in Conn, Arrived(server'[k])
                 PROVE  /\ Arrived(server[k]) /\ server'[k].req = server[k].req
                        /\ server'[k].client = server[k].client \/ Abandon(k)
        OBVIOUS
    <2>1. CASE k # i
        <3>1. server'[k] = server[k]
            BY <1>7, <2>1 DEF Abandon, TypeInv
        <3> QED
            BY <3>1
    <2>2. CASE k = i
        <3> DEFINE h == [server[i] EXCEPT !.client = Nobody]
        <3>1. server'[k] = h /\ ~Free(i)
            BY <1>7, <2>2 DEF Abandon, TypeInv
        <3>2. h.stage = server[i].stage /\ (server[i].stage = "arriving" => h.req = server[i].req)
            BY <1>a, <3>1 DEF Handler, Arriving, Storing, Saving, Answering, Free
        <3> HIDE DEF h
        <3> QED
            BY <1>7, <2>2, <3>1, <3>2 DEF Arrived
    <2> QED
        BY <2>1, <2>2
<1>8. ASSUME server' = server
      PROVE  \A k \in Conn : Arrived(server'[k]) => server'[k] = server[k]
    BY <1>8
<1>9. CASE \E c \in Client :
                 \/ \E scope \in Scopes : BeginUpload(c, scope)
                 \/ \E presence \in [Source -> Presences] : Probe(c, presence)
                 \/ ReadLocalState(c) \/ WriteLocalState(c) \/ CommandFails(c)
                 \/ \E torn \in BOOLEAN : Kill(c, torn)
    <2>1. server' = server
        BY <1>9 DEF BeginUpload, Probe, ReadLocalState, WriteLocalState, CommandFails, Kill
    <2> QED
        BY <2>1
<1>10. CASE (\E s \in Source : EditSource(s)) \/ (\E l \in 1..MaxLeases : Expire(l)) \/ UNCHANGED vars
    <2>1. server' = server
        BY <1>10 DEF EditSource, Expire, vars
    <2> QED
        BY <2>1
<1>11. CASE \E c \in Client, i \in Conn :
                  BeginPair(c, i) \/ BeginPull(c, i) \/ SendUpload(c, i) \/ Report(c, i)
    <2>1. PICK c \in Client :
              \A k \in Conn : Arrived(server'[k]) => server'[k] = server[k] \/ Sends(k, c)
        BY <1>1, <1>2, <1>11
    <2>2. ASSUME NEW k \in Conn, Arrived(server'[k]), server'[k] = server[k]
          PROVE  /\ Arrived(server[k]) /\ server'[k].req = server[k].req
                 /\ server'[k].client = server[k].client
        BY <2>2
    <2> QED
        BY <2>1, <2>2
<1>13. CASE \E i \in Conn : \/ Handles(i) \/ OpenTemporary(i) \/ Receive(i) \/ LoseMessage(i)
                            \/ \E content \in {server[i].save, Torn} : RenameTemporary(i, content)
    <2>1. \A k \in Conn : Arrived(server'[k]) => server'[k] = server[k]
        BY <1>3, <1>4, <1>5, <1>6, <1>13
    <2> QED
        BY <1>c, <2>1
<1>14. CASE \E i \in Conn : Abandon(i)
    <2>1. PICK i \in Conn : Abandon(i)
        BY <1>14
    <2> QED
        BY <1>7, <2>1
<1> QED
    BY StepGroups, <1>9, <1>10, <1>11, <1>13, <1>14

----------------------------------------------------------------------------
(* A job that succeeded.                                                   *)

\* Process p has an upload for job j of agent a to bring; or it brought one and
\* reports the success, or will.
Collecting(p, j, a) == p.pc \in Uploading /\ p.req.job = j /\ p.req.agent = a
Succeeding(p, j, a) ==
    \/ p.pc = "recording" /\ p.job = j /\ p.puller = a
    \/ p.pc \in {"reporting", "completing"} /\ p.job = j /\ p.agent = a /\ p.status = "succeeded"
ReportsSuccess(h, j, a) ==
    Ends(h) /\ h.req.job = j /\ h.req.agent = a /\ h.req.status = "succeeded"

\* Somebody says that job j succeeded for agent a, or is about to say so.
Claimed(j, a) ==
    \/ \E c \in Client : Succeeding(client[c], j, a)
    \/ \E k \in Conn : ReportsSuccess(server[k], j, a)
    \/ state.jobs[j].status[a] = "succeeded"

\* An agent collects for a job while nobody else works on that job for it, and
\* while it does not count as succeeded.
CollectsAlone ==
    \A c \in Client, presence \in [Source -> Presences] :
        Probe(c, presence) /\ client[c].job # 0 =>
            /\ ~Claimed(client[c].job, client[c].file.agent)
            /\ \A d \in Client \ {c} : ~Collecting(client[d], client[c].job, client[c].file.agent)

StoredFor(j, a, col, w) == \A s \in Source : col[j][a][s] <= w[s]

\* What was collected for a job is what upload r brings.
Covers(r, j, a, col) ==
    \A s \in Source : col[j][a][s] # 0 =>
        s \in r.bundled /\ r.data[s] # Unreadable /\ r.data[s] = col[j][a][s]

SuccessInv ==
    /\ collected \in [Job -> [Agent -> [Source -> Nat]]]
    /\ \A j \in Job, a \in Agent :
          /\ Claimed(j, a) => StoredFor(j, a, collected, store)
          /\ \A c \in Client : Collecting(client[c], j, a) => Covers(client[c].req, j, a, collected)

\* An upload that is answered well has been stored.
LEMMA AnsweredIsBrought ==
    ASSUME TypeInv, StoreInv, NEW c \in Client, NEW k \in Conn, Talking(k, c),
           server[k].stage = "answering", server[k].answer.ok, client[c].pc = "uploading"
    PROVE  Brought(client[c].req, client[c].req.bundled, store)
<1>1. PICK f \in AgentOfHost : Orderly(f)
    BY DEF StoreInv
<1>2. AnswerOrder(server[k], client, store)
    BY <1>1 DEF Orderly
<1> QED
    BY <1>2 DEF AnswerOrder, Talking, Answered

\* A claim was one before, or an upload for the job was answered.
LEMMA ClaimsBefore ==
    ASSUME TypeInv, OneUploadAtATime, ServerInv, AgentInv, StoreInv, [Next]_vars, ~CrashServer,
           NEW j \in Job, NEW a \in Agent, Claimed(j, a)'
    PROVE  \/ Claimed(j, a)
           \/ \E c \in Client : /\ Collecting(client[c], j, a)
                                /\ Brought(client[c].req, client[c].req.bundled, store)
<1> USE DEF hosts, files, history
<1>0. j # 0
    BY DEF Job
<1>1. ASSUME NEW c \in Client, Succeeding(client'[c], j, a)
      PROVE  \/ Claimed(j, a)
             \/ /\ Collecting(client[c], j, a)
                /\ Brought(client[c].req, client[c].req.bundled, store)
    <2> DEFINE p == client[c]
               q == client'[c]
    <2>1. Moves(c)
        BY EveryMove
    <2>2. CASE q.pc = "recording"
        <3>1. q.job = j /\ q.puller = a
            BY <1>1, <2>2 DEF Succeeding
        <3>2. \/ Succeeding(p, j, a)
              \/ /\ p.pc = "uploading" /\ p.req.job = j /\ p.puller = a
                 /\ \E k \in Conn : /\ Talking(k, c) /\ server[k].stage = "answering"
                                    /\ server[k].answer.ok
            BY <1>0, <1>1, <2>1, <2>2, <3>1 DEF Moves, Idle, Reporting
        <3>3. CASE Succeeding(p, j, a)
            BY <3>3 DEF Claimed
        <3>4. CASE /\ p.pc = "uploading" /\ p.req.job = j /\ p.puller = a
                   /\ \E k \in Conn : /\ Talking(k, c) /\ server[k].stage = "answering"
                                      /\ server[k].answer.ok
            <4>1. Brought(p.req, p.req.bundled, store)
                BY <3>4, AnsweredIsBrought
            <4>2. p \in Sending
                BY <3>4, UploadingShape DEF Uploading, TypeInv
            <4>3. HostOf[c] \in Host /\ p.req.agent \in Agent
                BY <4>2, RemoteAgentAssumption DEF Sending, UploadRequest
            <4>4. WorksAs(p, p.req.agent) /\ WorksAs(p, a)
                BY <1>0, <3>4 DEF WorksAs, Uploading
            <4>5. p.req.agent = a
                BY <4>3, <4>4 DEF AgentInv, IsAgentOf
            <4> QED
                BY <3>4, <4>1, <4>5 DEF Collecting, Uploading
        <3> QED
            BY <3>2, <3>3, <3>4
    <2>3. CASE q.pc \in {"reporting", "completing"}
        <3>1. q.job = j /\ q.agent = a /\ q.status = "succeeded"
            BY <1>1, <2>3 DEF Succeeding
        <3>2. Succeeding(p, j, a)
            BY <1>0, <1>1, <2>1, <2>3, <3>1 DEF Moves, Idle, Reporting, Succeeding
        <3> QED
            BY <3>2 DEF Claimed
    <2> QED
        BY <1>1, <2>2, <2>3 DEF Succeeding
<1>2. ASSUME NEW k \in Conn, ReportsSuccess(server'[k], j, a)
      PROVE  Claimed(j, a)
    <2>1. CASE Arrived(server[k]) /\ server'[k].req = server[k].req
        BY <1>2, <2>1 DEF ReportsSuccess, Ends, Claimed
    <2>2. CASE \E c \in Client : Sends(k, c)
        <3>1. PICK c \in Client : Sends(k, c)
            BY <2>2
        <3>2. /\ client[c].pc = "reporting" /\ client[c].agent = a /\ client[c].job = j
              /\ client[c].status = "succeeded"
            BY <1>2, <3>1 DEF Sends, ReportsSuccess, Ends
        <3> QED
            BY <3>2 DEF Claimed, Succeeding
    <2> QED
        BY <1>2, <2>1, <2>2, ArriveMoves DEF ReportsSuccess, Ends
<1>3. ASSUME state'.jobs[j].status[a] = "succeeded"
      PROVE  Claimed(j, a)
    <2>1. CASE state' = state
        BY <1>3, <2>1 DEF Claimed
    <2>2. CASE \E k \in Conn : Handles(k)
        <3>1. PICK k \in Conn : Handles(k)
            BY <2>2
        <3>2. JobMoves(k)
            BY <3>1, HandlerJobs
        <3>3. CASE state.jobs[j].status[a] = "succeeded"
            BY <3>3 DEF Claimed
        <3>4. CASE /\ Asks(k, "complete") /\ server[k].req.job = j /\ server[k].req.agent = a
                   /\ server[k].req.status = "succeeded"
            BY <3>4 DEF Claimed, ReportsSuccess, Ends, Arrived, Asks
        <3> QED
            BY <1>3, <3>2, <3>3, <3>4 DEF JobMoves
    <2>3. state' = state \/ \E k \in Conn : Handles(k)
        BY StepGroups DEF BeginPair, BeginPull, SendUpload, Report, BeginUpload, Probe, ReadLocalState,
            WriteLocalState, CommandFails, Kill, EditSource, Expire, vars, OpenTemporary,
            RenameTemporary, Receive, LoseMessage, Abandon
    <2> QED
        BY <2>1, <2>2, <2>3
<1>4. \/ \E c \in Client : Succeeding(client'[c], j, a)
      \/ \E k \in Conn : ReportsSuccess(server'[k], j, a)
      \/ state'.jobs[j].status[a] = "succeeded"
    BY DEF Claimed, Succeeding, ReportsSuccess, Ends, Arrived
<1> QED
    BY <1>1, <1>2, <1>3, <1>4

LEMMA CollectingBefore ==
    ASSUME TypeInv, NEW c \in Client, Moves(c), NEW j \in Job, NEW a \in Agent,
           Collecting(client'[c], j, a), ~\E presence \in [Source -> Presences] : Probe(c, presence)
    PROVE  Collecting(client[c], j, a) /\ client'[c].req = client[c].req
BY DEF Moves, Collecting, Uploading, Idle, Reporting

\* What is brought is stored, and what is stored stays.
LEMMA BroughtIsStored ==
    ASSUME TypeInv, SuccessInv, NEW r, NEW j \in Job, NEW a \in Agent, Covers(r, j, a, collected),
           Brought(r, r.bundled, store)
    PROVE  StoredFor(j, a, collected, store)
<1> SUFFICES ASSUME NEW s \in Source PROVE collected[j][a][s] <= store[s]
    BY DEF StoredFor
<1>1. collected[j][a][s] \in Nat /\ store[s] \in Nat
    BY DEF SuccessInv, TypeInv, TypeOK
<1>2. CASE collected[j][a][s] = 0
    BY <1>1, <1>2
<1>3. CASE collected[j][a][s] # 0
    BY <1>3 DEF Covers, Brought
<1> QED
    BY <1>2, <1>3

LEMMA StoredStays ==
    ASSUME TypeInv, TypeInv', SuccessInv, NEW j \in Job, NEW a \in Agent,
           \A s \in Source : store'[s] >= store[s], StoredFor(j, a, collected, store)
    PROVE  StoredFor(j, a, collected, store')
<1> SUFFICES ASSUME NEW s \in Source PROVE collected[j][a][s] <= store'[s]
    BY DEF StoredFor
<1>1. collected[j][a][s] \in Nat /\ store[s] \in Nat /\ store'[s] \in Nat
    BY DEF SuccessInv, TypeInv, TypeOK
<1>2. collected[j][a][s] <= store[s] /\ store[s] <= store'[s]
    BY DEF StoredFor
<1> QED
    BY <1>1, <1>2

\* What is collected for a job is what the upload brings; other jobs, and other
\* agents, keep what was collected for them.
LEMMA ProbeCollects ==
    ASSUME TypeInv, SuccessInv, NEW c \in Client, NEW presence \in [Source -> Presences],
           Probe(c, presence)
    PROVE  /\ collected' \in [Job -> [Agent -> [Source -> Nat]]]
           /\ \A j \in Job, a \in Agent :
                 IF j = client[c].job /\ a = client[c].file.agent
                 THEN Covers(client'[c].req, j, a, collected')
                 ELSE collected'[j][a] = collected[j][a]
           /\ \A d \in Client \ {c} : client'[d] = client[d]
<1> DEFINE p == client[c]
           listed == {s \in p.scope : OwnerOf[s] = HostOf[c]}
           bundled == {s \in listed : presence[s] # "absent"}
           data == [s \in Source |-> IF presence[s] = "unreadable" THEN Unreadable ELSE version[s]]
           gen == [s \in Source |-> p.file.gen[s] + (IF s \in bundled THEN 1 ELSE 0)]
           req == [kind |-> "upload", agent |-> p.file.agent, job |-> p.job,
                   listed |-> listed, bundled |-> bundled, gen |-> gen, data |-> data]
           q == [pc |-> "sending", file |-> p.file, puller |-> p.puller,
                 tries |-> Retries, req |-> req]
           found == [s \in Source |-> IF s \in bundled /\ data[s] # Unreadable THEN version[s] ELSE 0]
<1>1. /\ p.pc = "probing" /\ client' = [client EXCEPT ![c] = q]
      /\ collected' = [j \in Job |-> IF j # p.job THEN collected[j]
                                     ELSE [collected[j] EXCEPT ![p.file.agent] = found]]
    BY DEF Probe
<1>2. p \in Probing
    BY <1>1, ShapeOf DEF TypeInv
<1>3. p.file.agent \in Agent
    BY <1>2 DEF Probing, FileState
<1>4. \A s \in Source : /\ version[s] \in Nat /\ version[s] # Unreadable
                        /\ data[s] \in {Unreadable, version[s]}
    <2>1. \A s \in Source : version[s] \in 1..MaxVersion
        BY DEF TypeInv, TypeOK
    <2>2. \A s \in Source : version[s] \in 0..MaxVersion
        BY <2>1
    <2> QED
        BY <2>1, <2>2, RemoteAgentAssumption
<1>5. found \in [Source -> Nat]
    BY <1>4
<1>6. client' = [client EXCEPT ![c] = q] /\ q.req = req /\ req.bundled = bundled /\ req.data = data
    BY <1>1
<1> HIDE DEF q, req
<1>7. client'[c].req.bundled = bundled /\ client'[c].req.data = data
      /\ \A d \in Client \ {c} : client'[d] = client[d]
    BY <1>6 DEF TypeInv
<1>8. \A s \in Source : found[s] # 0 => s \in bundled /\ data[s] # Unreadable /\ data[s] = found[s]
    BY <1>4
<1> HIDE DEF bundled, data, found
<1>9. collected \in [Job -> [Agent -> [Source -> Nat]]]
    BY DEF SuccessInv
<1>10. \A j \in Job, a \in Agent :
          collected'[j][a] = IF j = p.job /\ a = p.file.agent THEN found ELSE collected[j][a]
    BY <1>1, <1>3, <1>9
<1>11. collected' \in [Job -> [Agent -> [Source -> Nat]]]
    <2>1. \A j \in Job : [collected[j] EXCEPT ![p.file.agent] = found] \in [Agent -> [Source -> Nat]]
        BY <1>5, <1>9
    <2> QED
        BY <1>1, <1>9, <2>1
<1>12. ASSUME NEW j \in Job, NEW a \in Agent, j = p.job, a = p.file.agent
       PROVE  Covers(client'[c].req, j, a, collected')
    BY <1>7, <1>8, <1>10, <1>12 DEF Covers
<1> QED
    BY <1>7, <1>10, <1>11, <1>12

LEMMA SuccessStep ==
    ASSUME TypeInv, TypeInv', OneUploadAtATime, ServerInv, AgentInv, StoreInv, SuccessInv,
           [Next]_vars, ~CrashServer, [CollectsAlone]_vars, \A s \in Source : store'[s] >= store[s]
    PROVE  SuccessInv'
<1> USE DEF hosts, files, history
<1>1. \A c \in Client : Moves(c)
    BY EveryMove
<1>2. ASSUME NEW j \in Job, NEW a \in Agent, Claimed(j, a)'
      PROVE  StoredFor(j, a, collected, store')
    <2>1. CASE Claimed(j, a)
        BY <2>1, StoredStays DEF SuccessInv
    <2>2. CASE \E c \in Client : /\ Collecting(client[c], j, a)
                                 /\ Brought(client[c].req, client[c].req.bundled, store)
        <3>1. PICK c \in Client : /\ Collecting(client[c], j, a)
                                  /\ Brought(client[c].req, client[c].req.bundled, store)
            BY <2>2
        <3>2. Covers(client[c].req, j, a, collected)
            BY <3>1 DEF SuccessInv
        <3>3. StoredFor(j, a, collected, store)
            BY <3>1, <3>2, BroughtIsStored
        <3> QED
            BY <3>3, StoredStays
    <2> QED
        BY <1>2, <2>1, <2>2, ClaimsBefore
<1>3. CASE \E c \in Client, presence \in [Source -> Presences] : Probe(c, presence)
    <2>1. PICK c \in Client, presence \in [Source -> Presences] : Probe(c, presence)
        BY <1>3
    <2> DEFINE j0 == client[c].job
               a0 == client[c].file.agent
    <2>2. client[c].pc = "probing" /\ client'[c].pc = "sending"
        <3>1. client[c].pc = "probing"
            BY <2>1 DEF Probe
        <3>2. client[c] \in ClientState
            BY DEF TypeInv
        <3>3. client'[c].pc = "sending"
            BY <2>1 DEF Probe, TypeInv
        <3> QED
            BY <3>1, <3>3
    <2>3. CollectsAlone
        <3>1. client' # client
            BY <2>2
        <3> QED
            BY <3>1 DEF vars
    <2>4. /\ collected' \in [Job -> [Agent -> [Source -> Nat]]]
          /\ \A j \in Job, a \in Agent :
                IF j = j0 /\ a = a0 THEN Covers(client'[c].req, j, a, collected')
                ELSE collected'[j][a] = collected[j][a]
          /\ \A d \in Client \ {c} : client'[d] = client[d]
        BY <2>1, ProbeCollects
    <2>5. ASSUME NEW j \in Job, NEW a \in Agent, ~(j = j0 /\ a = a0)
          PROVE  /\ Claimed(j, a)' => StoredFor(j, a, collected', store')
                 /\ \A d \in Client : Collecting(client'[d], j, a) => Covers(client'[d].req, j, a, collected')
        <3>1. collected'[j][a] = collected[j][a]
            BY <2>4, <2>5
        <3>2. Claimed(j, a)' => StoredFor(j, a, collected', store')
            BY <1>2, <3>1 DEF StoredFor
        <3>3. ASSUME NEW d \in Client, Collecting(client'[d], j, a)
              PROVE  Covers(client'[d].req, j, a, collected')
            <4>1. d # c
                <5>0. Moves(c)
                    BY <1>1
                <5>1. client'[c].req.agent = a0 /\ client'[c].req.job = j0
                    BY <2>2, <5>0 DEF Moves, Idle, Reporting
                <5> HIDE DEF j0, a0
                <5> QED
                    BY <2>5, <3>3, <5>1 DEF Collecting
            <4> QED
                BY <2>4, <3>1, <3>3, <4>1 DEF SuccessInv, Covers
        <3> QED
            BY <3>2, <3>3
    <2>6. ASSUME NEW j \in Job, NEW a \in Agent, j = j0, a = a0
          PROVE  /\ Claimed(j, a)' => StoredFor(j, a, collected', store')
                 /\ \A d \in Client : Collecting(client'[d], j, a) => Covers(client'[d].req, j, a, collected')
        <3>1. j0 # 0
            BY <2>6 DEF Job
        <3>2. ~Claimed(j, a) /\ \A d \in Client \ {c} : ~Collecting(client[d], j, a)
            BY <2>1, <2>3, <2>6, <3>1 DEF CollectsAlone
        <3>3. \A d \in Client : ~Collecting(client[d], j, a)
            BY <2>2, <3>2 DEF Collecting, Uploading
        <3>4. ~Claimed(j, a)'
            BY <3>2, <3>3, ClaimsBefore
        <3>5. ASSUME NEW d \in Client, Collecting(client'[d], j, a)
              PROVE  Covers(client'[d].req, j, a, collected')
            <4>1. d = c
                BY <2>4, <3>3, <3>5
            <4> QED
                BY <2>4, <2>6, <4>1
        <3> QED
            BY <3>4, <3>5
    <2>7. \A j \in Job, a \in Agent :
              /\ Claimed(j, a)' => StoredFor(j, a, collected', store')
              /\ \A d \in Client : Collecting(client'[d], j, a) => Covers(client'[d].req, j, a, collected')
        BY <2>5, <2>6
    <2> HIDE DEF j0, a0
    <2> QED
        BY <2>4, <2>7 DEF SuccessInv, Collecting, Covers, StoredFor
<1>4. CASE ~\E c \in Client, presence \in [Source -> Presences] : Probe(c, presence)
    <2>1. collected' = collected
        <3>1. ASSUME NEW k \in Conn, Handles(k) PROVE collected' = collected
            BY <3>1 DEF Handles, Pair, Relabel, CreateJob, LeaseJob, CompleteJob, ReceiveUpload,
                StorePayload, RejectStale, StoreFails
        <3> QED
            BY <1>4, <3>1, StepGroups
               DEF BeginPair, BeginPull, SendUpload, Report, BeginUpload, ReadLocalState,
                   WriteLocalState, CommandFails, Kill, EditSource, Expire, vars, OpenTemporary,
                   RenameTemporary, Receive, LoseMessage, Abandon
    <2>2. ASSUME NEW j \in Job, NEW a \in Agent, NEW c \in Client, Collecting(client'[c], j, a)
          PROVE  Covers(client'[c].req, j, a, collected)
        <3>1. Collecting(client[c], j, a) /\ client'[c].req = client[c].req
            BY <1>1, <1>4, <2>2, CollectingBefore
        <3> QED
            BY <3>1 DEF SuccessInv
    <2>3. \A j \in Job, a \in Agent :
              /\ Claimed(j, a)' => StoredFor(j, a, collected', store')
              /\ \A d \in Client : Collecting(client'[d], j, a) => Covers(client'[d].req, j, a, collected')
        BY <1>2, <2>1, <2>2
    <2>4. collected' \in [Job -> [Agent -> [Source -> Nat]]]
        BY <2>1 DEF SuccessInv
    <2> QED
        BY <2>3, <2>4 DEF SuccessInv, Collecting, Covers, StoredFor
<1> QED
    BY <1>3, <1>4

LEMMA SuccessInit == Init => SuccessInv
<1> SUFFICES ASSUME Init PROVE SuccessInv
    OBVIOUS
<1>1. collected \in [Job -> [Agent -> [Source -> Nat]]]
    BY DEF Init
<1>2. \A j \in Job, a \in Agent : ~Claimed(j, a)
    BY DEF Init, Claimed, Succeeding, ReportsSuccess, Ends, Arrived, Idle, NoRequest, EmptyState, NoJob, NewJob
<1>3. \A c \in Client, j \in Job, a \in Agent : ~Collecting(client[c], j, a)
    BY DEF Init, Collecting, Uploading, Idle
<1> QED
    BY <1>1, <1>2, <1>3 DEF SuccessInv

\* A job that counts as succeeded has in the store what its agent collected for it,
\* in that version or a later one, whatever is retried, lost, expired and leased again
\* (the client reports success after applyRemoteUploadSuccess, and the server
\* stores before it answers), as long as nobody else works on the job of an agent
\* while it collects for it.
LEMMA SucceededAreStored ==
    ASSUME OneUploadAtATime, MaxCrashes = 0
    PROVE  Spec /\ [][PairsOnce /\ WholeUploads /\ CollectsAlone]_vars => []SucceededIsStored
<1> DEFINE Grown == \A s \in Source : store'[s] >= store[s]
<1>1. Init => AgentInv /\ SuccessInv
    BY AgentInit, SuccessInit
<1>2. TypeInv /\ TypeInv' /\ ServerInv /\ CrashesCounted /\ OrderInv /\ OrderInv'
          /\ AgentInv /\ SuccessInv /\ [Next]_vars /\ [PairsOnce /\ WholeUploads /\ CollectsAlone]_vars
          => AgentInv' /\ SuccessInv'
    <2> SUFFICES ASSUME TypeInv, TypeInv', ServerInv, CrashesCounted, OrderInv, OrderInv',
                        AgentInv, SuccessInv, [Next]_vars,
                        [PairsOnce /\ WholeUploads /\ CollectsAlone]_vars
                 PROVE  AgentInv' /\ SuccessInv'
        OBVIOUS
    <2>1. ~CrashServer
        BY DEF CrashServer, CrashesCounted
    <2>2. PairInv /\ StoreInv /\ PairInv'
        BY DEF OrderInv
    <2>3. [WholeUploads]_vars /\ [CollectsAlone]_vars
        OBVIOUS
    <2>4. \A s \in Source : store'[s] >= store[s]
        BY <2>1, <2>2, <2>3, StoreInvStep
    <2>5. AgentInv'
        BY <2>1, <2>2, AgentStep
    <2>6. SuccessInv'
        BY <2>1, <2>2, <2>3, <2>4, SuccessStep
    <2> QED
        BY <2>5, <2>6
<1>3. [PairsOnce /\ WholeUploads /\ CollectsAlone]_vars => [PairsOnce /\ WholeUploads]_vars
    OBVIOUS
<1>4. SuccessInv => SucceededIsStored
    <2> SUFFICES ASSUME SuccessInv, NEW j \in Job, NEW a \in Agent, state.jobs[j].status[a] = "succeeded",
                        NEW s \in Source
                 PROVE  store[s] >= collected[j][a][s]
        BY DEF SucceededIsStored
    <2>1. StoredFor(j, a, collected, store)
        BY DEF SuccessInv, Claimed
    <2> QED
        BY <2>1 DEF StoredFor
<1> QED
    BY <1>1, <1>2, <1>3, <1>4, TypeInvariant, ServerInvariant, CrashesCount, OrderInvariant, PTL DEF Spec

----------------------------------------------------------------------------
(* One process per host pulls: then an agent collects alone.               *)

OnePuller ==
    \A c, d \in Client :
        HostOf[c] = HostOf[d] /\ "pull" \in Runs[c] /\ "pull" \in Runs[d] => c = d

\* Process p works for a job, or asks for one.
Works(p) ==
    \/ p.pc \in {"leasing", "leased", "reporting", "completing"}
    \/ p.pc \in {"probing", "recording"} /\ p.job # 0
    \/ p.pc \in Uploading /\ p.req.job # 0

\* Process p works on job j, that agent a has leased.
WorksOn(p, j, a) ==
    \/ p.pc = "leased" /\ p.job = j /\ p.agent = a
    \/ p.pc \in {"probing", "recording"} /\ p.job = j /\ p.puller = a
    \/ p.pc \in Uploading /\ p.req.job = j /\ p.puller = a

PullInv == \A c \in Client : Works(client[c]) => "pull" \in Runs[c]

\* Handler h answers a request to pair with agent a.
Names(h, a) == h.stage \in Answered /\ h.answer.agent = a

\* An agent id is of one host, and one that is yet to be told is of none.
FreshInv ==
    /\ \A g, h \in Host, a \in Agent :
          IsAgentOf(g, a, local, client) /\ IsAgentOf(h, a, local, client) => g = h
    /\ \A h \in Host, a \in Agent : IsAgentOf(h, a, local, client) => a \in paired
    /\ \A k \in Conn, a \in Agent : Names(server[k], a) =>
          /\ a \in paired
          /\ \A h \in Host : ~IsAgentOf(h, a, local, client)
          /\ \A i \in Conn : Names(server[i], a) => i = k

\* Who asks for a job or ends one waits for the answer, and asks as what it works as.
AskInv ==
    /\ \A k \in Conn : Ends(server[k]) => server[k].client \in Client
    /\ \A k \in Conn, c \in Client : Talking(k, c) /\ Arrived(server[k]) =>
          LET r == server[k].req
              p == client[c]
          IN  /\ r.kind = "lease" => p.pc = "leasing" /\ p.agent = r.agent
              /\ r.kind = "complete" => p.pc = "completing" /\ p.agent = r.agent /\ p.job = r.job

\* Handler h tells its client that it has job j.
Tells(h, j) == h.stage \in Answered /\ h.answer.job = j

\* A job that is worked on, or that a client is told, is leased.
LeasedInv ==
    \A c \in Client, j \in Job, a \in Agent :
        \/ WorksOn(client[c], j, a)
        \/ /\ client[c].pc = "leasing" /\ client[c].agent = a
           /\ \E k \in Conn : Talking(k, c) /\ Tells(server[k], j)
        => state.jobs[j].status[a] = "leased"

LoneInv == PullInv /\ FreshInv /\ AskInv /\ LeasedInv

\* An answer that names a job is one to a request to lease it.
GivesJob(k) ==
    /\ Asks(k, "lease") /\ server'[k].client = server[k].client
    /\ server'[k].answer.agent = Nobody /\ server'[k].answer.job \in Job
    /\ state'.jobs[server'[k].answer.job].status[server[k].req.agent] = "leased"

\* Where an answer comes from: it is there, says nothing, names a new agent or a job.
AnswerFrom(k) ==
    \/ /\ server[k].stage \in Answered /\ server'[k].answer = server[k].answer
       /\ server'[k].client = server[k].client \/ Abandon(k)
    \/ server'[k].answer.agent = Nobody /\ server'[k].answer.job = 0
    \/ \E a \in Agent : Pair(k, a) /\ server'[k].answer.agent = a /\ server'[k].answer.job = 0
    \/ GivesJob(k)

LEMMA SetAnswer ==
    ASSUME TypeInv, NEW k \in Conn, NEW c, NEW st, NEW answer, SetState(k, c, st, answer)
    PROVE  server'[k].answer = answer /\ server'[k].client = c /\ state' = st
BY DEF SetState, TypeInv

LEMMA RefuseAnswer ==
    ASSUME TypeInv, NEW k \in Conn, Respond(k, [NoAnswer EXCEPT !.ok = FALSE])
    PROVE  server'[k].answer.agent = Nobody /\ server'[k].answer.job = 0
<1> DEFINE answer == [NoAnswer EXCEPT !.ok = FALSE]
<1>1. answer.agent = Nobody /\ answer.job = 0
    BY DEF NoAnswer
<1> HIDE DEF answer
<1>2. server'[k].answer = answer
    BY DEF Respond, TypeInv, answer
<1> QED
    BY <1>1, <1>2

LEMMA NoAnswerSays == NoAnswer.agent = Nobody /\ NoAnswer.job = 0
BY DEF NoAnswer

LEMMA HandlerAnswers ==
    ASSUME TypeInv, OneUploadAtATime, ServerInv, NEW k \in Conn, Handles(k),
           server'[k].stage \in Answered
    PROVE  AnswerFrom(k)
<1> USE DEF hosts, files, history
<1>b. ASSUME Refuse(k) PROVE AnswerFrom(k)
    BY <1>b, RefuseAnswer DEF Refuse, AnswerFrom
<1>c. ASSUME NEW c, NEW st, SetState(k, c, st, NoAnswer) PROVE AnswerFrom(k)
    BY <1>c, SetAnswer, NoAnswerSays DEF AnswerFrom
<1>1. ASSUME NEW a \in Agent, Pair(k, a) PROVE AnswerFrom(k)
    <2> DEFINE answer == [NoAnswer EXCEPT !.agent = a]
    <2>1. answer.agent = a /\ answer.job = 0
        BY DEF NoAnswer
    <2>2. \E c, st : SetState(k, c, st, answer)
        BY <1>1 DEF Pair
    <2> HIDE DEF answer
    <2> QED
        BY <1>1, <2>1, <2>2, SetAnswer DEF AnswerFrom
<1>2. ASSUME NEW a \in Agent, NEW labels \in SUBSET Label, Relabel(k, a, labels)
      PROVE  AnswerFrom(k)
    BY <1>2, <1>c DEF Relabel
<1>3. ASSUME NEW selector \in Selectors, NEW scope \in Scopes, NEW expected \in Expectations,
             CreateJob(k, selector, scope, expected)
      PROVE  AnswerFrom(k)
    BY <1>3, <1>c DEF CreateJob
<1>5. ASSUME LeaseJob(k) PROVE AnswerFrom(k)
    <2> DEFINE a == server[k].req.agent
               active == {j \in Job : HasActiveLease(state, j, a)}
               candidates == {j \in Job : IsLeaseCandidate(state, j, a)}
               answerOf(st, j) == [NoAnswer EXCEPT !.job = j, !.scope = st.jobs[j].scope]
    <2>1. Asks(k, "lease") /\ a \in Agent /\ state \in ControlState
        BY <1>5, AsksShape DEF LeaseJob, Arrives, TypeInv, TypeOK
    <2>2. \A st, j : answerOf(st, j).agent = Nobody /\ answerOf(st, j).job = j
        BY DEF NoAnswer
    <2>3. ASSUME NEW st, NEW j \in Job, SetState(k, server[k].client, st, answerOf(st, j)),
                 st.jobs[j].status[a] = "leased"
          PROVE  AnswerFrom(k)
        <3> DEFINE answer == answerOf(st, j)
        <3>1. answer.agent = Nobody /\ answer.job = j
            BY <2>2
        <3>2. SetState(k, server[k].client, st, answer)
            BY <2>3
        <3> HIDE DEF answer
        <3>3. server'[k].answer = answer /\ server'[k].client = server[k].client /\ state' = st
            BY <3>2, SetAnswer
        <3> QED
            BY <2>1, <2>3, <3>1, <3>3 DEF AnswerFrom, GivesJob
    <2>4. CASE active # {} /\ SetState(k, server[k].client, state, answerOf(state, Oldest(active)))
        <3>1. Oldest(active) \in active
            BY <2>4, OldestIn
        <3> QED
            BY <2>3, <2>4, <3>1 DEF HasActiveLease, Leased
    <2>5. CASE /\ candidates # {} /\ leases < MaxLeases
               /\ SetState(k, server[k].client,
                           WithStatus(state, Oldest(candidates), a, "leased", leases + 1),
                           answerOf(WithStatus(state, Oldest(candidates), a, "leased", leases + 1),
                                    Oldest(candidates)))
        <3> DEFINE j == Oldest(candidates)
                   st == WithStatus(state, j, a, "leased", leases + 1)
        <3>1. j \in candidates
            BY <2>5, OldestIn
        <3>2. leases + 1 \in 0..MaxLeases /\ "leased" \in AnyStatus /\ j \in Job
            BY <2>5, <3>1, RemoteAgentAssumption, Statuses DEF TypeInv, TypeOK
        <3>3. SetState(k, server[k].client, st, answerOf(st, j))
            BY <2>5
        <3> HIDE DEF j
        <3>4. st.jobs[j].status[a] = "leased"
            BY <2>1, <3>2, WithStatusType
        <3> HIDE DEF st
        <3> QED
            BY <2>3, <3>2, <3>3, <3>4
    <2>6. \/ Refuse(k)
          \/ active # {} /\ SetState(k, server[k].client, state, answerOf(state, Oldest(active)))
          \/ /\ candidates # {} /\ leases < MaxLeases
             /\ SetState(k, server[k].client,
                           WithStatus(state, Oldest(candidates), a, "leased", leases + 1),
                           answerOf(WithStatus(state, Oldest(candidates), a, "leased", leases + 1),
                                    Oldest(candidates)))
          \/ SetState(k, server[k].client, state, NoAnswer)
        BY <1>5 DEF LeaseJob
    <2> QED
        BY <1>b, <1>c, <2>4, <2>5, <2>6
<1>6. ASSUME CompleteJob(k) PROVE AnswerFrom(k)
    BY <1>6, <1>b, <1>c DEF CompleteJob
<1>7. ASSUME ReceiveUpload(k) PROVE AnswerFrom(k)
    <2>1. CASE server'[k].stage = "storing"
        BY <2>1 DEF Answered
    <2>2. \/ Refuse(k) \/ server'[k].stage = "storing"
          \/ \E c, st : SetState(k, c, st, NoAnswer)
        BY <1>7 DEF ReceiveUpload, TypeInv
    <2> QED
        BY <1>b, <1>c, <2>1, <2>2
<1>8. ASSUME NEW s \in Source, StorePayload(k, s) PROVE AnswerFrom(k)
    <2>1. CASE server' = [server EXCEPT ![k].left = @ \ {s}]
        <3>1. server[k].stage = "storing" /\ server[k] \in Storing
            BY <1>8, HandlerShape DEF StorePayload, TypeInv
        <3>2. server'[k].stage = "storing"
            BY <2>1, <3>1 DEF TypeInv, Storing
        <3> QED
            BY <3>2 DEF Answered
    <2>2. \/ server' = [server EXCEPT ![k].left = @ \ {s}]
          \/ \E c, st : SetState(k, c, st, NoAnswer)
        BY <1>8 DEF StorePayload
    <2> QED
        BY <1>c, <2>1, <2>2
<1>9. ASSUME RejectStale(k) \/ StoreFails(k) PROVE AnswerFrom(k)
    BY <1>b, <1>9 DEF RejectStale, StoreFails
<1> QED
    BY <1>1, <1>2, <1>3, <1>5, <1>6, <1>7, <1>8, <1>9 DEF Handles

\* Only the handler that goes on changes, and those that share its file.
LEMMA OthersStay ==
    ASSUME TypeInv, OneUploadAtATime, ServerInv, NEW k \in Conn, Handles(k)
    PROVE  \A i \in Conn \ {k} : server'[i] = server[i]
<1>1. Sets(k) \/ Refuses(k) \/ Starts(k) \/ GoesOn(k)
    BY HandlerOutcome
<1> QED
    BY <1>1 DEF Sets, Refuses, Starts, GoesOn, SetState, Refuse, Respond, TypeInv

LEMMA AnswerMoves ==
    ASSUME TypeInv, OneUploadAtATime, ServerInv, [Next]_vars, ~CrashServer,
           NEW k \in Conn, server'[k].stage \in Answered
    PROVE  AnswerFrom(k)
<1> USE DEF hosts, files, history
<1>a. server[k] \in Handler
    BY DEF TypeInv
<1>b. ASSUME server'[k] = server[k] PROVE AnswerFrom(k)
    BY <1>b DEF AnswerFrom
<1>c. ASSUME NEW i \in Conn, NEW h, server' = [server EXCEPT ![i] = h], h.stage \notin Answered
      PROVE  server'[k] = server[k]
    BY <1>c DEF TypeInv
<1>1. ASSUME NEW c \in Client, NEW i \in Conn, NEW req, Send(c, i, req) PROVE AnswerFrom(k)
    <2> DEFINE h == [stage |-> "arriving", client |-> c, req |-> req]
    <2>1. server' = [server EXCEPT ![i] = h] /\ h.stage \notin Answered
        BY <1>1 DEF Send, Answered
    <2> HIDE DEF h
    <2> QED
        BY <1>b, <1>c, <2>1
<1>2. CASE \E c \in Client, i \in Conn :
               BeginPair(c, i) \/ BeginPull(c, i) \/ SendUpload(c, i) \/ Report(c, i)
    BY <1>1, <1>2 DEF BeginPair, BeginPull, SendUpload, Report
<1>3. ASSUME NEW i \in Conn, Handles(i) PROVE AnswerFrom(k)
    BY <1>b, <1>3, OthersStay, HandlerAnswers
<1>4. ASSUME NEW i \in Conn, OpenTemporary(i) PROVE AnswerFrom(k)
    <2>1. CASE i # k
        BY <1>4, <1>b, <2>1 DEF OpenTemporary, TypeInv
    <2>2. CASE i = k
        <3>1. server[k] \in Saving
            BY <1>4, <1>a, <2>2, HandlerShape DEF OpenTemporary, AtStage
        <3> DEFINE h == [server[k] EXCEPT !.stage = "opened", !.fd = "tmp"]
        <3>2. server'[k] = h
            BY <1>4, <2>2 DEF OpenTemporary, TypeInv
        <3>3. h.answer = server[k].answer /\ h.client = server[k].client /\ server[k].stage \in Answered
            BY <3>1 DEF Saving, Answered
        <3> HIDE DEF h
        <3> QED
            BY <3>2, <3>3 DEF AnswerFrom
    <2> QED
        BY <2>1, <2>2
<1>5. ASSUME NEW i \in Conn, NEW content, RenameTemporary(i, content) PROVE AnswerFrom(k)
    <2>1. CASE tmp = NoFile
        <3>1. Respond(i, [NoAnswer EXCEPT !.ok = FALSE])
            BY <1>5, <2>1 DEF RenameTemporary
        <3>2. i # k => server'[k] = server[k]
            BY <3>1 DEF Respond, TypeInv
        <3> QED
            BY <1>b, <3>1, <3>2, RefuseAnswer DEF AnswerFrom
    <2>2. CASE tmp # NoFile
        <3>1. server'[k] = IF k = i THEN [stage |-> "answering", client |-> server[i].client,
                                          answer |-> server[i].answer]
                           ELSE Renamed(server[k])
            BY <1>5, <2>2 DEF RenameTemporary
        <3>2. CASE k = i
            <4>1. server[k].stage \in Answered
                BY <1>5, <3>2 DEF RenameTemporary, AtStage, Answered
            <4> QED
                BY <3>1, <3>2, <4>1 DEF AnswerFrom
        <3>3. CASE k # i /\ ~(server[k] # NoRequest /\ server[k].stage = "opened")
            BY <1>b, <3>1, <3>3 DEF Renamed
        <3>4. CASE k # i /\ server[k] # NoRequest /\ server[k].stage = "opened"
            <4>1. server[k] \in Saving
                BY <1>a, <3>4, HandlerShape
            <4>2. /\ Renamed(server[k]).answer = server[k].answer
                  /\ Renamed(server[k]).client = server[k].client
                BY <3>4, <4>1 DEF Renamed, Saving
            <4> QED
                BY <3>1, <3>4, <4>2 DEF AnswerFrom, Answered
        <3> QED
            BY <3>2, <3>3, <3>4
    <2> QED
        BY <2>1, <2>2
<1>6. ASSUME NEW i \in Conn, Receive(i) \/ LoseMessage(i) PROVE AnswerFrom(k)
    <2>1. server' = [server EXCEPT ![i] = NoRequest]
        BY <1>6 DEF Receive, LoseMessage
    <2>2. NoRequest.stage \notin Answered
        BY DEF NoRequest, Answered
    <2> QED
        BY <1>b, <1>c, <2>1, <2>2
<1>7. ASSUME NEW i \in Conn, Abandon(i) PROVE AnswerFrom(k)
    <2>1. CASE k # i
        BY <1>7, <1>b, <2>1 DEF Abandon, TypeInv
    <2>2. CASE k = i
        <3> DEFINE h == [server[i] EXCEPT !.client = Nobody]
        <3>1. server'[k] = h /\ ~Free(i)
            BY <1>7, <2>2 DEF Abandon, TypeInv
        <3>2. h.stage = server[i].stage /\ (server[i].stage \in Answered => h.answer = server[i].answer)
            BY <1>a, <2>2, <3>1 DEF Handler, Arriving, Storing, Saving, Answering, Free, Answered
        <3> HIDE DEF h
        <3> QED
            BY <1>7, <2>2, <3>1, <3>2 DEF AnswerFrom
    <2> QED
        BY <2>1, <2>2
<1>8. CASE \E c \in Client :
                 \/ \E scope \in Scopes : BeginUpload(c, scope)
                 \/ \E presence \in [Source -> Presences] : Probe(c, presence)
                 \/ ReadLocalState(c) \/ WriteLocalState(c) \/ CommandFails(c)
                 \/ \E torn \in BOOLEAN : Kill(c, torn)
    <2>1. server' = server
        BY <1>8 DEF BeginUpload, Probe, ReadLocalState, WriteLocalState, CommandFails, Kill
    <2> QED
        BY <1>b, <2>1
<1>9. CASE (\E s \in Source : EditSource(s)) \/ (\E l \in 1..MaxLeases : Expire(l)) \/ UNCHANGED vars
    <2>1. server' = server
        BY <1>9 DEF EditSource, Expire, vars
    <2> QED
        BY <1>b, <2>1
<1> QED
    BY StepGroups, <1>2, <1>3, <1>4, <1>5, <1>6, <1>7, <1>8, <1>9

\* Who is told the agent it is paired as, is told by a request that ends.
LEMMA PairedEnds ==
    ASSUME TypeInv, OneUploadAtATime, ServerInv, [Next]_vars, ~CrashServer,
           NEW c \in Client, NEW a \in Agent, PairedAs(c, a), client'[c].pc = "recording"
    PROVE  \E k \in Conn : Talking(k, c) /\ Names(server[k], a) /\ server'[k] = NoRequest
<1> USE DEF hosts, files, history
<1>1. PICK k \in Conn : /\ Talking(k, c) /\ server[k].stage = "answering"
                        /\ server[k].answer.ok /\ server[k].answer.agent = a
    BY DEF PairedAs
<1>2. client[c].pc = "pairing" /\ Waiting(c) /\ client[c] \in ClientState
    BY <1>1 DEF PairedAs, Talking, Waiting, Free, TypeInv
<1>3. Failed(client[c]) = Idle
    BY <1>2 DEF Failed
<1>4. \E i \in Conn : Receive(i) /\ server[i].client = c
    <2>2. ASSUME NEW i \in Conn, Handles(i) PROVE client' = client
        BY <2>2, HandlerOutcome
    <2>3. client' # client
        BY <1>2
    <2>4. ASSUME NEW i \in Conn, LoseMessage(i) \/ Abandon(i) PROVE FALSE
        <3>1. client'[c] = client[c] \/ client'[c] = Failed(client[c])
            BY <2>4 DEF LoseMessage, Abandon, TypeInv
        <3> QED
            BY <1>2, <1>3, <3>1 DEF Idle
    <2>5. ASSUME NEW d \in Client,
                 \/ \E i \in Conn : BeginPair(d, i) \/ BeginPull(d, i) \/ SendUpload(d, i) \/ Report(d, i)
                 \/ \E scope \in Scopes : BeginUpload(d, scope)
                 \/ \E presence \in [Source -> Presences] : Probe(d, presence)
                 \/ ReadLocalState(d) \/ WriteLocalState(d) \/ CommandFails(d)
                 \/ \E torn \in BOOLEAN : Kill(d, torn)
          PROVE  FALSE
        <3>1. /\ \/ client[d] = Idle \/ ~Waiting(d)
                 \/ client[d].pc \in {"sending", "reporting", "leased", "probing", "recording"}
              /\ \A e \in Client \ {d} : client'[e] = client[e]
            BY <2>5 DEF BeginPair, BeginPull, SendUpload, Report, BeginUpload, Probe, ReadLocalState,
                WriteLocalState, CommandFails, Kill, TypeInv
        <3> QED
            BY <1>2, <3>1 DEF Idle
    <2>6. ASSUME NEW i \in Conn, Receive(i) PROVE server[i].client = c
        BY <1>2, <2>6 DEF Receive, TypeInv
    <2>7. ~((\E s \in Source : EditSource(s)) \/ (\E l \in 1..MaxLeases : Expire(l)) \/ UNCHANGED vars)
        BY <2>3 DEF EditSource, Expire, vars
    <2>8. ASSUME NEW i \in Conn, \/ OpenTemporary(i)
                                 \/ \E content \in {server[i].save, Torn} : RenameTemporary(i, content)
          PROVE  FALSE
        BY <2>3, <2>8 DEF OpenTemporary, RenameTemporary
    <2> QED
        BY StepGroups, <2>2, <2>3, <2>4, <2>5, <2>6, <2>7, <2>8
<1>5. PICK i \in Conn : Receive(i) /\ server[i].client = c
    BY <1>4
<1>6. Talking(i, c) /\ server'[i] = NoRequest
    BY <1>5 DEF Receive, Talking, NoRequest, TypeInv
<1>7. i = k
    BY <1>1, <1>6 DEF TypeInv, TalksInv
<1> QED
    BY <1>1, <1>6, <1>7 DEF Names, Answered

LEMMA PullStep ==
    ASSUME TypeInv, OneUploadAtATime, ServerInv, PullInv, [Next]_vars, ~CrashServer
    PROVE  PullInv'
<1> SUFFICES ASSUME NEW c \in Client, Works(client'[c]) PROVE "pull" \in Runs[c]
    BY DEF PullInv, Works
<1>1. Moves(c)
    BY EveryMove
<1>2. Works(client[c]) \/ "pull" \in Runs[c]
    <2> DEFINE p == client[c]
               q == client'[c]
    <2>1. CASE q.pc \in {"reporting", "completing"}
        BY <1>1, <2>1 DEF Moves, Works, Idle, Reporting, Uploading
    <2>2. CASE q.pc \in {"leasing", "leased"}
        BY <1>1, <2>2 DEF Moves, Works, Idle, Reporting
    <2>3. CASE q.pc = "probing" /\ q.job # 0
        BY <1>1, <2>3 DEF Moves, Works, Idle, Reporting
    <2>4. CASE q.pc = "recording" /\ q.job # 0
        BY <1>1, <2>4 DEF Moves, Works, Idle, Reporting, Uploading
    <2>5. CASE q.pc \in Uploading /\ q.req.job # 0
        BY <1>1, <2>5 DEF Moves, Works, Idle, Reporting, Uploading
    <2> QED
        BY <2>1, <2>2, <2>3, <2>4, <2>5 DEF Works
<1> QED
    BY <1>2 DEF PullInv

LEMMA FreshStep ==
    ASSUME TypeInv, OneUploadAtATime, ServerInv, PairInv, FreshInv, [Next]_vars, ~CrashServer
    PROVE  FreshInv'
<1> DEFINE Now(h, a) == \E k \in Conn : /\ Names(server[k], a) /\ server'[k] = NoRequest
                                        /\ \E c \in Client : HostOf[c] = h /\ Talking(k, c)
           New(k, a) == Pair(k, a) /\ a \notin paired /\ a \in paired'
                           /\ \A i \in Conn \ {k} : server'[i] = server[i]
<1>1. ASSUME NEW h \in Host, NEW a \in Agent, IsAgentOf(h, a, local', client')
      PROVE  IsAgentOf(h, a, local, client) \/ Now(h, a)
    BY <1>1, AgentsBefore, PairedEnds
<1>2. ASSUME NEW k \in Conn, NEW a \in Agent, Names(server'[k], a)
      PROVE  Names(server[k], a) \/ New(k, a)
    <2>1. AnswerFrom(k) /\ a # Nobody
        BY <1>2, AnswerMoves, RemoteAgentAssumption DEF Names
    <2>2. Names(server[k], a) \/ Pair(k, a)
        BY <1>2, <2>1 DEF AnswerFrom, GivesJob, Names
    <2>3. ASSUME Pair(k, a) PROVE New(k, a)
        BY <2>3 DEF Pair, SetState, TypeInv
    <2> QED
        BY <2>2, <2>3
<1>3. paired \subseteq paired'
    <2>1. ASSUME NEW k \in Conn, Handles(k) PROVE paired \subseteq paired'
        BY <2>1 DEF Handles, Pair, Relabel, CreateJob, LeaseJob, CompleteJob, ReceiveUpload,
            StorePayload, RejectStale, StoreFails, history
    <2> QED
        BY <2>1, StepGroups DEF BeginPair, BeginPull, SendUpload, Report, BeginUpload, Probe, ReadLocalState,
               WriteLocalState, CommandFails, Kill, EditSource, Expire, vars, OpenTemporary,
               RenameTemporary, Receive, LoseMessage, Abandon, history
<1>4. \A k \in Conn, a \in Agent : Names(server'[k], a) => server'[k] # NoRequest
    BY DEF Names, NoRequest, Answered
<1>5. ASSUME NEW g \in Host, NEW h \in Host, NEW a \in Agent,
             IsAgentOf(g, a, local', client'), IsAgentOf(h, a, local', client')
      PROVE  g = h
    <2>1. CASE Now(g, a) /\ Now(h, a)
        <3>1. PICK k \in Conn, i \in Conn, c \in Client, d \in Client :
                  /\ Names(server[k], a) /\ HostOf[c] = g /\ Talking(k, c)
                  /\ Names(server[i], a) /\ HostOf[d] = h /\ Talking(i, d)
            BY <2>1
        <3>2. i = k
            BY <3>1 DEF FreshInv
        <3> QED
            BY <3>1, <3>2 DEF Talking
    <2>2. CASE ~(Now(g, a) /\ Now(h, a))
        BY <1>1, <1>5, <2>2 DEF FreshInv
    <2> QED
        BY <2>1, <2>2
<1>6. ASSUME NEW h \in Host, NEW a \in Agent, IsAgentOf(h, a, local', client')
      PROVE  a \in paired'
    BY <1>1, <1>3, <1>6 DEF FreshInv
<1>7. ASSUME NEW k \in Conn, NEW a \in Agent, Names(server'[k], a)
      PROVE  /\ a \in paired'
             /\ \A h \in Host : ~IsAgentOf(h, a, local', client')
             /\ \A i \in Conn : Names(server'[i], a) => i = k
    <2>1. CASE Names(server[k], a)
        <3>1. a \in paired'
            BY <1>3, <2>1 DEF FreshInv
        <3>2. ASSUME NEW h \in Host, IsAgentOf(h, a, local', client') PROVE FALSE
            <4>1. Now(h, a)
                BY <1>1, <2>1, <3>2 DEF FreshInv
            <4>2. server'[k] = NoRequest
                BY <2>1, <4>1 DEF FreshInv
            <4> QED
                BY <1>4, <1>7, <4>2
        <3>3. ASSUME NEW i \in Conn, Names(server'[i], a) PROVE i = k
            <4>1. Names(server[i], a)
                BY <1>2, <2>1, <3>3 DEF FreshInv
            <4> QED
                BY <2>1, <4>1 DEF FreshInv
        <3> QED
            BY <3>1, <3>2, <3>3
    <2>2. CASE New(k, a)
        <3>1. ASSUME NEW h \in Host, IsAgentOf(h, a, local', client') PROVE FALSE
            BY <1>1, <2>2, <3>1 DEF FreshInv
        <3>2. ASSUME NEW i \in Conn, Names(server'[i], a) PROVE i = k
            BY <2>2, <3>2 DEF FreshInv
        <3> QED
            BY <2>2, <3>1, <3>2
    <2> QED
        BY <1>2, <1>7, <2>1, <2>2
<1> QED
    BY <1>5, <1>6, <1>7 DEF FreshInv, IsAgentOf, Names

\* A client that goes on waiting waits for the same.
LEMMA WaitsOn ==
    ASSUME TypeInv, NEW c \in Client, Moves(c), client[c].pc \in {"leasing", "completing"},
           client'[c].pc \in WaitingPc
    PROVE  client'[c] = client[c]
BY DEF Moves, Idle, Reporting, WaitingPc, Uploading

LEMMA AskStep ==
    ASSUME TypeInv, TypeInv', OneUploadAtATime, ServerInv, AskInv, ~MayAbandon, [Next]_vars, ~CrashServer
    PROVE  AskInv'
<1> DEFINE Same(k) == /\ Arrived(server[k]) /\ server'[k].req = server[k].req
                      /\ server'[k].client = server[k].client
<1>1. ASSUME NEW k \in Conn, Arrived(server'[k])
      PROVE  Same(k) \/ \E c \in Client : Sends(k, c)
    BY <1>1, ArriveMoves DEF Abandon
<1>2. ASSUME NEW k \in Conn, Ends(server'[k]) PROVE server'[k].client \in Client
    BY <1>1, <1>2 DEF Ends, Sends, AskInv
<1>3. ASSUME NEW k \in Conn, NEW c \in Client, Talking(k, c)', Arrived(server'[k])
      PROVE  LET r == server'[k].req
                 p == client'[c]
             IN  /\ r.kind = "lease" => p.pc = "leasing" /\ p.agent = r.agent
                 /\ r.kind = "complete" => p.pc = "completing" /\ p.agent = r.agent /\ p.job = r.job
    <2> DEFINE r == server'[k].req
               p == client'[c]
    <2>0. server'[k].client = c /\ Moves(c)
        BY <1>3, EveryMove DEF Talking
    <2>1. CASE Same(k)
        <3>1. Talking(k, c)
            BY <2>0, <2>1 DEF Talking, Arrived, NoRequest
        <3>2. r.kind \in {"lease", "complete"} => client[c].pc \in {"leasing", "completing"}
            BY <2>1, <3>1 DEF AskInv
        <3>3. client'[c].pc \in WaitingPc
            BY <1>3 DEF TypeInv, TalksInv
        <3>4. r.kind \in {"lease", "complete"} => client'[c] = client[c]
            BY <2>0, <3>2, <3>3, WaitsOn
        <3> QED
            BY <2>1, <3>1, <3>4 DEF AskInv
    <2>2. CASE \E d \in Client : Sends(k, d)
        <3>1. Sends(k, c)
            BY <2>0, <2>2 DEF Sends
        <3>2. r.kind = "lease" => p.pc = "leasing" /\ p.agent = r.agent
            BY <3>1 DEF Sends
        <3>3. ASSUME r.kind = "complete"
              PROVE  p.pc = "completing" /\ p.agent = r.agent /\ p.job = r.job
            <4>1. /\ r.agent = client[c].agent /\ r.job = client[c].job
                  /\ client[c].pc = "reporting" /\ p.pc = "completing"
                BY <3>1, <3>3 DEF Sends
            <4>2. p.agent = client[c].agent /\ p.job = client[c].job
                BY <2>0, <4>1 DEF Moves, Idle, Reporting
            <4> QED
                BY <4>1, <4>2
        <3> QED
            BY <3>2, <3>3
    <2> QED
        BY <1>1, <1>3, <2>1, <2>2
<1> QED
    BY <1>2, <1>3 DEF AskInv, Ends, Arrived, Talking

\* Two processes of one agent that work for jobs are the same.
LEMMA WorksAlone ==
    ASSUME OnePuller, PullInv, FreshInv, NEW c \in Client, NEW d \in Client, NEW a \in Agent,
           Works(client[c]), Works(client[d]), WorksAs(client[c], a), WorksAs(client[d], a)
    PROVE  c = d
<1>1. HostOf[c] \in Host /\ HostOf[d] \in Host
    BY RemoteAgentAssumption
<1>2. HostOf[c] = HostOf[d]
    BY <1>1 DEF FreshInv, IsAgentOf
<1> QED
    BY <1>2 DEF PullInv, OnePuller

LEMMA WorksOnIsWork ==
    ASSUME NEW p, NEW j \in Job, NEW a \in Agent, WorksOn(p, j, a)
    PROVE  Works(p) /\ WorksAs(p, a)
BY DEF WorksOn, Works, WorksAs, Job

\* Nobody ends a job that is worked on, or that a client is told.
LEMMA NobodyEnds ==
    ASSUME TypeInv, OnePuller, PullInv, FreshInv, AskInv, NEW k \in Conn, Asks(k, "complete"),
           NEW c \in Client, NEW a \in Agent, Works(client[c]), WorksAs(client[c], a),
           client[c].pc # "completing"
    PROVE  server[k].req.agent # a
<1> SUFFICES ASSUME server[k].req.agent = a PROVE FALSE
    OBVIOUS
<1>1. Ends(server[k]) /\ server[k] # NoRequest
    BY DEF Asks, Ends, Arrived, Free
<1> DEFINE d == server[k].client
<1>2. d \in Client /\ Talking(k, d) /\ Arrived(server[k])
    BY <1>1 DEF AskInv, Talking, Ends
<1>3. client[d].pc = "completing" /\ client[d].agent = a
    BY <1>1, <1>2 DEF AskInv, Ends
<1>4. Works(client[d]) /\ WorksAs(client[d], a)
    BY <1>3 DEF Works, WorksAs
<1>5. c = d
    BY <1>2, <1>4, WorksAlone
<1> QED
    BY <1>3, <1>5

LEMMA LeasedStep ==
    ASSUME TypeInv, TypeInv', OneUploadAtATime, ServerInv, OnePuller, ~MayAbandon, LoneInv,
           [Next]_vars, ~CrashServer
    PROVE  LeasedInv'
<1> USE DEF hosts, files, history
<1> DEFINE Told_(c, j, a) == /\ client[c].pc = "leasing" /\ client[c].agent = a
                             /\ \E k \in Conn : Talking(k, c) /\ Tells(server[k], j)
           Leased_(j, a) == state.jobs[j].status[a] = "leased"
<1>1. PullInv /\ FreshInv /\ AskInv /\ LeasedInv
    BY DEF LoneInv
\* A job that was leased stays so while it is worked on or told.
<1>2. ASSUME NEW c \in Client, NEW j \in Job, NEW a \in Agent,
             WorksOn(client[c], j, a) \/ Told_(c, j, a)
      PROVE  state'.jobs[j].status[a] = "leased"
    <2>1. Leased_(j, a)
        BY <1>1, <1>2 DEF LeasedInv
    <2>2. Works(client[c]) /\ WorksAs(client[c], a) /\ client[c].pc # "completing"
        BY <1>2, WorksOnIsWork DEF WorksOn, Works, WorksAs, Uploading
    <2>3. CASE state' = state
        BY <2>1, <2>3
    <2>4. CASE \E k \in Conn : Handles(k)
        <3>1. PICK k \in Conn : Handles(k)
            BY <2>4
        <3>2. JobMoves(k)
            BY <3>1, HandlerJobs
        <3>3. ~(Asks(k, "complete") /\ server[k].req.agent = a)
            BY <1>1, <2>2, NobodyEnds
        <3> QED
            BY <2>1, <3>2, <3>3 DEF JobMoves
    <2>5. state' = state \/ \E k \in Conn : Handles(k)
        BY StepGroups DEF BeginPair, BeginPull, SendUpload, Report, BeginUpload, Probe, ReadLocalState,
            WriteLocalState, CommandFails, Kill, EditSource, Expire, vars, OpenTemporary,
            RenameTemporary, Receive, LoseMessage, Abandon
    <2> QED
        BY <2>3, <2>4, <2>5
\* Who works on a job did so, or was told it.
<1>3. ASSUME NEW c \in Client, NEW j \in Job, NEW a \in Agent, WorksOn(client'[c], j, a)
      PROVE  WorksOn(client[c], j, a) \/ Told_(c, j, a)
    <2> DEFINE p == client[c]
               q == client'[c]
    <2>0. Moves(c) /\ j # 0
        BY EveryMove DEF Job
    <2>1. CASE q.pc = "leased"
        <3>1. q.job = j /\ q.agent = a
            BY <1>3, <2>1 DEF WorksOn, Uploading
        <3>2. \/ q = p
              \/ \E k \in Conn : /\ Talking(k, c) /\ server[k].stage = "answering"
                                 /\ p.pc = "leasing" /\ server[k].answer.job = j /\ p.agent = a
            BY <2>0, <2>1, <3>1 DEF Moves, Idle, Reporting
        <3> QED
            BY <1>3, <3>2 DEF Tells, Answered
    <2>2. CASE q.pc \in {"probing", "recording"}
        <3>1. q.job = j /\ q.puller = a
            BY <1>3, <2>2 DEF WorksOn, Uploading
        <3> QED
            BY <2>0, <2>2, <3>1 DEF Moves, Idle, Reporting, WorksOn, Uploading
    <2>3. CASE q.pc \in Uploading
        <3>1. q.req.job = j /\ q.puller = a
            BY <1>3, <2>3 DEF WorksOn, Uploading
        <3> QED
            BY <2>0, <2>3, <3>1 DEF Moves, Idle, Reporting, WorksOn, Uploading
    <2> QED
        BY <1>3, <2>1, <2>2, <2>3 DEF WorksOn
\* Who is told a job was told it, or its request is answered now.
<1>4. ASSUME NEW c \in Client, NEW j \in Job, NEW a \in Agent, NEW k \in Conn,
             client'[c].pc = "leasing", client'[c].agent = a, Talking(k, c)', Tells(server'[k], j)
      PROVE  Told_(c, j, a) \/ state'.jobs[j].status[a] = "leased"
    <2>0. AnswerFrom(k) /\ j # 0
        BY <1>4, AnswerMoves DEF Tells, Job
    <2>a. ASSUME server'[k].client = server[k].client, server[k] # NoRequest
          PROVE  Talking(k, c) /\ client'[c] = client[c]
        <3>1. Talking(k, c)
            BY <1>4, <2>a DEF Talking
        <3>2. client[c].pc \in WaitingPc /\ Moves(c)
            BY <3>1, EveryMove DEF TypeInv, TalksInv
        <3>3. client'[c] = client[c]
            BY <1>4, <3>2 DEF Moves, Idle, Reporting, WaitingPc
        <3> QED
            BY <3>1, <3>3
    <2>1. CASE /\ server[k].stage \in Answered /\ server'[k].answer = server[k].answer
               /\ server'[k].client = server[k].client
        <3>1. Tells(server[k], j) /\ server[k] # NoRequest
            BY <1>4, <2>1 DEF Tells, NoRequest, Answered
        <3> QED
            BY <1>4, <2>1, <2>a, <3>1
    <2>2. CASE GivesJob(k)
        <3>1. /\ Arrived(server[k]) /\ server[k].req.kind = "lease" /\ server[k] # NoRequest
              /\ server'[k].client = server[k].client
              /\ state'.jobs[j].status[server[k].req.agent] = "leased"
            BY <1>4, <2>2 DEF GivesJob, Asks, Free, Arrived, Tells
        <3>2. client[c].agent = server[k].req.agent /\ client'[c] = client[c]
            BY <1>1, <2>a, <3>1 DEF AskInv
        <3> QED
            BY <1>4, <3>1, <3>2
    <2> QED
        BY <1>4, <2>0, <2>1, <2>2 DEF AnswerFrom, Abandon, Tells, Job
<1> QED
    BY <1>2, <1>3, <1>4 DEF LeasedInv, WorksOn, Talking, Tells

LEMMA LoneInit == Init => LoneInv
<1> SUFFICES ASSUME Init PROVE LoneInv
    OBVIOUS
<1>1. \A c \in Client : client[c] = Idle
    BY DEF Init
<1>2. \A k \in Conn : server[k] = NoRequest
    BY DEF Init
<1>3. PullInv
    BY <1>1 DEF PullInv, Works, Idle, Uploading
<1>4. FreshInv
    BY <1>1, <1>2 DEF Init, FreshInv, IsAgentOf, WorksAs, Names, Idle, NoRequest, Answered, Carrying, Uploading
<1>5. AskInv
    BY <1>2 DEF AskInv, Ends, Arrived, Talking, NoRequest
<1>6. LeasedInv
    BY <1>1 DEF LeasedInv, WorksOn, Idle, Uploading
<1> QED
    BY <1>3, <1>4, <1>5, <1>6 DEF LoneInv

\* Then an agent collects for a job only while the job is leased to it, and alone.
LEMMA LoneCollects ==
    ASSUME TypeInv, OnePuller, AgentInv, LoneInv
    PROVE  CollectsAlone
<1> SUFFICES ASSUME NEW c \in Client, NEW presence \in [Source -> Presences], Probe(c, presence),
                    client[c].job # 0
             PROVE  /\ ~Claimed(client[c].job, client[c].file.agent)
                    /\ \A d \in Client \ {c} :
                          ~Collecting(client[d], client[c].job, client[c].file.agent)
    BY DEF CollectsAlone
<1> DEFINE j == client[c].job
           a == client[c].file.agent
<1>1. PullInv /\ FreshInv /\ AskInv /\ LeasedInv
    BY DEF LoneInv
<1>2. client[c].pc = "probing" /\ client[c] \in Probing
    <2>1. client[c].pc = "probing" /\ client[c] \in ClientState
        BY DEF Probe, TypeInv
    <2> QED
        BY <2>1, ShapeOf
<1>3. j \in Job /\ a \in Agent /\ client[c].puller \in Agent
    BY <1>2 DEF Probing, JobOrNone, FileState, Cause
<1>4. Works(client[c]) /\ WorksAs(client[c], a) /\ WorksAs(client[c], client[c].puller)
    BY <1>2 DEF Works, WorksAs, Carrying
<1>5. client[c].puller = a
    BY <1>3, <1>4, RemoteAgentAssumption DEF AgentInv, IsAgentOf
<1>6. state.jobs[j].status[a] = "leased"
    BY <1>1, <1>2, <1>3, <1>5 DEF LeasedInv, WorksOn
<1>7. ASSUME NEW d \in Client, Works(client[d]), WorksAs(client[d], a) PROVE d = c
    BY <1>1, <1>3, <1>4, <1>7, WorksAlone
<1>8. j # 0
    OBVIOUS
<1> HIDE DEF j, a
<1>9. \A d \in Client \ {c} : ~Collecting(client[d], j, a)
    <2> SUFFICES ASSUME NEW d \in Client \ {c}, Collecting(client[d], j, a) PROVE FALSE
        OBVIOUS
    <2>1. Works(client[d]) /\ WorksAs(client[d], a)
        BY <1>8 DEF Collecting, Works, WorksAs
    <2> QED
        BY <1>7, <2>1
<1>10. ~Claimed(j, a)
    <2>1. ASSUME NEW d \in Client, Succeeding(client[d], j, a) PROVE FALSE
        <3>1. Works(client[d]) /\ WorksAs(client[d], a)
            BY <1>8, <2>1 DEF Succeeding, Works, WorksAs
        <3>2. d = c
            BY <1>7, <3>1
        <3> QED
            BY <1>2, <2>1, <3>2 DEF Succeeding
    <2>2. ASSUME NEW k \in Conn, ReportsSuccess(server[k], j, a) PROVE FALSE
        <3>1. Asks(k, "complete") /\ server[k].req.agent = a
            BY <2>2 DEF ReportsSuccess, Ends, Arrived, Asks, Free, NoRequest
        <3> QED
            BY <1>1, <1>2, <1>3, <1>4, <3>1, NobodyEnds
    <2> QED
        BY <1>6, <2>1, <2>2 DEF Claimed
<1> QED
    BY <1>9, <1>10 DEF j, a

\* With one process per host that pulls, and no client that stops waiting for a request
\* the server goes on with, an agent always collects alone; so the job that counts as
\* succeeded is stored, for every number of hosts, agents, jobs, leases and retries.
THEOREM SucceededWithOnePuller ==
    ASSUME OneUploadAtATime, MaxCrashes = 0, OnePuller, ~MayAbandon
    PROVE  Spec /\ [][PairsOnce /\ WholeUploads]_vars => []SucceededIsStored
<1>1. Init => AgentInv /\ LoneInv
    BY AgentInit, LoneInit
<1>2. TypeInv /\ TypeInv' /\ ServerInv /\ CrashesCounted /\ OrderInv /\ AgentInv /\ LoneInv
          /\ [Next]_vars => AgentInv' /\ LoneInv'
    <2> SUFFICES ASSUME TypeInv, TypeInv', ServerInv, CrashesCounted, OrderInv, AgentInv, LoneInv,
                        [Next]_vars
                 PROVE  AgentInv' /\ LoneInv'
        OBVIOUS
    <2>1. ~CrashServer
        BY DEF CrashServer, CrashesCounted
    <2>2. PairInv /\ PullInv /\ FreshInv /\ AskInv
        BY DEF OrderInv, LoneInv
    <2>3. AgentInv'
        BY <2>1, <2>2, AgentStep
    <2>4. PullInv'
        BY <2>1, <2>2, PullStep
    <2>5. FreshInv'
        BY <2>1, <2>2, FreshStep
    <2>6. AskInv'
        BY <2>1, <2>2, AskStep
    <2>7. LeasedInv'
        BY <2>1, LeasedStep
    <2> QED
        BY <2>3, <2>4, <2>5, <2>6, <2>7 DEF LoneInv
<1>3. TypeInv /\ AgentInv /\ LoneInv /\ [PairsOnce /\ WholeUploads]_vars
          => [PairsOnce /\ WholeUploads /\ CollectsAlone]_vars
    BY LoneCollects
<1>4. Spec /\ [][PairsOnce /\ WholeUploads]_vars => [](AgentInv /\ LoneInv)
    BY <1>1, <1>2, TypeInvariant, ServerInvariant, CrashesCount, OrderInvariant, PTL DEF Spec
<1>5. Spec /\ [][PairsOnce /\ WholeUploads]_vars
          => [][PairsOnce /\ WholeUploads /\ CollectsAlone]_vars
    BY <1>3, <1>4, TypeInvariant, PTL
<1> QED
    BY <1>5, SucceededAreStored, PTL

=============================================================================
