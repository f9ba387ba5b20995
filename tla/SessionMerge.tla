---------------------------- MODULE SessionMerge ----------------------------
(***************************************************************************)
(* How cchistory sync turns the JSONL files of one source into sessions    *)
(* and turns, incrementally.  Several files may contribute to one session. *)
(* A sync inventories the files, decides per file whether what it stored   *)
(* before can be reused, appended to or must be parsed again, asks for the *)
(* other contributors of the sessions it touches, and then writes: first   *)
(* the parser rows (captured_blobs, raw_records, sessions), then, in the   *)
(* same transaction, the V2 side (source_file_ledger, parsed_record_spans, *)
(* user_turns_v2).                                                         *)
(*                                                                         *)
(* A content is what a file may hold, and is also the name of its blob: a  *)
(* blob id is made of the path and the checksum, and every content belongs *)
(* to one path.  A message is its time stamp.  Fragments and atoms follow  *)
(* their record and are not separate.  Evidence files and their collection *)
(* are the subject of EvidenceStore.                                       *)
(***************************************************************************)
EXTENDS Naturals, FiniteSets

CONSTANTS
    Path,       \* files the source may have
    Content,    \* what a file may hold
    Session,    \* session ids
    PathOf,     \* [Content -> Path]
    SessionOf,  \* [Content -> Session]: the session a full parse finds
    MsgsOf,     \* [Content -> SUBSET Nat]: its messages
    SizeOf,     \* [Content -> Nat]: distinct for the contents of one path
    Bad,        \* contents one line of which does not parse
    Users,      \* messages written by the user; the others are replies
    Gone,       \* "no file at this path"
    Thin,       \* the source has more blobs than the preload threshold
    MaxEdits,   \* bound on changes of the files
    MaxUpgrades \* bound on new parser versions

ASSUME SessionMergeAssumption ==
    /\ PathOf \in [Content -> Path]
    /\ SessionOf \in [Content -> Session]
    /\ MsgsOf \in [Content -> SUBSET Nat]
    /\ \A c \in Content : MsgsOf[c] # {} /\ IsFiniteSet(MsgsOf[c])
    /\ SizeOf \in [Content -> Nat]
    /\ \A c, d \in Content : PathOf[c] = PathOf[d] /\ SizeOf[c] = SizeOf[d] => c = d
    /\ Bad \subseteq Content
    /\ Gone \notin Content
    /\ Thin \in BOOLEAN
    /\ MaxEdits \in Nat
    /\ MaxUpgrades \in Nat

VARIABLES
    file,       \* file[p]: its content and its modification time
    parser,     \* version of the parser the installed program has
    stage,      \* parser_version of the stored stage_runs; 0: no source stored
    status,     \* sync_status; "blocked" is the error "Shared session update retained..."
    captured,   \* captured_blobs: file_modified_at of a blob, 0 when there is no row
    records,    \* raw_records
    audits,     \* loss_audits record_json_parse_failed, named by their blob
    sessions,   \* sessions.sync_axis, "none" when there is no row
    ledger,     \* source_file_ledger of a path
    spans,      \* parsed_record_spans
    turns       \* user_turns_v2

store == <<stage, status, captured, records, audits, sessions, ledger, spans, turns>>
vars == <<file, parser, store>>

Times == 0 .. MaxEdits + 1
Versions == 1 .. MaxUpgrades + 1
Axis == {"current", "source_absent"}
NoLedger == [blob |-> Gone, refs |-> {}, axis |-> "current"]

Msgs == UNION {MsgsOf[c] : c \in Content}
Record == [session : Session, blob : Content, msg : Msgs, by : Versions]
Span == [session : Session, blob : Content, msg : Msgs]
Turn == [session : Session, n : Nat, msgs : SUBSET Msgs, blobs : SUBSET Content, axis : Axis]

SameRecord(r, q) == r.session = q.session /\ r.blob = q.blob /\ r.msg = q.msg
SameTurn(t, u) == t.session = u.session /\ t.n = u.n
PathsOf(blobs) == {PathOf[b] : b \in blobs}
SessionsOf(rs) == {r.session : r \in rs}

----------------------------------------------------------------------------
(* Projection of records to turns.                                         *)

Before(S, m) == {x \in S : x < m}

\* User messages with no reply between them are one submission.
Starts(msgs) ==
    {u \in msgs \cap Users :
        \A v \in Before(msgs \cap Users, u) : \E a \in msgs \ Users : v < a /\ a < u}

\* Mutation of Project: a turn is numbered within its file.
ProjectByFile(rs) ==
    {[session |-> r.session, n |-> Cardinality({q \in rs : q.blob = r.blob /\ q.msg \in Before(Users, r.msg)}),
      msgs |-> {r.msg}, blobs |-> {r.blob}, axis |-> "current"] : r \in {q \in rs : q.msg \in Users}}

\* The turns of the sessions in rs.  A turn is named by its position, and its
\* lineage holds the blobs of its submission and of what follows it.
Project(rs) ==
    LET MsgsIn(s) == {r.msg : r \in {q \in rs : q.session = s}}
        TurnMsgs(s, u) ==
            {m \in MsgsIn(s) : m >= u /\ \A v \in Starts(MsgsIn(s)) : v > u => m < v}
        TurnFrom(s, u) ==
            [session |-> s, n |-> Cardinality(Before(Starts(MsgsIn(s)), u)),
             msgs |-> TurnMsgs(s, u),
             blobs |-> {r.blob : r \in {q \in rs : q.session = s /\ q.msg \in TurnMsgs(s, u)}},
             axis |-> "current"]
    IN  UNION {{TurnFrom(s, u) : u \in Starts(MsgsIn(s))} : s \in SessionsOf(rs)}

----------------------------------------------------------------------------
(* What the store offers for reuse.                                        *)

Stored(p) == {c \in Content : PathOf[c] = p /\ captured[c] # 0}
RecordsOf(p) == {r \in records : r.blob \in Stored(p)}
Tail(p) == CHOOSE c \in Stored(p) : \A d \in Stored(p) : SizeOf[d] <= SizeOf[c]
StatsMatch(p) == Stored(p) # {} /\ captured[Tail(p)] = file[p].time

\* reuseProfileMatches, previousPayloadMatchesProfile.
ProfileMatches == stage = parser

\* A blob of a payload is its content and the modification time it carries.
Kept(blobs) == {<<b, captured[b]>> : b \in blobs}
BlobIds(payload) == {b[1] : b \in payload.blobs}

Found(blobs, recs, auds, skip, fail) ==
    [blobs |-> blobs, records |-> recs, audits |-> auds, skipped |-> skip, failed |-> fail]

----------------------------------------------------------------------------
(* The probe of one file.  heavy holds the paths whose stored rows were    *)
(* loaded; of the others only the tail blob is known.                      *)

HasPrevious(p, heavy) == ProfileMatches /\ p \in heavy /\ RecordsOf(p) # {}

Reuse(p, heavy, skip) ==
    IF ~HasPrevious(p, heavy)
    THEN Found(IF StatsMatch(p) THEN {} ELSE {<<file[p].content, file[p].time>>}, {}, {}, {p}, {})
    ELSE Found(Kept(Stored(p) \ {Tail(p)}) \cup {<<Tail(p), file[p].time>>},
               RecordsOf(p), audits \cap Stored(p), IF skip THEN {p} ELSE {}, {})

CanAppend(p, heavy) ==
    LET c == file[p].content
        prev == SessionsOf(RecordsOf(p))
    IN  /\ HasPrevious(p, heavy)
        /\ Cardinality(prev) = 1
        /\ SizeOf[c] > SizeOf[Tail(p)]
        /\ MsgsOf[Tail(p)] \subseteq MsgsOf[c]
        /\ MsgsOf[c] \ MsgsOf[Tail(p)] # {}
        /\ \A b \in audits \cap Stored(p) : SessionOf[b] \notin prev

\* The appended lines join the session of the earlier ones, whatever they say.
Append(p) ==
    LET c == file[p].content
        s == CHOOSE x \in SessionsOf(RecordsOf(p)) : TRUE
    IN  Found(Kept({r.blob : r \in RecordsOf(p)}) \cup {<<c, file[p].time>>},
              RecordsOf(p) \cup {[session |-> s, blob |-> c, msg |-> m, by |-> parser] :
                                    m \in MsgsOf[c] \ MsgsOf[Tail(p)]},
              Bad \cap {c}, {}, {})

\* Mutation of Parse: the rows carry the stored parser version, not the running one.
ParseByStored(p) ==
    LET c == file[p].content
    IN  Found({<<c, file[p].time>>},
              {[session |-> SessionOf[c], blob |-> c, msg |-> m, by |-> stage] : m \in MsgsOf[c]},
              Bad \cap {c}, {}, {})

Parse(p) ==
    LET c == file[p].content
    IN  Found({<<c, file[p].time>>},
              {[session |-> SessionOf[c], blob |-> c, msg |-> m, by |-> parser] : m \in MsgsOf[c]},
              Bad \cap {c}, {}, {})

\* broken: files that cannot be read now; old: files older than the last sync's day.
ProbeFile(p, heavy, broken, old) ==
    IF p \in broken THEN Found({}, {}, {}, {}, {p})
    ELSE IF ProfileMatches /\ Stored(p) # {} /\ Tail(p) = file[p].content
    THEN Reuse(p, heavy, StatsMatch(p) \/ old)
    ELSE IF CanAppend(p, heavy) THEN Append(p) ELSE Parse(p)

Join(F) ==
    Found(UNION {f.blobs : f \in F}, UNION {f.records : f \in F}, UNION {f.audits : f \in F},
          UNION {f.skipped : f \in F}, UNION {f.failed : f \in F})

Retain(p) == Found(Kept(Stored(p)), RecordsOf(p), audits \cap Stored(p), {}, {})

Probe(in, heavy, retained) ==
    Join({ProbeFile(p, heavy, in.broken, in.old) : p \in in.files} \cup {Retain(p) : p \in retained})

----------------------------------------------------------------------------
(* syncSelectedSources: an attempt widens until every contributor of the   *)
(* sessions it touches is parsed, reused or set aside.                     *)

Contributors(payload, affected) ==
    LET rows == {r \in records : captured[r.blob] # 0}
        touched == SessionsOf(payload.records)
                       \cup SessionsOf({r \in rows : PathOf[r.blob] \in affected})
    IN  PathsOf({r.blob : r \in {q \in rows : q.session \in touched}})

Reusable(in) == ProfileMatches /\ in.files # {}

\* Contributors the inventory did not list: set aside when that shows them
\* absent and their rows can be reused, unvisited otherwise.
Outside(a, in, affected) == Contributors(a.payload, affected) \ in.files
Unvisited(a, in, affected) ==
    a.unvisited \cup (IF in.complete /\ Reusable(in) THEN {} ELSE Outside(a, in, affected))
Retained(a, in, affected) ==
    a.retained \cup (IF in.complete /\ Reusable(in) THEN Outside(a, in, affected) ELSE {})

Loaded(a) == {p \in a.heavy : RecordsOf(p) # {}}
Missing(a, in, affected) ==
    ((Contributors(a.payload, affected) \cap (in.files \cup Retained(a, in, affected))) \ Loaded(a))
        \ PathsOf({r.blob : r \in a.payload.records})

\* What the k-th expansion loads: at last everything.
Load(a, in, affected, k) ==
    IF k = 3 THEN in.files \cup Retained(a, in, affected) ELSE Loaded(a) \cup Missing(a, in, affected)

\* One more probe, with what was missing.
ProbeAgain(a, in, affected, k) ==
    LET heavy == Load(a, in, affected, k)
        retained == Retained(a, in, affected)
        unvisited == Unvisited(a, in, affected)
        again == Probe(in, heavy, retained)
    IN  [heavy |-> heavy, retained |-> retained, unvisited |-> unvisited, done |-> FALSE,
         preserved |-> retained \cup again.skipped,
         refused |-> unvisited \cup again.failed, payload |-> again]

Settle(a, in, affected) ==
    [a EXCEPT !.retained = Retained(a, in, affected), !.unvisited = Unvisited(a, in, affected),
              !.done = TRUE, !.preserved = @ \cup Retained(a, in, affected),
              !.refused = @ \cup Unvisited(a, in, affected)]

Widen(a, in, affected, k) ==
    IF a.done THEN a
    ELSE IF Reusable(in) /\ Missing(a, in, affected) # {} THEN ProbeAgain(a, in, affected, k)
    ELSE Settle(a, in, affected)

Attempt(in) ==
    LET heavy == IF ProfileMatches /\ ~Thin
                 THEN {p \in in.files : p \in in.broken \/ ~StatsMatch(p)} ELSE {}
        first == Probe(in, heavy, {})
        affected == PathsOf(BlobIds(first)) \ first.skipped
        a0 == [heavy |-> heavy, retained |-> {}, unvisited |-> {}, done |-> FALSE,
               preserved |-> first.skipped, refused |-> first.failed, payload |-> first]
        a == Widen(Widen(Widen(a0, in, affected, 1), in, affected, 2), in, affected, 3)
    IN  [a EXCEPT !.refused = @ \cup PathsOf(a.payload.audits \cap BlobIds(a.payload))]

Observed(a, in) == in.files \cup (PathsOf(BlobIds(a.payload)) \ a.retained)

\* finalizeSourcePayload, and what the sync makes of it.
ProbedStatus(a, in) ==
    IF a.payload.records # {} THEN "healthy"
    ELSE IF a.payload.failed # {} THEN "error"
    ELSE IF /\ ProfileMatches
            /\ \E p \in (a.preserved \cap in.files) \ a.refused :
                  \E r \in RecordsOf(p) : sessions[r.session] # "none"
    THEN "healthy" ELSE "stale"

Blocked(a) == a.unvisited # {} /\ a.payload.records # {}
\* Mutation of Certifies: files that could not be read do not matter.
CertifiesUnread(a, in) == in.complete /\ ProbedStatus(a, in) # "error" /\ ~Blocked(a)

Certifies(a, in) ==
    in.complete /\ a.refused = {} /\ ProbedStatus(a, in) # "error" /\ ~Blocked(a)
NextStatus(a, in) ==
    IF Blocked(a) \/ (~Certifies(a, in) /\ status = "blocked") THEN "blocked" ELSE ProbedStatus(a, in)
NextStage(a, in) == IF Certifies(a, in) THEN parser ELSE stage

----------------------------------------------------------------------------
(* mergeSourcePayloadByOriginPath.  W names what is stored, then written.  *)

Current == [captured |-> captured, records |-> records, audits |-> audits,
            sessions |-> sessions, ledger |-> ledger, spans |-> spans, turns |-> turns]

SessionsAt(W, paths) ==
    SessionsOf({r \in W.records : W.captured[r.blob] # 0 /\ PathOf[r.blob] \in paths})

\* Mutation of Plan: no file is kept back for the sake of one that was not read.
PlanUnvetoed(a, in) ==
    LET incoming == PathsOf(BlobIds(a.payload))
        open == (incoming \ a.preserved) \ a.refused
        changed == SessionsAt(Current, open) \cup SessionsOf({r \in a.payload.records :
                       PathOf[r.blob] \notin a.preserved \cup a.refused})
    IN  [replace |-> open, preserve |-> a.preserved, changed |-> changed, shared |-> {}]

\* What the parser rows say of an attempt: paths it replaces, and sessions.
Plan(a, in) ==
    LET incoming == PathsOf(BlobIds(a.payload))
        open == (incoming \ a.preserved) \ a.refused
        replace == {p \in open :
            SessionsAt(Current, {p}) \cap SessionsAt(Current, a.refused) = {}}
        absent == IF in.complete
                  THEN {p \in Path : Stored(p) # {}} \ Observed(a, in) ELSE {}
    IN  [replace |-> replace,
         preserve |-> a.preserved \cup (open \ replace),
         changed |-> SessionsAt(Current, replace) \cup SessionsOf({r \in a.payload.records :
                PathOf[r.blob] \notin a.preserved \cup a.refused \cup (open \ replace)}),
         shared |-> SessionsAt(Current, a.refused \cup absent)]

\* Mutation of Drops: of a session that is kept back for the sake of one file
\* nothing is dropped.
DropsWhole(p, old, r) == r.session \in p.changed \ p.shared

\* deleteSessionScopedRows, or for a shared session deleteOriginScopedRows.
Drops(p, old, r) == r.session \in p.changed /\ (r.session \notin p.shared \/ r.blob \in old)

\* Blobs of the replaced paths, and what is written: records, and blobs of a
\* path that is preserved only for the records that name them.
Old(p) == {c \in Content : captured[c] # 0 /\ PathOf[c] \in p.replace}
Incoming(a, p) ==
    {r \in a.payload.records :
        /\ PathOf[r.blob] \notin a.refused
        /\ PathOf[r.blob] \notin p.preserve \/ r.session \in p.changed}
BlobsWritten(a, p) ==
    {b \in a.payload.blobs :
        PathOf[b[1]] \notin p.preserve \/ \E r \in Incoming(a, p) : r.blob = b[1]}

MergeRows(a, in) ==
    LET p == Plan(a, in)
        old == Old(p)
        whole == p.changed \ p.shared
        kept == {r \in records : ~Drops(p, old, r)}
        incoming == Incoming(a, p)
        blobs == BlobsWritten(a, p)
        written == {b[1] : b \in blobs}
    IN  [Current EXCEPT
            !.records = {r \in kept : ~\E q \in incoming : SameRecord(r, q)} \cup incoming,
            !.captured = [c \in Content |->
                IF c \in written THEN (CHOOSE b \in blobs : b[1] = c)[2]
                ELSE IF c \in old THEN 0 ELSE captured[c]],
            !.audits = {b \in audits : SessionOf[b] \notin whole /\ b \notin old}
                           \cup {b \in a.payload.audits : b \in written \/ SessionOf[b] \in p.changed},
            !.sessions = [s \in Session |->
                IF s \in SessionsOf(a.payload.records) \cap p.changed THEN "current"
                ELSE IF s \in whole THEN "none" ELSE sessions[s]],
            !.turns = {t \in turns : t.session \notin whole}]

----------------------------------------------------------------------------
(* writeStorageBoundaryV2Sidecars, merge mode.                             *)

HasLedger(W, p) == W.ledger[p].blob # Gone

\* selectLedgerSessionRefsByOriginPaths: the advisory list and the rows.
LedgerSessions(W, paths) ==
    UNION {W.ledger[p].refs
              \cup SessionsOf({r \in W.records : r.blob = W.ledger[p].blob})
              \cup SessionsOf({x \in W.spans : x.blob = W.ledger[p].blob}) : p \in paths}

\* reconcileSourcePresenceInTransaction.
Reconcile(W, observed) ==
    LET axisOf(p) == IF p \in observed THEN "current" ELSE "source_absent"
        known == {p \in Path : HasLedger(W, p)}
        axis(s, other) ==
            LET from == {p \in known : s \in LedgerSessions(W, {p})}
            IN  IF from = {} THEN other
                ELSE IF from \cap observed # {} THEN "current" ELSE "source_absent"
    IN  [W EXCEPT
            !.ledger = [p \in Path |-> IF p \in known
                            THEN [W.ledger[p] EXCEPT !.axis = axisOf(p)] ELSE W.ledger[p]],
            !.sessions = [s \in Session |-> IF W.sessions[s] = "none"
                            THEN "none" ELSE axis(s, W.sessions[s])],
            !.turns = {[t EXCEPT !.axis = axis(t.session, t.axis)] : t \in W.turns}]

\* upsertSourceFileLedger for the last blob of a path in the payload.
UpsertLedger(W, payload, keep) ==
    [p \in Path |->
        LET blobs == {b \in BlobIds(payload) : PathOf[b] = p}
            last == CHOOSE b \in blobs : \A d \in blobs : SizeOf[d] <= SizeOf[b]
        IN  IF blobs = {} \/ (p \in keep /\ HasLedger(W, p)) THEN W.ledger[p]
            ELSE [blob |-> last, axis |-> "current",
                  refs |-> SessionsOf({r \in payload.records : r.blob = last})]]

SpanOf(r) == [session |-> r.session, blob |-> r.blob, msg |-> r.msg]

\* Turns of a shared session whose lineage reaches both a replaced and a kept
\* blob stay as they are, unless the new turn covers what is kept.
Protects(t, replacing, incoming) ==
    /\ t.blobs \cap replacing # {} /\ ~(t.blobs \subseteq replacing)
    /\ ~\E u \in incoming : SameTurn(u, t) /\ t.blobs \ replacing \subseteq u.blobs

\* Paths that are refused, for themselves or for the session they share with
\* one that is; the paths that are not written; the blobs that are replaced.
RefusedSessions(W, a) == LedgerSessions(W, a.refused)
Refused(W, a) ==
    a.refused \cup {p \in (PathsOf(BlobIds(a.payload)) \ a.preserved) \ a.refused :
                       LedgerSessions(W, {p}) \cap RefusedSessions(W, a) # {}}
Closed(W, a) == a.preserved \cup Refused(W, a)
Replacing(W, a) ==
    {W.ledger[p].blob : p \in {q \in PathsOf(BlobIds(a.payload)) \ Closed(W, a) : HasLedger(W, q)}}

\* Sessions that are written, and sessions that keep rows of another file.
Rewritten(W, a) ==
    SessionsOf({r \in a.payload.records : PathOf[r.blob] \notin Closed(W, a)})
        \cup SessionsOf({x \in W.spans : x.blob \in Replacing(W, a)})
Shared(W, a, in) ==
    LedgerSessions(W, Refused(W, a) \cup
        (IF in.complete THEN {p \in Path : HasLedger(W, p)} \ Observed(a, in) ELSE {}))

\* prepareMergeCurrentState: the rows it deletes.
Clear(W, a, in) ==
    LET rewritten == Rewritten(W, a)
        shared == Shared(W, a, in)
        replacing == Replacing(W, a)
        dropped == {t \in W.turns : t.session \in rewritten
                        /\ (t.session \in shared =>
                                t.blobs \subseteq replacing /\ t.blobs # {})}
        lost == {x \in W.spans : x.session \in rewritten \ shared
                     \/ (rewritten \cap shared # {} /\ x.blob \in replacing)}
    IN  [W EXCEPT !.turns = @ \ dropped, !.spans = @ \ lost]

\* The turns to write: none of a refused file or session, none in the place of
\* a turn that is protected.
NewTurns(W, a, in) ==
    LET incoming == Project(a.payload.records)
        protected == {t \in W.turns : t.session \in Rewritten(W, a) \cap Shared(W, a, in)
                        /\ Protects(t, Replacing(W, a), incoming)}
    IN  {t \in incoming :
            /\ ~\E b \in t.blobs : PathOf[b] \in Refused(W, a)
            /\ t.session \notin RefusedSessions(W, a)
            /\ ~\E u \in protected : SameTurn(t, u)}

WriteSidecars(W, a, in) ==
    LET X == Clear(W, a, in)
        Y == IF in.complete THEN Reconcile(X, Observed(a, in)) ELSE X
        new == NewTurns(W, a, in)
    IN  [Y EXCEPT
            !.ledger = UpsertLedger(Y, a.payload, Closed(W, a)),
            !.spans = @ \cup {SpanOf(r) : r \in {q \in a.payload.records :
                PathOf[q.blob] \notin Closed(W, a) /\ q.session \notin RefusedSessions(W, a)}},
            !.turns = {t \in @ : ~\E u \in new : SameTurn(t, u)} \cup new]

----------------------------------------------------------------------------
(* Writing the outcome of a sync.                                          *)

\* replaceSourcePayload: the first sync of the source stores all of it.
Replace(a) ==
    LET shown == {r \in a.payload.records : PathOf[r.blob] \notin a.refused}
        new == {t \in Project(a.payload.records) : \A b \in t.blobs : PathOf[b] \notin a.refused}
    IN  [captured |-> [c \in Content |-> IF c \in BlobIds(a.payload) THEN file[PathOf[c]].time ELSE 0],
         records |-> a.payload.records,
         audits |-> a.payload.audits,
         sessions |-> [s \in Session |->
                          IF s \in SessionsOf(a.payload.records) THEN "current" ELSE "none"],
         ledger |-> UpsertLedger(Current, a.payload, {}),
         spans |-> {SpanOf(r) : r \in shown},
         turns |-> new]

MetadataOnly(a) == a.payload.blobs = {} /\ a.payload.failed = {}

Outcome(a, in) ==
    IF stage # 0 /\ MetadataOnly(a)
    THEN IF in.complete /\ NextStatus(a, in) \notin {"error", "blocked"}
         THEN Reconcile(Current, Observed(a, in)) ELSE Current
    ELSE IF stage # 0 THEN WriteSidecars(MergeRows(a, in), a, in)
    ELSE Replace(a)

\* The inputs of a sync: the files its inventory lists, whether that inventory
\* is complete, the ones it fails to read and the age of those it can reuse.
SyncInputs ==
    LET there == {p \in Path : file[p].content # Gone}
    IN  {in \in [files : SUBSET there, complete : BOOLEAN, broken : SUBSET there, old : BOOLEAN] :
            /\ in.complete => in.files = there
            /\ in.broken \subseteq in.files
            /\ in.old => \E p \in in.files : ~StatsMatch(p) /\ captured[file[p].content] # 0}

SyncWith(in) ==
    \E a \in {Attempt(in)} : \E W \in {Outcome(a, in)} :
        /\ stage # 0 \/ in.files # {}
        /\ captured' = W.captured
        /\ records' = W.records
        /\ audits' = W.audits
        /\ sessions' = W.sessions
        /\ ledger' = W.ledger
        /\ spans' = W.spans
        /\ turns' = W.turns
        /\ stage' = IF stage = 0 THEN parser ELSE NextStage(a, in)
        /\ status' = IF stage = 0 THEN ProbedStatus(a, in) ELSE NextStatus(a, in)
        /\ UNCHANGED <<file, parser>>

Sync == \E in \in SyncInputs : SyncWith(in)

----------------------------------------------------------------------------
(* The surroundings.                                                       *)

Edits == LET times == {file[p].time : p \in Path}
         IN  CHOOSE t \in times : \A u \in times : u <= t

\* The tool that owns the file appends to it, rewrites it or restores it.
Write(p, c) ==
    /\ PathOf[c] = p
    /\ Edits <= MaxEdits
    /\ file' = [file EXCEPT ![p] = [content |-> c, time |-> Edits + 1]]
    /\ UNCHANGED <<parser, store>>

Remove(p) ==
    /\ file[p].content # Gone
    /\ file' = [file EXCEPT ![p].content = Gone]
    /\ UNCHANGED <<parser, store>>

\* A new version of the program changes the parser profile.
Upgrade ==
    /\ parser <= MaxUpgrades
    /\ parser' = parser + 1
    /\ UNCHANGED <<file, store>>

Init ==
    /\ file \in {f \in [Path -> [content : Content \cup {Gone}, time : {1}]] :
                    \A p \in Path : f[p].content # Gone => PathOf[f[p].content] = p}
    /\ parser = 1
    /\ stage = 0
    /\ status = "none"
    /\ captured = [c \in Content |-> 0]
    /\ records = {}
    /\ audits = {}
    /\ sessions = [s \in Session |-> "none"]
    /\ ledger = [p \in Path |-> NoLedger]
    /\ spans = {}
    /\ turns = {}

Next ==
    \/ Sync
    \/ \E p \in Path, c \in Content : Write(p, c)
    \/ \E p \in Path : Remove(p)
    \/ Upgrade

Spec == Init /\ [][Next]_vars

----------------------------------------------------------------------------
(* Properties.                                                             *)

StoredPayload ==
    /\ captured \in [Content -> Times]
    /\ records \subseteq Record
    /\ audits \subseteq Content
    /\ sessions \in [Session -> Axis \cup {"none"}]
    /\ ledger \in [Path -> [blob : Content \cup {Gone}, refs : SUBSET Session, axis : Axis]]
    /\ spans \subseteq Span
    /\ turns \subseteq Turn

TypeOK ==
    /\ file \in [Path -> [content : Content \cup {Gone}, time : Times]]
    /\ parser \in Versions
    /\ stage \in Versions \cup {0}
    /\ status \in {"none", "healthy", "stale", "error", "blocked"}
    /\ StoredPayload

\* The parser rows of one source hang together after every merge, although
\* records, blobs and sessions are rewritten by different rules: a record names a
\* stored blob and a stored session, and a session row has a record, unless its
\* one file has a line that does not parse: then the session is written and the
\* records are not (source-payload.ts 312-319, 373).
RowsHangTogether ==
    /\ \A r \in records : captured[r.blob] # 0 /\ sessions[r.session] # "none"
    /\ \A s \in Session : sessions[s] # "none" =>
          s \in SessionsOf(records) \/ \E b \in Bad : SessionOf[b] = s

\* A record and a turn are each stored once under their id.
OneRowPerId ==
    /\ \A r, q \in records : SameRecord(r, q) => r = q
    /\ \A t, u \in turns : SameTurn(t, u) => t = u

Shown == (UNION {t.msgs : t \in turns}) \cap Users

\* The retention contract (docs/contracts/source-absence-retention.md), as the
\* specification Retention: a prompt that is shown leaves the turns only when
\* its file is there, or was last seen, without it.
RetentionOfPrompts == INSTANCE Retention WITH
    PromptsOf <- [c \in Content |-> MsgsOf[c] \cap Users],
    held <- [p \in Path |-> file[p].content],
    seen <- [p \in Path |-> ledger[p].blob],
    shown <- Shown
PromptsAreRetained == RetentionOfPrompts!Spec

\* The same of every message in the parser rows: a message leaves raw_records
\* only when its file is there without it.
RecordsLeaveByRewrite ==
    [][\A r \in records :
        (\A q \in records' : q.msg # r.msg) =>
            LET c == file[PathOf[r.blob]].content IN c # Gone /\ r.msg \notin MsgsOf[c]]_vars

\* A sync that certifies the stored rows as the work of the present parser has
\* left no row of an older parser for a file that is there (sync.ts:722-726).
CertifiedIsCurrent ==
    [][stage # parser /\ stage' = parser =>
        \A r \in records' : file[PathOf[r.blob]].content # Gone => r.by = parser]_vars
=============================================================================
