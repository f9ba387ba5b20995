--------------------------- MODULE EvidenceStore ---------------------------
(***************************************************************************)
(* The evidence side of the cchistory store: content-addressed evidence    *)
(* files, the evidence_blobs rows that name them, and the rows that keep a *)
(* blob alive (captures, parsed spans, the source-file ledger, and the     *)
(* lineage and context of every turn).                                     *)
(*                                                                         *)
(* Several processes (a CLI sync, the API server, a maintenance command)   *)
(* open one store.  SQLite's BEGIN IMMEDIATE admits one writer at a time;  *)
(* what a process read before its transaction may be stale when it commits.*)
(* Evidence files are written inside the owning transaction and removed    *)
(* after it, in a second transaction, so files and rows can only disagree  *)
(* through a crash, a rollback or a race: that is what this module is      *)
(* about.                                                                  *)
(*                                                                         *)
(* A write reads every source file again.  What it finds changed since the *)
(* probe is kept as a snapshot of the parsed records, not as the bytes.    *)
(*                                                                         *)
(* One source file is one session; the turns of a content c are TurnsIn[c].*)
(* A turn's lineage blob and its context cache are written, referenced and *)
(* deleted together and are one address here (TurnSha).  The sixth owner,  *)
(* derived_cache_refs, always stores an empty address and is left out.     *)
(***************************************************************************)
EXTENDS Naturals, FiniteSets

CONSTANTS
    Proc,       \* processes that have the store open
    Runs,       \* [Proc -> SUBSET Operation]: the commands each one may run
    Remote,     \* processes whose uploads come from another machine
    Sees,       \* [Proc -> SUBSET Source]: the ids its host name gives its sources
    Source,     \* source instance ids: one per (host, slot, base dir)
    Path,       \* origin paths
    Content,    \* what a source file may hold
    Slot,       \* slots: a source id changes with the host name, its slot does not
    SlotOf,     \* [Source \cup Path -> Slot]
    TurnNo,     \* positions of a user turn in its session
    TurnsIn,    \* [Content -> SUBSET TurnNo]: the user turns parsed from a content
    Missing,    \* "no file at this path"
    MaxCrashes, \* bound on crashes
    MaxEdits,   \* bound on changes of the source files
    MaxEvents   \* bound on both together

Deletion == {"purge", "gc_candidates", "delete_project"}
Operation == {"sync", "upload", "gc_evidence"} \cup Deletion

Nobody == "nobody"

ASSUME EvidenceStoreAssumption ==
    /\ Nobody \notin Proc
    /\ Runs \in [Proc -> SUBSET Operation]
    /\ Sees \in [Proc -> SUBSET Source]
    /\ SlotOf \in [Source \cup Path -> Slot]
    /\ TurnsIn \in [Content -> SUBSET TurnNo]
    /\ Missing \notin Content
    /\ MaxCrashes \in Nat
    /\ MaxEdits \in Nat
    /\ MaxEvents \in Nat
    /\ Remote \subseteq Proc

----------------------------------------------------------------------------
(* Names of rows and addresses.                                            *)

PathsOf(s) == {p \in Path : SlotOf[p] = SlotOf[s]}

\* Source ids that replaceSourcePayload with allow_host_rekey takes for s.
Peers(s) == {r \in Source : SlotOf[r] = SlotOf[s]}

\* captured_blobs.id: source, path and checksum.
Blob == {b \in [src : Source, path : Path, content : Content] : b.path \in PathsOf(b.src)}

\* What a blob is kept as: its bytes, or a snapshot of the records parsed from it.
Kind == {"source_blob", "record_snapshot"}

\* An evidence_captures row, or the parsed_record_spans of a blob.
Evidence == {e \in [src : Source, path : Path, content : Content, kind : Kind] :
                e.path \in PathsOf(e.src)}

\* A user_turns_v2 row; (src, path, n) is its turn_id, blob_refs = {BlobOf(t)}.
Turn == {t \in [src : Source, path : Path, n : TurnNo, content : Content] :
            t.path \in PathsOf(t.src) /\ t.n \in TurnsIn[t.content]}

\* The blob of a turn or of a piece of evidence.
BlobOf(x) == [src |-> x.src, path |-> x.path, content |-> x.content]

SameId(t, u) == t.src = u.src /\ t.path = u.path /\ t.n = u.n

\* Addresses: raw bytes are shared by equal files; snapshots (which hold the time
\* of capture: those of one blob are one address here), lineage and context are not.
EvidenceSha(e) ==
    [kind |-> e.kind, of |-> IF e.kind = "source_blob" THEN e.content ELSE BlobOf(e)]
TurnSha(t) == [kind |-> "turn", of |-> t]

Sha == [kind : {"source_blob"}, of : Content] \cup [kind : {"record_snapshot"}, of : Blob]
           \cup [kind : {"turn"}, of : Turn]

\* A source_file_ledger row: current_evidence_sha256 and sync_axis.
Ledger == [sha : Sha, axis : {"current", "source_absent"}]
NoLedger == [sha |-> Missing, axis |-> "none"]
LedgerId == {i \in Source \X Path : i[2] \in PathsOf(i[1])}

\* What the probe of one file can end with.
Outcome == {"absent", "skipped", "recaptured", "parsed", "parse_error", "capture_error"}
Listed == Outcome \ {"absent"}
WithBlob == {"recaptured", "parsed", "parse_error"}

NoPayload == [op |-> "none"]
Payload == {pl \in [op : {"sync", "upload"}, src : Source, outcome : [Path -> Outcome],
                    content : [Path -> Content \cup {Missing}], kind : [Path -> Kind],
                    complete : BOOLEAN, merge : BOOLEAN] :
               \A p \in Path :
                   /\ pl.outcome[p] # "absent" => p \in PathsOf(pl.src)
                   /\ pl.outcome[p] \in WithBlob => pl.content[p] \in Content}

NoChoice == [op |-> "none"]
Choice == [op : Deletion,
           doomed : SUBSET Turn, remaining : SUBSET Turn]

----------------------------------------------------------------------------
VARIABLES
    \* the world
    disk,       \* [Path -> Content \cup {Missing}]
    edits, crashes,
    \* the database
    sources,    \* source_instances
    captured,   \* captured_blobs
    captures,   \* evidence_captures
    spans,      \* parsed_record_spans, one element per (source, blob)
    ledger,     \* source_file_ledger
    turns,      \* user_turns_v2 with their turn_context_refs_v2
    rows,       \* evidence_blobs
    lock,       \* the process inside BEGIN IMMEDIATE .. COMMIT
    \* the evidence directory
    file,       \* [Sha -> {"none", "torn", "full"}]
    \* the processes
    pc, payload, choice, todo, unlinks

world == <<disk, edits>>
db == <<sources, captured, captures, spans, ledger, turns, rows>>
procs == <<pc, payload, choice, todo, unlinks>>
vars == <<world, crashes, db, lock, file, procs>>

----------------------------------------------------------------------------
(* Which addresses some owner keeps alive (the query of                    *)
(* pruneUnreferencedEvidenceBlobsInTransaction).                           *)

CurrentLedger(l) == {l[i].sha : i \in {j \in LedgerId : l[j].axis = "current"}}

Owned(cs, ps, ts) == {EvidenceSha(e) : e \in cs \cup ps} \cup {TurnSha(t) : t \in ts}

\* Mutations of Live: the prune query without one of its owners.
LiveWithoutTurns(cs, ps, ts, l) == Owned(cs, ps, {}) \cup CurrentLedger(l)
LiveWithoutLedger(cs, ps, ts, l) == Owned(cs, ps, ts)

Live(cs, ps, ts, l) == Owned(cs, ps, ts) \cup CurrentLedger(l)

LiveShas == Live(captures, spans, turns, ledger)

----------------------------------------------------------------------------
Init ==
    /\ disk \in [Path -> Content \cup {Missing}]
    /\ edits = 0 /\ crashes = 0
    /\ sources = {} /\ captured = {} /\ captures = {} /\ spans = {} /\ turns = {}
    /\ ledger = [i \in LedgerId |-> NoLedger]
    /\ rows = {}
    /\ lock = Nobody
    /\ file = [a \in Sha |-> "none"]
    /\ pc = [q \in Proc |-> "idle"]
    /\ payload = [q \in Proc |-> NoPayload]
    /\ choice = [q \in Proc |-> NoChoice]
    /\ todo = [q \in Proc |-> {}]
    /\ unlinks = [q \in Proc |-> {}]

\* The assistant writes, rewrites or removes a history file.
EditSourceFile(p, c) ==
    /\ edits < MaxEdits /\ edits + crashes < MaxEvents
    /\ disk[p] # c
    /\ disk' = [disk EXCEPT ![p] = c]
    /\ edits' = edits + 1
    /\ UNCHANGED <<crashes, db, lock, file, procs>>

----------------------------------------------------------------------------
(* Probe: outside any transaction.                                         *)

\* The outcomes the probe of path p of source s can report.  A file whose
\* content is already captured may be reused from its metadata ("skipped") or
\* after reading it ("recaptured"); a changed parser profile parses it again.
Outcomes(s, p, fresh) ==
    IF p \notin PathsOf(s) \/ disk[p] = Missing THEN {"absent"}
    ELSE {"parsed", "parse_error", "capture_error"} \cup
         (IF ~fresh /\ [src |-> s, path |-> p, content |-> disk[p]] \in captured
          THEN {"skipped", "recaptured"} ELSE {})

\* Only files that fail: the source's status is "error".
AllFail(outcome) ==
    /\ \E p \in Path : outcome[p] \in {"parse_error", "capture_error"}
    /\ \A p \in Path : outcome[p] # "parsed"

\* The command probes source s.  A sync first looks whether s is stored and, if
\* so, reads what it can reuse; when its probe throws it goes on with an empty
\* payload.  An upload (API probe with persist, TUI, remote agent) reuses nothing
\* and trusts its inventory only if the source did not fail.
ProbeSource(q, s, op, outcome, complete) ==
    LET stored == op = "sync" /\ s \in sources IN
    /\ op \in {"sync", "upload"} \cap Runs[q] /\ s \in Sees[q]
    /\ pc[q] = "idle" \/ (pc[q] = "synced" /\ op = "sync")
    /\ \/ \A p \in Path : outcome[p] \in Outcomes(s, p, ~stored)
       \/ op = "sync" /\ ~complete /\ \A p \in Path : outcome[p] = "absent"
    /\ complete => IF op = "sync" THEN stored ELSE ~AllFail(outcome)
    /\ pc' = [pc EXCEPT ![q] = IF op = "sync" THEN "decided" ELSE "probed"]
    /\ payload' = [payload EXCEPT ![q] =
           [op |-> op, src |-> s, outcome |-> outcome,
            content |-> [p \in Path |-> IF outcome[p] \in WithBlob THEN disk[p] ELSE Missing],
            kind |-> [p \in Path |-> "source_blob"],
            complete |-> complete, merge |-> stored]]
    /\ UNCHANGED <<world, crashes, db, lock, file, choice, todo, unlinks>>

\* An upload looks whether the source is stored after its probe.
CheckStored(q) ==
    /\ pc[q] = "probed"
    /\ pc' = [pc EXCEPT ![q] = "decided"]
    /\ payload' = [payload EXCEPT ![q].merge = payload[q].src \in sources]
    /\ UNCHANGED <<world, crashes, db, lock, file, choice, todo, unlinks>>

----------------------------------------------------------------------------
(* The source write transaction.                                           *)

With(pl, outcomes) == {p \in Path : pl.outcome[p] \in outcomes}

BlobsIn(pl, outcomes) ==
    {[src |-> pl.src, path |-> p, content |-> pl.content[p]] : p \in With(pl, outcomes)}

EvidenceAt(pl, p) ==
    [src |-> pl.src, path |-> p, content |-> pl.content[p], kind |-> pl.kind[p]]

EvidenceIn(pl, outcomes) == {EvidenceAt(pl, p) : p \in With(pl, outcomes)}

TurnsOf(pl) ==
    UNION {{[src |-> pl.src, path |-> p, n |-> n, content |-> pl.content[p]]
               : n \in TurnsIn[pl.content[p]]} : p \in With(pl, {"parsed"})}

ShasIn(pl) ==
    {EvidenceSha(e) : e \in EvidenceIn(pl, WithBlob)} \cup {TurnSha(t) : t \in TurnsOf(pl)}

\* isMetadataOnlySyncPayload: no blob and no loss audit.
MetadataOnly(pl) == pl.op = "sync" /\ With(pl, WithBlob \cup {"capture_error"}) = {}

\* The files that still hold what the probe read.
Unchanged(pl) == {p \in Path : disk[p] = pl.content[p]}

\* materializeBlobEvidence: a blob is stored as its bytes if they were captured
\* before or can be read again with the probed checksum, else as a snapshot.
Materialized(pl, readable) ==
    [pl EXCEPT !.kind = [p \in Path |->
        IF \/ p \notin With(pl, WithBlob) \/ p \in readable
           \/ [EvidenceAt(pl, p) EXCEPT !.kind = "source_blob"] \in captures
        THEN "source_blob" ELSE "record_snapshot"]]

\* BEGIN IMMEDIATE; the files are read here: the origin paths again, or what another
\* machine sent with its upload, which may be all, some or none of the raw blobs.
BeginSourceWrite(q, readable) ==
    LET pl == Materialized(payload[q], readable) IN
    /\ pc[q] = "decided" /\ ~MetadataOnly(payload[q])
    /\ lock = Nobody
    /\ pl.op = "sync" \/ q \notin Remote => readable = Unchanged(pl)
    /\ lock' = q
    /\ pc' = [pc EXCEPT ![q] = "materializing"]
    /\ payload' = [payload EXCEPT ![q] = pl]
    /\ todo' = [todo EXCEPT ![q] = ShasIn(pl)]
    /\ UNCHANGED <<world, crashes, db, file, choice, unlinks>>

\* materializeBytes for every address of the payload: create the file
\* exclusively, or accept an existing one after checking size and digest.
Materialize(q) ==
    /\ pc[q] = "materializing"
    /\ \A a \in todo[q] : file[a] # "torn"
    /\ file' = [a \in Sha |-> IF a \in todo[q] THEN "full" ELSE file[a]]
    /\ pc' = [pc EXCEPT ![q] = "writing"]
    /\ todo' = [todo EXCEPT ![q] = {}]
    /\ UNCHANGED <<world, crashes, db, lock, payload, choice, unlinks>>

\* An existing file does not match its address: verifyExistingEvidenceFile
\* throws, the transaction rolls back and the error ends the command.  What was
\* written before it stays.
IntegrityMismatch(q, written) ==
    /\ pc[q] = "materializing"
    /\ \E a \in todo[q] : file[a] = "torn"
    /\ written \subseteq {a \in todo[q] : file[a] # "torn"}
    /\ file' = [a \in Sha |-> IF a \in written THEN "full" ELSE file[a]]
    /\ lock' = Nobody
    /\ pc' = [pc EXCEPT ![q] = "idle"]
    /\ payload' = [payload EXCEPT ![q] = NoPayload]
    /\ todo' = [todo EXCEPT ![q] = {}]
    /\ UNCHANGED <<world, crashes, db, choice, unlinks>>

\* Mutation of Unlinking: the sync forgets the prune it deferred.
UnlinkingForgets(dropped, insync) == IF dropped = {} THEN "idle" ELSE "unlinking"

\* After COMMIT: with nothing to unlink the command goes on at once; a sync
\* still owes its final prune.
Unlinking(dropped, insync) ==
    IF dropped = {} THEN IF insync THEN "synced" ELSE "idle"
    ELSE IF insync THEN "unlinking_sync" ELSE "unlinking"

AfterWrite(q, pl, dropped) ==
    /\ lock' = Nobody
    /\ pc' = [pc EXCEPT ![q] = Unlinking(dropped, pl.op = "sync")]
    /\ payload' = [payload EXCEPT ![q] = NoPayload]
    /\ unlinks' = [unlinks EXCEPT ![q] = dropped]
    /\ UNCHANGED <<world, crashes, file, choice, todo>>

\* The ledger row of each parsed path is rewritten; a path whose blob is not
\* authoritative (or is preserved) keeps the row it has and gets one only if it
\* has none.
LedgerAfter(pl, before) ==
    [i \in LedgerId |->
        IF i[1] = pl.src /\ (\/ i[2] \in With(pl, {"parsed"})
                             \/ i[2] \in With(pl, WithBlob) /\ before[i] = NoLedger)
        THEN [sha |-> EvidenceSha(EvidenceAt(pl, i[2])), axis |-> "current"]
        ELSE before[i]]

\* Mutation of Reconciled: a file that has no ledger row gets a presence too.
ReconciledUnseen(s, observed) ==
    [i \in LedgerId |->
        IF i[1] = s
        THEN [ledger[i] EXCEPT !.axis = IF i[2] \in observed THEN "current" ELSE "source_absent"]
        ELSE ledger[i]]

\* reconcileSourcePresenceInTransaction on the ledger rows of source s.
Reconciled(s, observed) ==
    [i \in LedgerId |->
        IF i[1] = s /\ ledger[i] # NoLedger
        THEN [ledger[i] EXCEPT !.axis = IF i[2] \in observed THEN "current" ELSE "source_absent"]
        ELSE ledger[i]]

LedgerBefore(pl) == IF pl.complete THEN Reconciled(pl.src, With(pl, Listed)) ELSE ledger

\* updateSourceSyncMetadata: a sync that brings no file records the source, even
\* one it has not stored yet, and the presence of its files.
UpdateSourceSyncMetadata(q) ==
    LET pl == payload[q] IN
    /\ pc[q] = "decided" /\ MetadataOnly(pl)
    /\ lock = Nobody
    /\ sources' = sources \cup {pl.src}
    /\ ledger' = LedgerBefore(pl)
    /\ UNCHANGED <<captured, captures, spans, turns, rows>>
    /\ AfterWrite(q, pl, {})

\* The rows an upload prunes when it has written; a sync defers that to its end.
Leftover(pl, written) == IF pl.op = "upload" THEN written \ LiveShas' ELSE {}

\* mergeSourcePayloadByOriginPath.
MergeSourcePayload(q) ==
    LET pl == payload[q]
        replaced(x) == x.src = pl.src /\ x.path \in With(pl, {"parsed"})
        written == rows \cup ShasIn(pl)
    IN
    /\ pc[q] = "writing" /\ pl.merge
    /\ sources' = sources \cup {pl.src}
    /\ captured' = {b \in captured : ~replaced(b)} \cup BlobsIn(pl, {"parsed", "parse_error"})
    /\ captures' = captures \cup EvidenceIn(pl, WithBlob)
    /\ spans' = {e \in spans : ~replaced(e)} \cup EvidenceIn(pl, {"parsed"})
    /\ turns' = {t \in turns : ~replaced(t)} \cup TurnsOf(pl)
    /\ ledger' = LedgerAfter(pl, LedgerBefore(pl))
    /\ rows' = written \ Leftover(pl, written)
    /\ AfterWrite(q, pl, Leftover(pl, written))

\* The stored sources that a host rekey replaces.
Retired(pl) == (Peers(pl.src) \cap sources) \ {pl.src}

\* replaceSourcePayload with allow_host_rekey: every stored source of the same
\* slot is deleted; those under another id are retired (their captures go, the
\* prune runs at once and its addresses are queued for unlinking); then the
\* payload is written.
ReplaceSourcePayload(q) ==
    LET pl == payload[q]
        retired == Retired(pl)
        gone(x) == x.src \in retired \cup {pl.src}
        keptTurns == {t \in turns : ~gone(t)}
        retiredLedger == [i \in LedgerId |->
            IF i[1] \in retired /\ ledger[i] # NoLedger
            THEN [ledger[i] EXCEPT !.axis = "source_absent"] ELSE ledger[i]]
        keptCaptures == {e \in captures : e.src \notin retired}
        pruned == IF retired = {} THEN {}
                  ELSE rows \ Live(keptCaptures, {e \in spans : e.src \notin retired},
                                   keptTurns, retiredLedger)
        before == [i \in LedgerId |->
            IF i[1] = pl.src /\ ledger[i] # NoLedger /\ i[2] \notin With(pl, WithBlob)
            THEN [ledger[i] EXCEPT !.axis = "source_absent"] ELSE retiredLedger[i]]
        written == (rows \ pruned) \cup ShasIn(pl)
    IN
    /\ pc[q] = "writing" /\ ~pl.merge
    /\ sources' = (sources \ retired) \cup {pl.src}
    /\ captured' = {b \in captured : ~gone(b)} \cup BlobsIn(pl, WithBlob)
    /\ captures' = keptCaptures \cup EvidenceIn(pl, WithBlob)
    /\ spans' = {e \in spans : ~gone(e)} \cup EvidenceIn(pl, {"parsed"})
    /\ turns' = keptTurns \cup TurnsOf(pl)
    /\ ledger' = LedgerAfter(pl, before)
    /\ rows' = written \ Leftover(pl, written)
    /\ AfterWrite(q, pl, pruned \cup Leftover(pl, written))

----------------------------------------------------------------------------
(* Pruning rows and unlinking files.                                       *)

\* Mutation of UnlinkEvidenceBlobFiles: unlink without looking for the row.
UnlinkUnchecked(q, failed) ==
    /\ pc[q] \in {"unlinking", "unlinking_sync"}
    /\ lock = Nobody \/ unlinks[q] = {}
    /\ failed \subseteq unlinks[q]
    /\ file' = [a \in Sha |-> IF a \in unlinks[q] \ failed THEN "none" ELSE file[a]]
    /\ unlinks' = [unlinks EXCEPT ![q] = {}]
    /\ pc' = [pc EXCEPT ![q] = IF @ = "unlinking_sync" THEN "synced" ELSE "idle"]
    /\ UNCHANGED <<world, crashes, db, lock, payload, choice, todo>>

\* Between COMMIT and the unlink other writers may bring an address back, so
\* the row is looked up again under BEGIN IMMEDIATE.  An unlink may fail (the
\* error is only a warning): those files stay.
UnlinkEvidenceBlobFiles(q, failed) ==
    /\ pc[q] \in {"unlinking", "unlinking_sync"}
    /\ lock = Nobody \/ unlinks[q] = {}
    /\ failed \subseteq unlinks[q]
    /\ file' = [a \in Sha |->
           IF a \in unlinks[q] \ (rows \cup failed) THEN "none" ELSE file[a]]
    /\ unlinks' = [unlinks EXCEPT ![q] = {}]
    /\ pc' = [pc EXCEPT ![q] = IF @ = "unlinking_sync" THEN "synced" ELSE "idle"]
    /\ UNCHANGED <<world, crashes, db, lock, payload, choice, todo>>

\* Mutation of PruneEvidenceBlobs: captures of absent files are dropped too.
PruneAbsentEvidence(q) ==
    /\ pc[q] = "synced" \/ (pc[q] = "idle" /\ "gc_evidence" \in Runs[q])
    /\ lock = Nobody
    /\ captures' = {e \in captures : ledger[<<e.src, e.path>>].axis = "current"}
    /\ rows' = rows \cap Live(captures', spans, turns, ledger)
    /\ unlinks' = [unlinks EXCEPT ![q] = rows \ rows']
    /\ pc' = [pc EXCEPT ![q] = "unlinking"]
    /\ UNCHANGED <<world, crashes, sources, captured, spans, ledger, turns,
                   lock, file, payload, choice, todo>>

\* pruneEvidenceBlobsNow, owed by a sync after its last source; and
\* pruneOrphanEvidence, the gc-evidence maintenance command.
PruneEvidenceBlobs(q) ==
    /\ pc[q] = "synced" \/ (pc[q] = "idle" /\ "gc_evidence" \in Runs[q])
    /\ lock = Nobody
    /\ rows' = rows \cap LiveShas
    /\ unlinks' = [unlinks EXCEPT ![q] = rows \ LiveShas]
    /\ pc' = [pc EXCEPT ![q] = "unlinking"]
    /\ UNCHANGED <<world, crashes, sources, captured, captures, spans, ledger, turns,
                   lock, file, payload, choice, todo>>

----------------------------------------------------------------------------
(* Explicit deletion: the turns are read before the transaction.           *)

\* purgeTurn reads one turn, garbageCollectCandidateTurns a list of candidates,
\* deleteProject the project's turns and all others.
SelectTurns(q, op, doomed) ==
    /\ op \in Deletion \cap Runs[q]
    /\ pc[q] = "idle"
    /\ doomed \subseteq turns /\ doomed # {}
    /\ op = "purge" => Cardinality(doomed) = 1
    /\ pc' = [pc EXCEPT ![q] = "selected"]
    /\ choice' = [choice EXCEPT ![q] =
           [op |-> op, doomed |-> doomed,
            remaining |-> IF op = "delete_project" THEN turns \ doomed ELSE {}]]
    /\ UNCHANGED <<world, crashes, db, lock, file, payload, todo, unlinks>>

\* purgeTurnInTransaction deletes by turn id and throws if there is no row.
HasRow(t) == \E u \in turns : SameId(t, u)
Without(doomed) == {u \in turns : \A t \in doomed : ~SameId(t, u)}

\* The evidence of blobs that keep a turn.
Spared(evidence, orphans) == {e \in evidence : BlobOf(e) \notin orphans}

\* cascadeEvidenceCleanupForOrphanedBlobsInTransaction; with no blob to clean
\* the callers do not prune either.
Cascade(q, orphans, kept) ==
    LET left == Live(Spared(captures, orphans), Spared(spans, orphans), kept, ledger)
        pruned == IF orphans = {} THEN {} ELSE rows \ left
    IN  /\ turns' = kept
        /\ captured' = captured \ orphans
        /\ captures' = Spared(captures, orphans)
        /\ spans' = Spared(spans, orphans)
        /\ rows' = rows \ pruned
        /\ unlinks' = [unlinks EXCEPT ![q] = pruned]
        /\ pc' = [pc EXCEPT ![q] = Unlinking(pruned, FALSE)]
        /\ choice' = [choice EXCEPT ![q] = NoChoice]
        /\ UNCHANGED <<world, crashes, sources, ledger, lock, file, payload, todo>>

\* loadReferencedBlobIdsBySource runs inside the transaction and refuses to
\* decide when a remaining turn's lineage file cannot be read.
LineageReadable(doomed, kept) ==
    \A t \in kept : (\E d \in doomed : d.src = t.src) => file[TurnSha(t)] = "full"

\* Mutation of PurgeTurns: every blob of a purged turn counts as orphaned.
PurgeTurnsUnchecked(q) ==
    LET doomed == choice[q].doomed
    IN  /\ pc[q] = "selected" /\ choice[q].op \in {"purge", "gc_candidates"}
        /\ lock = Nobody
        /\ \A t \in doomed : HasRow(t)
        /\ Cascade(q, {BlobOf(t) : t \in doomed}, Without(doomed))

PurgeTurns(q) ==
    LET doomed == choice[q].doomed
        kept == Without(doomed)
    IN  /\ pc[q] = "selected" /\ choice[q].op \in {"purge", "gc_candidates"}
        /\ lock = Nobody
        /\ \A t \in doomed : HasRow(t)
        /\ LineageReadable(doomed, kept)
        /\ Cascade(q, {BlobOf(t) : t \in doomed} \ {BlobOf(t) : t \in kept}, kept)

\* performDeleteProject decides which blobs are orphaned from the turns it read
\* before BEGIN.
DeleteProject(q) ==
    LET doomed == choice[q].doomed
    IN  /\ pc[q] = "selected" /\ choice[q].op = "delete_project"
        /\ lock = Nobody
        /\ \A t \in doomed : HasRow(t)
        /\ Cascade(q, {BlobOf(t) : t \in doomed} \ {BlobOf(t) : t \in choice[q].remaining},
                   Without(doomed))

\* A selected turn is gone, or lineage is unreadable: throw and roll back.
DeletionFails(q) ==
    /\ pc[q] = "selected"
    /\ lock = Nobody
    /\ \/ \E t \in choice[q].doomed : ~HasRow(t)
       \/ /\ choice[q].op # "delete_project"
          /\ ~LineageReadable(choice[q].doomed, Without(choice[q].doomed))
    /\ pc' = [pc EXCEPT ![q] = "idle"]
    /\ choice' = [choice EXCEPT ![q] = NoChoice]
    /\ UNCHANGED <<world, crashes, db, lock, file, payload, todo, unlinks>>

----------------------------------------------------------------------------
(* Crashes.  SQLite rolls the open transaction back; files stay as they    *)
(* are, and a file being written may stay torn at its final address (that  *)
(* of a snapshot is never computed again: its torn file is left out).      *)

Crash(q, written, torn) ==
    /\ crashes < MaxCrashes /\ edits + crashes < MaxEvents
    /\ pc[q] # "idle"
    /\ written \subseteq todo[q] /\ torn \subseteq todo[q] \ written
    /\ \A a \in written \cup torn : file[a] # "torn"
    /\ \A a \in torn : file[a] = "none" /\ a.kind # "record_snapshot"
    /\ Cardinality(torn) <= 1
    /\ crashes' = crashes + 1
    /\ file' = [a \in Sha |-> IF a \in written THEN "full"
                             ELSE IF a \in torn THEN "torn" ELSE file[a]]
    /\ lock' = IF lock = q THEN Nobody ELSE lock
    /\ pc' = [pc EXCEPT ![q] = "idle"]
    /\ payload' = [payload EXCEPT ![q] = NoPayload]
    /\ choice' = [choice EXCEPT ![q] = NoChoice]
    /\ todo' = [todo EXCEPT ![q] = {}]
    /\ unlinks' = [unlinks EXCEPT ![q] = {}]
    /\ UNCHANGED <<world, db>>

----------------------------------------------------------------------------
\* A process takes its next step.
Step(q) ==
    \/ \E s \in Source, op \in {"sync", "upload"}, complete \in BOOLEAN,
          outcome \in [Path -> Outcome] : ProbeSource(q, s, op, outcome, complete)
    \/ CheckStored(q)
    \/ \E readable \in SUBSET Path : BeginSourceWrite(q, readable)
    \/ Materialize(q)
    \/ \E written \in SUBSET todo[q] : IntegrityMismatch(q, written)
    \/ UpdateSourceSyncMetadata(q)
    \/ MergeSourcePayload(q)
    \/ ReplaceSourcePayload(q)
    \/ \E failed \in SUBSET unlinks[q] : UnlinkEvidenceBlobFiles(q, failed)
    \/ PruneEvidenceBlobs(q)
    \/ \E op \in Deletion, doomed \in SUBSET turns : SelectTurns(q, op, doomed)
    \/ PurgeTurns(q)
    \/ DeleteProject(q)
    \/ DeletionFails(q)
    \/ \E written, torn \in SUBSET todo[q] : Crash(q, written, torn)

Next ==
    \/ \E p \in Path, c \in Content \cup {Missing} : EditSourceFile(p, c)
    \/ \E q \in Proc : Step(q)

Spec == Init /\ [][Next]_vars

----------------------------------------------------------------------------
(* Properties.                                                             *)

\* Every variable ranges over the values the tables and the handlers allow.
TypeOK ==
    /\ disk \in [Path -> Content \cup {Missing}]
    /\ edits \in Nat /\ crashes \in Nat
    /\ sources \subseteq Source
    /\ captured \subseteq Blob /\ captures \subseteq Evidence /\ spans \subseteq Evidence
    /\ ledger \in [LedgerId -> Ledger \cup {NoLedger}]
    /\ turns \subseteq Turn
    /\ rows \subseteq Sha
    /\ lock \in Proc \cup {Nobody}
    /\ file \in [Sha -> {"none", "torn", "full"}]
    /\ pc \in [Proc -> {"idle", "probed", "decided", "materializing", "writing", "unlinking",
                        "unlinking_sync", "synced", "selected"}]
    /\ payload \in [Proc -> Payload \cup {NoPayload}]
    /\ choice \in [Proc -> Choice \cup {NoChoice}]
    /\ todo \in [Proc -> SUBSET Sha]
    /\ unlinks \in [Proc -> SUBSET Sha]

\* Every evidence_blobs row has its complete file, whatever writers, prunes,
\* late unlinks and crashes happened in between: an address brought back while
\* another process still has it queued for unlinking keeps its file.
RowsHaveFiles == \A a \in rows : file[a] = "full"

\* The addresses that captures, spans, turn lineage and turn contexts hold are
\* rows, so no prune of one owner's leftovers takes another owner's evidence.
OwnersHaveRows == Owned(captures, spans, turns) \subseteq rows

\* What the captures hold of a blob.
EvidenceOf(b) == {e \in captures : BlobOf(e) = b}

\* A turn can be traced back: its source blob is captured, and everything that was
\* captured of it (the bytes, or the snapshot of a file that changed before the
\* write read it again), its lineage and its context are on disk.  Deleting other
\* turns of the same file must not take them away.
TurnsKeepTheirEvidence ==
    \A t \in turns :
        /\ EvidenceOf(BlobOf(t)) # {} /\ file[TurnSha(t)] = "full"
        /\ \A e \in EvidenceOf(BlobOf(t)) : file[EvidenceSha(e)] = "full"

\* Evidence is given up only by an explicit deletion of turns or when a whole
\* source identity is retired: no sync, upload, absence or garbage collection
\* drops a capture.
CapturesAreRetained ==
    [][\A e \in captures :
          \/ e \in captures'
          \/ e.src \in sources /\ e.src \notin sources'
          \/ \E q \in Proc : PurgeTurns(q) \/ DeleteProject(q)]_vars

\* The pruning a sync defers is owed, not forgotten: where no turn is deleted and
\* no process crashed, a store at rest holds no row that nothing refers to.
DeferredPruneIsPaid ==
    (crashes = 0 /\ \A q \in Proc : pc[q] = "idle") => rows \subseteq LiveShas

\* The evidence of a file that the store calls current before and after a step is
\* not taken by that step: not by the prune of another process, not by the purge
\* of every turn of the file, not by the retirement of a host identity that shared
\* its bytes.
CurrentEvidenceStays ==
    [][\A a \in rows : a \in CurrentLedger(ledger) \cap CurrentLedger(ledger') => a \in rows']_vars
=============================================================================
