# cchistory in TLA+

cchistory reads the histories that AI coding assistants leave on a machine, turns
them into sessions and user turns, and keeps them, with the bytes they came from,
in a local store that is meant never to lose evidence. This directory holds TLA+
models of the parts of it where several processes, requests, crashes, lost
messages or repeated partial scans meet, TLC configurations that check them on small
instances, and proofs for every instance.

    tlc -workers 2 -config EvidenceStore_purge.cfg MCEvidenceStore   # any run below
    tlapm EvidenceStore_proofs.tla                                  # and RemoteAgent_, RemoteAgentState_,
                                                                    # StorageBoundary_, ReadIndex_, Bundles_,
                                                                    # CodexSync_, SessionMerge_proofs

`PROJECT.json` lists components, runs, mutations, the lines every definition stands
for, hazards, findings and theorems.


## 1. The system

Several processes share one store directory (a SQLite file plus a tree of
content-addressed evidence files and raw snapshots): the CLI's one-shot commands, the
API server, the TUI. CLI processes on other hosts collect there and upload to the API
server over HTTP. Nothing else is shared; all coordination is SQLite's write lock, the
server's event loop, and two JSON state files.

| Component (source) | State | Operations | Hard behaviour | Correct when | Module |
|---|---|---|---|---|---|
| **Evidence store** (`storage/src/evidence-store.ts`, `db/schema.ts`) | evidence files; `evidence_blobs`, `captured_blobs`, `evidence_captures`, `parsed_record_spans`, `source_file_ledger`, turn lineage and context | write a payload's bytes and rows, reconcile presence, prune rows, unlink files | files and rows cannot change atomically; one address has many owners | a row has its file, an owner has its row, a prune takes nothing that is owned | EvidenceStore |
| **Storage facade** (`internal/storage.ts`, `internal/gc.ts`, `internal/source-identity.ts`) | transactions, the list of files to unlink after COMMIT | merge, replace, purge turn, collect candidates, delete project, gc-evidence | decisions taken from what was read before BEGIN | explicit deletion takes what it names and no more | EvidenceStore |
| **Ingest** (`ingest/source-payload.ts`, V2 sidecars of `evidence-store.ts`) | rows of a source in two generations of tables | merge or replace the payload of a source | partial probes, shared sessions, vetoed reductions | prompts and records leave only when their file was rewritten without them | SessionMerge, CodexSync |
| **Sync** (`cli/commands/sync.ts`) | per-source payload, loaded metadata, deferred prune | inventory, probe, widen, merge, batches, final prune | reuse by file times; batches over files that change; a prune owed until the end | what is certified as current is; every deferred prune is paid; the store catches up with the files | SessionMerge, CodexSync, EvidenceStore |
| **Probe** (`source-adapters/core/probe.ts`, captures of `core/parser.ts`) | none | read files, decide reuse, append, parse, failure | files change or vanish while they are read | reuse only what is captured, show every line once | SessionMerge, CodexSync, EvidenceStore |
| **Remote control plane** (`api/remote-agent/*`, `api/routes/agents.ts`) | agents, generations, jobs, leases in memory; `remote-agents.json` | pair, heartbeat, labels, create/lease/complete job, upload | overlapping requests over awaits, restart, late answers | one lease per agent, no older upload over a newer one, what was answered survives | RemoteAgent |
| **Remote client** (`cli/commands/agent.ts`, `cli/remote-agent.ts`) | `agent-state.json` per host | pair, upload, schedule, pull | lost answers, retries, kill in the middle of a write | records only what is stored; jobs end | RemoteAgent |
| **API server** (`api/app.ts`, `routes/data.ts`, `routes/sources.ts`) | the runtime above | start, probe-and-replace, reads | start after a crash | reads back what it saved | RemoteAgent, EvidenceStore, Bundles |
| **Migration** (`storage/migration-*.ts`, `cli/commands/migration.ts`) | markers in `migration_state`, V1 and V2 turn tables | run, validate, compact, reset, handoff | death between statements, two processes, syncs beside it | no turn lost by backfill or drop; markers get an outcome | StorageBoundary |
| **Resolved read index and cache** (`db/resolved-read-index.ts`, `internal/storage.ts`) | index tables, ready flag, generation, maps in memory | refresh, validate, read | cache validity against other processes and open transactions | a read never mixes versions | ReadIndex |
| **Bundles and raw snapshots** (`cli/bundle.ts`, `raw-gc.ts`, `cli/commands/maintenance.ts`) | files under `raw/`, rows that name them | import, upload, replay, gc | files copied before the rows; references read before an async walk | a named file exists; damaged bundles apply nothing | Bundles |
| **Linker, parsing, platforms, queries, interfaces, scripts** | none or one user's screen | reads | many formats | pure functions | not modelled (section 11) |

The modules do not import each other, except that SessionMerge instantiates Retention:
each takes the others' part as one atomic step with its effect. EvidenceStore
abstracts from which turns a merge keeps, which SessionMerge computes; SessionMerge
abstracts from files and locks, which EvidenceStore has; CodexSync has no
session of two files and keeps instead each read, batch and crash between them; ReadIndex takes every
write of either as a new version of the tables; StorageBoundary takes a sync as any
change of V2 turns, Bundles as any change of the rows that name raw files.


## 2. EvidenceStore

Processes that each run commands from a set `Runs[q]` on one store.

| TLA+ | code |
|---|---|
| `disk` | the assistant's history files |
| `file` | files under `evidence/`, by address: none, torn (died in the exclusive write at its final address), full |
| `rows` | `evidence_blobs` |
| `sources`, `captured`, `captures`, `spans`, `ledger`, `turns` | `source_instances`, `captured_blobs`, `evidence_captures` (with their `capture_kind`), `parsed_record_spans`, `source_file_ledger` (with `current_evidence_sha256`), `user_turns_v2` with lineage and context |
| `lock` | SQLite's write lock, while it is held over several steps (BEGIN IMMEDIATE ... COMMIT of a source write) |
| `pc`, `payload`, `choice`, `todo`, `unlinks` | where each process is, what it probed, the turns it read, files yet to write, files to remove after COMMIT |

A sync is `ProbeSource`, then `BeginSourceWrite`, `Materialize`,
`MergeSourcePayload` or `ReplaceSourcePayload` (or `UpdateSourceSyncMetadata` for an
unchanged source, or `IntegrityMismatch`), then `UnlinkEvidenceBlobFiles`, and in the
end `PruneEvidenceBlobs` and another unlink. `BeginSourceWrite` reads the files again, as
`materializeBlobEvidence` does: a blob that was captured before, or whose file still has the
checksum the probe saw (`Unchanged`), is stored as its bytes; otherwise a snapshot of the
parsed records is stored, under an address of its own, and capture, spans and ledger name
that (`Materialized`). A process in `Remote` writes what another machine sent, which may be all,
some or none of the raw blobs (`readable`); no run has one, the proofs cover it. An upload (API probe with persist, TUI, remote
agent) looks whether the source is stored after its probe (`CheckStored`) and prunes
in the write itself. gc-evidence is `PruneEvidenceBlobs` alone. A deletion is
`SelectTurns` (reads before BEGIN), then `PurgeTurns`, `DeleteProject` or
`DeletionFails`, then the unlink. `Crash` may hit any process that is not idle, also
in the middle of writing its files.

Transactions other than the source write hold the lock from BEGIN to COMMIT
without touching a file, so each is one step that needs the lock free. Unlinking
takes the lock once more, reads which rows exist and removes only files without a
row: one step as well.

What is abstract: one source file is one session, and the turns of a content `c` are
`TurnsIn[c]`; an address is the identity of what it digests (digests do not
collide); a turn's lineage and context blobs are written, referenced and
deleted together and are one address. `derived_cache_refs` stores empty addresses and
owns nothing; the snapshots of one blob, which differ in their time of capture, are one
address. Left out: sidecar payloads of the older layout, tombstones, the archive mode of candidate collection,
bundle import (Bundles), the staging store of a remote upload, and the streaming Codex path with
`pruneSourcePayloadByObservedOriginPaths` (CodexSync), whose captures and prune are those of a merge.

`Peers(s)` are the source ids `matchesReplaceableSourceIdentity` takes for `s` when a host
was renamed; a replace with `allow_host_rekey` retires them. The contract
`docs/contracts/source-absence-retention.md` (17) excludes host rekey, so the run that
has two identities checks only what must hold nevertheless.

Properties:

- `RowsHaveFiles`: every row has its complete file. Hard because a file outlives the
  row it is unlinked for, and another process may bring the address back in between.
- `OwnersHaveRows`: every address held by a capture, span, lineage or context is a
  row: a prune that forgets a kind of owner breaks it.
- `CurrentEvidenceStays`: no step takes the evidence of a file that the ledger calls
  current before and after it. It speaks of a step, because a file that was purged while it was
  away becomes current again without its evidence (section 9, E4).
- `TurnsKeepTheirEvidence`: a turn's blob is captured, and whatever was captured of it (bytes,
  or the snapshot of a file that changed before the write, or both), its lineage and its context
  are on disk, whatever other turns of that file were deleted.
- `CapturesAreRetained`: only an explicit deletion, or a retired identity, gives a capture up.
- `DeferredPruneIsPaid`: without deletion and crash, a store at rest holds no orphan row.

| Run | Instance | Shows |
|---|---|---|
| `purge` | a sync beside a process that purges, collects candidates and runs gc-evidence; one file, two contents, the second with a further turn; two edits, or one edit and one crash; 1.16 million states | turns, current files and rows keep their evidence and only a purge gives a capture up |
| `rekey` | one slot under two host names with equal contents; sync under one, syncs, uploads and project deletions under the other; 1.45 million states | shared addresses lose no owner, and of two syncs that overlap each pays the prune it deferred |

Bounds: the races are between two processes over one address; a third process or a
second address adds no step that these do not have. A file
starts absent or with either content, and two edits (`MaxEvents` bounds edits and crashes together) let
it grow by a turn, disappear and come back, also between a probe and its write; `rekey` needs one; one crash
leaves at most one torn file, and everything after it runs to the end. The proofs (section 10) do not
depend on any of them. `purge` gives no process `delete_project`, because that command alone
breaks `TurnsKeepTheirEvidence` (section 9, E3); `rekey` has it, and its
two properties hold with it. `purge` has one source, whose owners are checked where they are
hardest to keep, in `rekey`; the proof of `OwnersHaveRows` covers both.
That a file changes before its write loses its bytes (section 9, E5); the property says what is kept then.


## 3. RemoteAgent

Clients (CLI processes) on hosts, one server, requests in flight.

| TLA+ | code |
|---|---|
| `version` | what a source holds, a number that grows |
| `local` | `agent-state.json` of a host: agent id, generation and checksum per source; absent or torn |
| `client` | the running command of a process with the values it has read |
| `state` | `getRemoteAgentState()`: agents (labels, generations) and jobs (selector, scope, expected generation, an assignment per agent) |
| `server[k]` | a request: arriving, storing its payloads with the state it read, saving, temporary file opened, answering |
| `main`, `tmp` | `remote-agents.json` and its temporary file |
| `store` | the version last merged or imported for a source |
| `expired` | leases whose time is over |
| `collected` | history: which version an agent bundled for a job |

The server is one event loop. A handler reads the state when its request has arrived,
computes the next one, sets it, saves it, and answers after the save. Nothing is
awaited between reading and setting, except in `applyRemoteAgentUpload`, which awaits each raw
blob it writes: so `Pair`, `Relabel`, `CreateJob`, `LeaseJob` and `CompleteJob` are one step up to
`SetState`, and an upload is `ReceiveUpload` followed by `StorePayload` for each
bundled source, all deciding from the snapshot `snap` of the state. With
`RawBlobs = FALSE` nothing else runs before it ends (`LoopFree`). Saving is
`OpenTemporary` (truncates) and `RenameTemporary` (writes, renames); requests that
save together use one temporary name, so contents may mix (`Torn`) and the second
rename may find no file, which fails that request after its state was set.
`ReadState` takes an unreadable file for an empty state, as `readRemoteAgentState` does.

A client command is `BeginPair`, `BeginUpload` or `BeginPull`, then `ReadLocalState`, `Probe`,
`SendUpload` (with `Retries` repetitions), `WriteLocalState`, `Report`. `LoseMessage` drops a
request or an answer, `Abandon` lets the client give up while the server goes on,
`CommandFails` is an exception on the client (a failed probe or write),
`Kill` ends the process, possibly within the write of the state file.

Abstract: tokens, checksums, zip layout and manifest consistency are as the CLI
builds them. Heartbeats only change labels here (`Relabel`, with
the admin route). A bundle has every source that is not absent: the dirty
fingerprint covers the payload, which contains the times of the probe, so an unchanged
source is bundled again. Leases are numbered; `Expire` is the passing of
`expires_at`. `MaxVersion`, `MaxGeneration`, `MaxJobs`, `MaxLeases`, `MaxRelabels`,
`MaxLosses` and `MaxCrashes` bound the counters.

Fairness (`FairSpec`): weak on `Serve(k)`, for the event loop handles what has arrived;
weak on `Expire`, for time passes; strong on each client's `Pull`,
`Upload` and `Continue`: the commands are run again and again (`agent schedule`, cron, or
by hand) and a command that runs goes on. Strong, because a connection is free again and
again but not for good. Losing, abandoning, failing, killing and crashing are bounded and never fair.

Properties:

- `OneActiveLease`: an agent holds one unexpired lease at most, whatever state late
  handlers or a restart bring back.
- `StoreNeverRegresses`: an upload collected earlier never overwrites a later one.
- `ControlStateOnlyAdvances`: what was answered stays: agents, generations, jobs, ends of jobs.
- `RecordedIsStored`, `SucceededIsStored`: what a host records as uploaded, or a job
  reports as succeeded, is in the store.
- `AnsweredIsSaved`: a host's file names no pairing and no generation that a restart of the server would forget.
- `JobsEnd` (liveness): a job an agent may work on succeeds or fails, whatever is
  lost, killed or restarted on the way.

| Run | Instance | Shows |
|---|---|---|
| `agent_pull` | two clients on one host, which write the same agent state file; one uploads and pulls two labelled jobs, the other uploads; two requests overlap on the server; uploads without raw blobs; connections symmetric; 1.7 million states | `OneActiveLease`, `RecordedIsStored`, `StoreNeverRegresses`, `ControlStateOnlyAdvances`: a process that loses the other's generation sends stale uploads, which are refused |
| `agent_restart` | one request at a time, one server restart, one lost or abandoned request, failure or kill, three leases, jobs that expect generation 1 (`agent_pull` has those that expect none), a source that is present, absent or cannot be read; 182 000 states; `FairSpec` | the stored/saved invariants and `JobsEnd` |

Bounds: two requests are the least that overlap and two jobs the least that can be
leased twice; three leases allow a first, one lost or forgotten in a restart, and a
last. Two generations allow an accepted upload, a stale one and a fresh one;
`agent_pull` has a single one for size: an upload of that generation is accepted once and stale
from then on. At `MaxGeneration` a probe goes on only when it finds its source absent;
`agent_restart` has that, so the bound does not keep a job from ending. `agent_pull` has no raw blobs, and no run a bundle of two
sources, because with them `StoreNeverRegresses` does not hold (section 9, R1 and R2);
`agent_restart` has raw blobs but one request at a time, because requests that save
together may rename an older state last, and then `AnsweredIsSaved` does not hold.
Symmetry is used in runs without liveness only.


## 4. SessionMerge, and Retention

How the JSONL files of one source become sessions and turns when a sync sees only some
of them, reuses some, and fails on others.

| TLA+ | code |
|---|---|
| `file[p]` | a history file: its content (or `Gone`) and modification time |
| `parser`, `stage` | parser version of the program; the one in the stored `stage_runs` |
| `status` | `sync_status` of the source |
| `captured`, `records`, `audits`, `sessions` | `captured_blobs` (with `file_modified_at`), `raw_records`, loss audits of lines that did not parse, `sessions.sync_axis` |
| `ledger`, `spans`, `turns` | `source_file_ledger`, `parsed_record_spans`, `user_turns_v2` with their lineage |

A content is also the name of its blob, a message its time stamp. `SyncWith(in)`
is one sync: `in` says what its inventory lists, whether that is complete, which files
it fails to read, and which are too old to be looked at. It is made of
`ProbeFile` (`Reuse`, `Append`, `Parse`, `Retain`), `Attempt` (the loop of
`syncSelectedSources` that widens until every contributor of a touched session is
known), `MergeRows` (`mergeSourcePayloadByOriginPath`) and `WriteSidecars`
(`writeStorageBoundaryV2Sidecars`), or `Replace` for a first sync, or nothing but
`Reconcile`. A sync is one step here: its write is one transaction, and what
another process does between its probe and its write is the subject of EvidenceStore. The
surroundings are `Write`, `Remove` and `Upgrade`.

`Retention` is the contract `docs/contracts/source-absence-retention.md` as a specification
of its own: what paths hold, what the store last accepted from them, what it shows. A sync may
withdraw a prompt only if the latest known content of a path that had it lacks it.
`PromptsAreRetained` says that SessionMerge implements Retention.

Abstract: fragments, atoms and candidates follow their session or record; a turn
is the submission and what follows it. Left out: tombstones, project links, byte sizes,
directories with companion files, the batches of Codex (next section).

- `PromptsAreRetained` (refinement): hard because the parser rows and the V2 rows
  are cut by different rules, and an absent, unread or unvisited sibling must veto the cut.
  It is proved for files that share no session (section 10); with shared sessions it holds within the
  bounds of `merge` and fails beyond them (finding 1, M6).
- `RecordsLeaveByRewrite`: the same for every message of `raw_records`. It needs that the stored
  rows of a path name one session, which no state within the bounds breaks (M5), or that no
  two files share one (section 10).
- `RowsHangTogether`: a record names a stored blob and a stored session, and a session row has a
  record unless a content of it has a bad line. Hard because records, blobs and sessions are
  rewritten by different rules. It says nothing of the ledger and the turns, for which the same
  does not hold (section 9, M4).
- `OneRowPerId`: what a merge keeps and what it writes never share an id.
- `CertifiedIsCurrent`: a sync that stamps the present parser leaves no row of an older
  one for a file that is there; the next sync would reuse it unread.

| Run | Instance | Shows |
|---|---|---|
| `merge` | two paths, two sessions: one file opens a session, appends, or is rewritten into another; the other joins the first session; one edit, one upgrade, any initial files, any subset listed, unread or old; a rewrite may have a line that does not parse | all five properties |
| `merge_bad_sibling` | the joining file may have a bad line; no upgrade | violated: `PromptsAreRetained` (section 9, finding 1) |

Bounds: a session shared by two files is the least that needs siblings, and one edit
after any initial pair of files gives every order of first, appended, rewritten, gone
and returned file; `Remove` and `Upgrade` come on top. `merge` has the bad line in the rewritten
content only, because in a joining file it is finding 1.


## 5. CodexSync

How one Codex source, where one file is one session, is synced in batches, while Codex
writes, other syncs run, files fail and processes die.

| TLA+ | code |
|---|---|
| `file[p]` | a session file: its content (rewrite, length, whether it ends inside a line) and its stat (size, mtime, ctime), the number of its last change |
| `parser`, `stage` | parser version of the program; the one of the stored `stage_runs` |
| `blobs[p]` | `captured_blobs` of a path with stat, `file_identity_stable`, and the `raw_records` of each; `bad`: a record that did not parse |
| `shown[p]`, `axis[p]` | the session of the path as pieces of the file; presence in `source_file_ledger` |
| `sync[s]` | a run of `syncCodexSourceInBatches`: the files listed, those still to do, the tails and `stage_runs` loaded first, the batch with its preloaded rows, what a probe found |

`Start` lists the files and loads the metadata; `Load` picks the next batch and, by the stats
of its files, its way: `probe` when every file looks unchanged, `merge` otherwise. A `merge`
reads, parses and writes inside one transaction (`Merge`); a `probe` either finds nothing
(`ProbeBatch`) or is written afterwards (`LateMerge`), with what was read before. `Prune` is
the end. A reading may be quiet; or the file changes during it (`ReadDuringEdit`), so that the
capture has the old or the new bytes and is not marked stable, or, for a file read
in a stream, the parse sees other bytes than the capture; or it fails (`ReadFails`). The
probe decides between skip, reuse, append and parse from the preloaded rows (`Probe`), the merge
between replacing, keeping and completing rows (`Written`).

Abstract: batches are any nonempty set of the files left, in any order (the code packs them by
size and recency); the two last transactions of a sync, metadata and prune, are one step; an
append that `content_max_timestamp` turns into a full parse is taken as an append, which
shows the same; companion evidence and sessions of several files are left out. Fairness: a
sync that has begun goes on and syncs are run again and again (weak on `Step`); nothing else
is fair, edits, failures and upgrades are bounded.

- `ShownIsOneCapture`: hard because appends build on rows of earlier captures, which a failed,
  torn or skipped file, a thin preload or a crash may have left in any mixture.
- `StatsTellContent`: on this comparison alone a file is skipped unread; a stat
  taken on the wrong side of a change would hide that change for ever.
- `StoreCatchesUp` (liveness): once the files rest, every whole file is shown as it is, by the
  present parser, and absence is noted: no batch that was skipped, refused or certified too
  early keeps a file out of date for good.

| Run | Instance | Shows |
|---|---|---|
| `codex` | two files, one of which may disappear; lengths up to three; two changes, one failure or crash, one new parser; both sides of the preload threshold; 500 000 states; `Spec` has the fairness | all hold |
| `codex_large` | one file read in a stream | violated: `ShownIsOneCapture` (section 9, finding 3) |

Bounds: two files make a batch of several, several batches, and a file that fails beside one that
does not. Two changes give a rewrite of something appended, an append to something
torn, and a change on both sides of a sync; a third change in the same place is like the second. One
process is enough for liveness; the two safety properties are proved for any number (section 10). `LargeLen` is beyond `MaxLen`
in `codex`, since finding 3 is about streams.


## 6. StorageBoundary

The migration of turns from the V1 to the V2 tables, statement by statement.

| TLA+ | code |
|---|---|
| `tables` | the V1 turn tables that exist |
| `v2[t]` | `user_turns_v2` with its context: none, as V1 has it, or newer |
| `raw` | version of the other V1 payload tables |
| `validated` | the handoff: `validated_legacy_generation = legacy_generation` |
| `purged`, `withdrawn` | tombstones; history: turns taken out of V2 by a sync or purge |
| `marker`, `baseline` | `migration_state` status per scope; cursor of the digest validator |
| `proc` | the command of a process, its remaining scopes and next statement |

`Run`, `Validate`, `Compact`, `Reset` start a command; `ReadMarker`, `MarkRunning`,
`Backfill` or `Check` or `DropTable`, then `Complete` or `Abort` are the statements of one
scope; the marker is read with its cursor, and `MarkRunning` writes back the cursor that was read; `Recheck` is the second look of compact, `Delete` that of reset. `Read`, `Sync` and
`Purge` settle the handoff, and run at any time. `Crash` ends a process
between two statements. `migration reset --force` is taken only when no other
process is alive, as its help asks. `FairSpec` adds weak fairness on each
process's `Step`: a process that lives runs on; commands are never forced to start.

Left out: the preview, the vacuum of compact, `validate --only`, the inventory pairs of
`raw_records` and `captured_blobs`, the bundle validator's own export (its verdict is any).

- `DroppedTurnsAreKept`: compact loses no turn, whatever raced with its validators.
- `BackfilledSourcesAreComplete`: hard because the marker and the backfill are different
  statements of processes that do not exclude each other.
- `HandoffKeepsTurns`: the first read or write under V2 certifies it for good.
- `RunningEnds` (liveness): without a crash a running marker, which stops every
  compact, gets an outcome.

Run `migrate`: one source with one V1 turn and one that a sync may bring, two
processes, two commands, one crash, one write; 514 000 states; all four hold. Two
commands reach everything because the initial state is either untouched (run beside or
after run, validate, reset) or validated (compact beside or after each of them). One source
is enough since no statement touches two; the digest needs one write to differ.


## 7. ReadIndex

Connections, one per process, each with maps in memory, over one store.

| TLA+ | code |
|---|---|
| `rows`, `links` | version of the tables with triggers and of the fragments; version the index was derived from |
| `ready`, `generation` | `resolved_read_index_state` |
| `writer`, `draft` | the connection whose streaming merge is open, and its tables |
| `moved`, `stamp` | `PRAGMA data_version` differs from `cachedDataVersion`; `cachedLinkGeneration` |
| `cache` | the project link snapshot with the maps built from it ("turns"), `cachedRelatedWorkBySessionId`, `cachedProjectsById` |
| `doing`, `held` | the call a connection is in the middle of, and what it has read |
| `page` | the last answered page: versions of its rows and its links |

`Write`, `WriteAndReindex`, `Reindex`, `SkipReindex`, `OpenStream`, `CloseStream` are
the writers; `StartResolved` is the check of `withResolvedRead` (`Checked`), after which
another process may commit, `ReadPage` and `ReadSnapshot` the transaction; `StartMap` and
`ReadMap` the maps filled by plain statements. The content of a table is a version
number; reading data version and generation is one step; the search map of linked turns
is part of "turns". Left out: `cachedSessionsById` and the search resolver
(`storage.ts` 2386-2428) are filled by several plain statements like the other two maps and as
exposed to I1; `listProjects` computes the projects when `project_current` is empty (1201-1207), which
is taken as the same version.

- `IndexIsCurrent`, `PagesAreCoherent`, `SnapshotIsCurrent`: hard because writers defer
  the refresh, roll back or die, and a nested refresh neither drops nor stamps the maps.
- `MapsAreCurrent`: the other two maps, as long as the connection holds no snapshot.
  With one they can be stale (section 9, I1).
- `NoUncommittedReads`: nothing caches what an open streaming merge may roll back.

Run `reads`: two connections (symmetric), versions up to 3, one reindex of a ready
index; 2.6 million states; all hold. One version for each of two writers and one for a
rollback or a stream is the least that makes a map of two versions.


## 8. Bundles

Processes that import bundles, receive uploads, replay probes, collect raw files, sync or purge.

| TLA+ | code |
|---|---|
| `files` | files under `<store>/raw`, by source and blob |
| `sources`, `rows`, `named` | `source_instances`, `captured_blobs`, those with a `captured_path` under `raw/` |
| `recorded` | `imported_bundles` |
| `job[p]` | a command with its payloads to read (`todo`) and to apply (`ready`), or what the collector listed |

An import is `StartImport` (the plan for `error`, `skip` or `replace`), `Prepare` for each
payload, `Apply` for each, `Record`, then the collection: `References`, `Walk`,
`RemoveFile`, `FindEmpty`, `RemoveDirectories`. An upload is `StartUpload`,
`ReceivePayload` and `MergePayload` per source, `RecordUpload`; a replay of the API
server `Snapshot` and `Persist`. `Die` ends a process at any await. Bytes, checksums,
torn files, host normalisation of source ids, a bundle id that comes again with other
checksums (refused) and the export are abstracted or left out. `cchistory gc` without
`--write` is a preview.

A sync is `StartSync`, which loads the rows of a source, and `WriteSync`, which writes the
loaded rows it kept (reused, or with lines appended) with the captured path they had when they
were loaded, and what it read anew without one.

- `NamedFilesExist`: a row that names a raw snapshot has its file. It holds where a collection
  overlaps only purges: a process that names files beside it is finding 2, or B2 for a sync.
- `BrokenBundlesApplyNothing`: an import with a damaged payload applies none of them
  (`bundle.ts` 690-692). It says nothing of a process that dies between two payloads: that leaves a partial import.

| Run | Instance | Shows |
|---|---|---|
| `import` | two sources, two blobs, three bundles (one damaged, one without raw files); one process imports, receives, replays, collects and syncs, one command after the other, another purges; three commands each; 88 000 states | both hold |
| `gc_race` | a collector beside a process that uploads and replays; one command each | violated: `NamedFilesExist` (section 9, finding 2) |


## 9. Findings and observations

Checked by a run that TLC must find violated:

1. **A bad line in a new sibling file hides a prompt of an intact one** (`merge_bad_sibling`). A
   new file that joins a stored session is parsed with the other contributors and
   the session rewritten from all of them; the turn whose lineage holds the blob with the bad
   line is withheld (`evidence-store.ts` 1600), and nothing vetoes the rewrite since
   the new file has no stored row. The prompt of the intact file is in that turn.
   `docs/contracts/source-absence-retention.md` 64-66 excludes this.
2. **gc can remove a file that a row names** (`gc_race`). References are listed
   (`raw-gc.ts` 23), the directory is walked later (24), and what was not listed is
   removed (42): a file that another process puts there and names in between goes,
   against `docs/guide/cli.md` 524.
3. **A large file that grows while it is captured shows lines no capture holds** (`codex_large`). A
   file over 64 MiB is hashed to its end, opened again and parsed to the end it has by then
   (`parser.ts` 688); the lines in between are records of a blob whose bytes lack
   them, and the next append, which starts at the captured size, parses them again.
   `src/HIGH_LEVEL_DESIGN_FREEZE.md` 55 and 809-811 exclude this.

Met while modelling; each is why a passing run leaves something out, or an
assumption in a model. Traces were read from TLC or from the code, and no run repeats them:

- **E1** gc-evidence prunes rows and unlinks their files; a file whose row is already
  gone is never looked at, though the comment at `storage.ts` 1313-1316 sends the user there.
- **E2** A purge prunes rows only if some blob became an orphan, so a purged turn's lineage and
  context rows can outlive it until the next gc-evidence (`storage.ts` 1470).
- **E3** `deleteProject` reads the turns that keep a blob alive before BEGIN (`gc.ts` 284-304,
  371); a sync that commits in between loses its new turn's captures and bytes.
- **E4** A purge of all turns of an absent file keeps its ledger row, while the prune after it takes the
  blob's rows and file. When the file returns, a write that finds it without reading it (skipped,
  failed, or probed before the purge) sets that row to current again
  (`evidence-store.ts` 1803-1820). It then names bytes that are not stored until the
  next sync, which parses the file, since its `captured_blobs` row is gone too.
- **E5** A file that changes between its probe and its write is stored as a snapshot of the parsed
  records only (`evidence-store.ts` 1941-1974, 2190-2214): the bytes that were parsed are in no
  evidence file, where `src/HIGH_LEVEL_DESIGN_FREEZE.md` 55 and 809-811 want the input bytes
  preserved. The next sync captures the file as it is then; the older bytes are gone.
- **R1** Generations are compared in the state read at the start of an upload, raw blobs are
  awaited in between: two uploads of one generation both pass and the older may land last.
- **R2** A bundle that is refused at its second source has stored the first, whose
  generation does not advance.
- **R3** The answer of an accepted upload is lost: the agent repeats the generation the server has
  and gets 409 each time (`agent.ts` 295-297 says this is prevented).
- **M1** A file first seen by a sync with `--limit-files` that leaves it out is reused as if
  it had been parsed once the source is certified (`sync.ts` 728, 746).
- **M2** When a file leaves a shared session whose other file is absent, the turns of the former
  stay under the session until that file returns, beside their new copies. Spans of
  preserved siblings are deleted and spans of superseded blobs stay, since a ledger row
  names only the last blob of a path. A session that a present file joins stays `source_absent`
  until the next sync. No property here reads spans or axes across sessions.
- **M3** A parser is certified while rows of an absent file are of the old one; when
  it returns unchanged, they are reused as certified (`bounded-full-storage.md` 130-140). `CertifiedIsCurrent`
  therefore speaks of files that are there.
- **M4** The ledger names the last content of a path, the merge considers every stored one, and the two
  sidecar vetoes use one each. With three files that share sessions a ledger row may name a blob that
  the parser side has dropped, and a turn may be shown whose session has no `sessions` row. A first
  file with a bad line leaves a session row without records (`source-payload.ts` 312-325, 373).
- **M5** A file that is rewritten as session B while a sibling of its session A cannot be read is
  kept back, but its new rows are written if another file changes B (`source-payload.ts` 273-278,
  311-317): its path then has rows of both. If it grows under B when a file of B cannot be read and
  another file changes A, its rows of A are deleted with A and those of B are not written:
  messages that the file holds leave `raw_records` until a sync reads all (three files, four edits).
- **M6** A turn is named by its position in its session (`projections.ts` 285), and only a turn that mixes
  replaced and kept blobs is protected (`evidence-store.ts` 1671-1685). Let file B of a shared session
  show a prompt as turn 0 and append to turn 1, which it has in common with A. B disappears, and A is
  rewritten with a prompt that comes first: the new turn is stored over turn 0; B's turn would now be
  turn 1, but the stored turn 1 mixes both files, the new one does not cover it, and it is protected.
  B's prompt is in no turn, though B is only absent, against `docs/contracts/source-absence-retention.md`
  51-53; its records stay. TLC finds it with two files and three edits, beyond the bounds of `merge`.
- **C1** `mergeSourcePayloadStreaming` writes each stage run once, and the first chunk of a file
  carries the ones stored before the sync (`sync.ts` 976, 1128; `evidence-store.ts` 834), so the row
  is never the one of the present run, against the comment at `evidence-store.ts` 645-655. After
  an upgrade no batch with files certifies the source, and every sync parses every file again.
  Writing it per batch, as the comment says, would not do either: rows of absent or failed files
  would count as the new parser's, and TLC then finds `StoreCatchesUp` violated.
- **C2** A sync that finds the source empty does certify the present parser; a file that comes
  back unchanged keeps its old rows. `codex` therefore keeps one file that cannot disappear.
- **S1** Two processes can both start a scope, and an aborted marker can become running again:
  the marker is read and then overwritten without a condition, its cursor with the one
  read (`migration-state.ts` 60-63 and 198-200 exclude a second writer). The backfill is idempotent enough for the properties above.
- **S2** A crash between the two DROPs leaves a store that `compact` cannot finish:
  its validators expect both tables or none (`migration.ts` 536-539 calls a rerun idempotent).
- **S3** A backfill after a sync writes the V1 form over newer V2 turns (`evidence-store.ts` 393);
  after a drop it fails, where the comment at 362-369 expects a no-op.
- **S4** The digest baseline is the one of the validator that completes last, if two overlap.
- **I1** Between the check of `withResolvedRead` and its BEGIN IMMEDIATE (`storage.ts` 2722-2726)
  another process may commit. The snapshot then stamps the new version
  (2338-2339) without dropping related work and projects of the old one.
- **B1** An import that dies between two `replaceSourcePayload` is partial. A bundle with a raw blob for
  a fallback record changes `size_bytes`, so that importing it again conflicts with itself.
  A crash in `copyFile` leaves a torn file that later snapshots keep.
- **B2** A sync loads the blobs of a source before it reads the files, keeps their `captured_path` when it
  reuses or appends (`probe.ts` 942-955, 967-981, 1253-1256) and writes the rows back
  (`source-payload.ts` 319-325, 447-449). If an import with `replace` drops the name meanwhile, and its
  collection the file, the row names a removed file again. TLC finds it with a sync in the
  second process of `import`, which therefore only purges.


## 10. Proofs

From the named assumptions on the constants, for any number of processes, sources, files,
messages, crashes and commands. A theorem that needs a hypothesis states it in its ASSUME,
and the table names it.

| Module | Theorem | States |
|---|---|---|
| `EvidenceStore_proofs` | `TypeCorrect` | `Spec => []TypeOK` |
| | `RowsAlwaysHaveFiles` | `Spec => []RowsHaveFiles` |
| | `OwnersAlwaysHaveRows` | `Spec => []OwnersHaveRows` |
| | `CapturesAlwaysRetained` | `Spec => CapturesAreRetained` |
| | `CurrentEvidenceAlwaysStays` | `Spec => CurrentEvidenceStays` |
| | `ReusedFilesHaveEvidence` | every `captured_blobs` row is captured, and what was captured of it, bytes or snapshot, has its evidence row and complete file |
| | `PurgesKeepEvidence` | where no process runs `delete_project`, `Spec => []TurnsKeepTheirEvidence` |
| | `DeferredPruneAlwaysPaid` | where nothing is deleted (`NoDeletion`), `Spec => []DeferredPruneIsPaid` |
| | `CurrentFilesHaveEvidence` | with `NoDeletion` and one host name per slot, the evidence the ledger calls current, bytes or snapshot, has row and file |
| `RemoteAgent_proofs` | `RemoteTypes` | `Spec => []TypeOK` |
| | `AgentHasOneLease` | `Spec => []OneActiveLease` |
| `RemoteAgentState_proofs` | `AdvancesBetweenCrashes` | where uploads do not overlap other requests (`OneUploadAtATime`), every step but a crash of the server lets the control state advance only |
| | `StateOnlyAdvances` | with that and no crash, `Spec => ControlStateOnlyAdvances` |
| | `AnswersAreSaved` | with one request at a time, `Spec => []AnsweredIsSaved`, crashes included |
| | `StoreOnlyGrows` | with `OneUploadAtATime`, no crash, `PairsOnce` and `WholeUploads`, `Spec => StoreNeverRegresses` |
| | `RecordedAreStored` | with the same, `Spec => []RecordedIsStored` |
| | `SucceededWithOnePuller` | with the same, one process per host that pulls (`OnePuller`) and no client that abandons a running request, `Spec => []SucceededIsStored` |
| `SessionMerge_proofs` | `TypeCorrect` | `Spec => []TypeOK` |
| | `RowsHang` | `Spec => []RowsHangTogether` |
| | `OneRow` | `Spec => []OneRowPerId` |
| | `CertifiedRows` | `Spec => CertifiedIsCurrent` |
| | `RecordsLeave` | as long as the stored rows of a path name one session (`OneSessionRows`), `Spec => RecordsLeaveByRewrite` |
| | `RecordsLeaveOneSession` | where no file is rewritten as another session (`OneSessionFiles`), `Spec => RecordsLeaveByRewrite` |
| | `RecordsLeaveOneFile` | where no two files hold the same session (`OneFileSessions`), `Spec => RecordsLeaveByRewrite` |
| | `RetainedOneFile` | with `OneFileSessions`, `Spec => PromptsAreRetained`: SessionMerge implements Retention |
| `StorageBoundary_proofs` | `TypeCorrect` | `Spec => []TypeOK` |
| | `NoTurnIsDropped` | `Spec => []DroppedTurnsAreKept` |
| | `CompletedBackfillsAreTrue` | `Spec => []BackfilledSourcesAreComplete` |
| | `HandoffsAreFinal` | `Spec => []HandoffKeepsTurns` |
| `ReadIndex_proofs` | `TypeCorrect` | `Spec => []TypeOK` |
| | `IndexAlwaysCurrent` | `Spec => []IndexIsCurrent` |
| | `PagesAlwaysCoherent` | `Spec => []PagesAreCoherent` |
| | `SnapshotsAlwaysCurrent` | `Spec => []SnapshotIsCurrent` |
| | `MapsAlwaysCurrent` | `Spec => []MapsAreCurrent` |
| | `PendingNeverKept` | `Spec => []NoUncommittedReads` |
| `CodexSync_proofs` | `TypeCorrect` | `Spec => []TypeOK` |
| | `StatsAlwaysTellContent` | `Spec => []StatsTellContent` |
| | `ShownIsAlwaysOneCapture` | where no file is read in a stream (`NoStreams`), `Spec => []ShownIsOneCapture` |
| `Bundles_proofs` | `TypeCorrect` | `Spec => []TypeOK` |
| | `ImportsAreAllOrNothing` | `Spec => BrokenBundlesApplyNothing` |
| | `NamedFilesAlwaysExist` | where beside a process that collects the others only purge, or none collects (`CollectsAlone`), `Spec => []NamedFilesExist` |

The hypotheses are limits of the code, not of the prover: without `NoDeletion` a purge leaves
orphans (E2) and ledger rows without evidence (E4); overlapping uploads with raw blobs set back
the control state (R1), and so does a restart from a file that was not written yet; requests
that save together may rename an older state last; an upload refused at its second source has
stored the first without advancing its generation (R2, excluded by `WholeUploads`); a host that is
paired again, or by two commands at once, starts at generation 0 while uploads of its old agent
may be on the way (excluded by `PairsOnce`); of two processes that pull on one host, one may report
the job as succeeded while the other collects for it again, and an abandoned report may arrive when its
job was leased once more (excluded by `OnePuller` and no abandonment); streams are finding 3; a process that names
raw files beside one that collects is finding 2, or B2 if it syncs; `delete_project` is E3; a path with rows of two sessions is M5; a prompt of
a shared session is lost by finding 1 and M6 (excluded by `OneFileSessions`, which still lets a file be
rewritten as another session of its own).

The arguments:

- EvidenceStore. `TypeInv` adds to `TypeOK` what each process carries at each point. `FileInv`
  is `RowsHaveFiles` with two facts about the write transaction: the lock is held exactly by
  the process inside it, and before the rows are inserted every file of the payload is
  complete. An unlink cannot take such a file: it needs the lock, and
  spares every address that has a row. `OwnersHaveRows` is inductive beside the types: the
  prune keeps exactly `LiveShas`, and each write inserts the rows of every owner it
  adds. `TurnInv` adds that every turn's blob is captured and that no project deletion is chosen.
  `OweInv` names the debt: until a crash, no file is torn (so every write succeeds) and a row
  that nothing refers to has a sync at work that will still prune, whichever sync made it an
  orphan. `LedgersAreCaptured` says that a ledger row, current or absent, names the address of a capture
  of its path: every state of a file that a write records is either captured by it or was before.
  None of this asks which kind a capture is: a write may find any set of files readable.
- RemoteAgent. `TypeInv` adds that a client has at most one request at the
  server and waits for an answer of its kind. A late upload sets the state it read when it arrived
  and a restart reads the file, so `LeaseInv` states `OneActiveLease` of every copy of the
  control state. A handler gives a lease on the copy in memory only if the agent has none
  there, and expiry only grows, so a good copy stays good.
- RemoteAgent, control state. `ServerInv` says of an upload being stored that it decides from
  the state of now (`UploadInv`); of an answer under way that the state in memory bears it out
  (`AnswerInv`); and of every copy that jobs not created yet look untouched (`LaterInv`), since a
  job number is otherwise free to come back with an old status. `SavedInv` adds the files: the
  server's lags behind the memory only while a handler saves, that handler saves what is
  in memory, and what a host's file, or a command that read it, says of agent and
  generations is in the server's file.
- RemoteAgent, store. `PairInv` says that until a host has its state file nothing of it runs
  but the command that pairs it. So everything of a host, its file, its commands and its uploads,
  is of one agent, and `StoreInv` names it with an existential: a function `f` from hosts to agents.
  An upload on the way `Fits`: its generation is at most one ahead of the agent's, and if it is
  still ahead then what is stored is not newer than what it brings. A payload that is stored breaks
  that for the other uploads of the source, until the generation is set at the end of its upload;
  `Done` is the set of sources between the two, and a source in it has only one upload that may go on, as
  `UploadInv` says. `Brought` carries what was stored to the answer, the command and the file.
- RemoteAgent, jobs. `AgentInv` says that the file and all commands of a host are of one
  agent, since a host is paired once. `SuccessInv` follows a collection for a job: what an agent
  `collected` is what its upload brings until the good answer, and in the store from
  there on; whoever says that the job succeeded, or has the answer that lets it say so
  (`Claimed`), says so after that. Only another collection for the same job can break it, and the lemma `SucceededAreStored`
  assumes that there is none (`CollectsAlone`). `LoneInv` proves that for one puller per host: an agent id is of one host,
  and one still on its way to be told is of none (`FreshInv`); who asks for a job or ends one
  is the process that waits for the answer, and works as the agent it names (`AskInv`);
  so only who works on a job can end its lease, and it stays leased meanwhile (`LeasedInv`).
- SessionMerge. `IInv` is `TypeOK`, `RowsHangTogether` and `OneRowPerId` with two facts that
  make the choices of the code total: a file has a time and a content of its own path, and the
  stored contents of a path have bounded sizes, so that a tail and a ledger blob exist
  where the code picks one. The lemmas follow a sync: what the probe of one file returns is of
  that file, what an attempt returns has each record once and every blob its records name,
  what the merge keeps is disjoint from what it writes. For `CertifiedRows`, a merge under another
  parser keeps only rows of paths that are gone: every present one was listed, read and replaced.
- SessionMerge, retention. The simulation of Retention needs what relates the parser rows and the V2
  rows, `SidesAgree`: every row, span and ledger entry names a session of its file (`Owned`), what a turn
  shows has a record (`Backed`), a stored prompt is in a turn unless its file has a bad line
  (`Visible`), a file with a bad line was audited (`Audited`), and a path with a blob has a ledger row
  (`Listed`). It is inductive if a session has one file: the merge then cuts the rows of whole files, those
  it opens (`MergedByFile`), and the sidecars follow the same cut (`WrittenByFile`). A file is opened only if
  it was listed and read, and then the attempt has every stored message that the file still holds
  (`AttemptKept`). So a prompt that is withdrawn was in an opened file that lacks it, one that is shown for
  the first time was parsed from a file that is there, and the ledger takes up only what the file holds:
  the three clauses of the abstract sync. The same two lemmas give `RecordsLeaveOneFile`.
- StorageBoundary. `Kept` are the turns in V2 or withdrawn, and no step takes a V1 turn out of
  them: what a sync or purge takes is withdrawn, and a backfill writes every turn it clears
  that V1 has. `Seen` says what a process has established at each statement (its
  source, or after the inventory validator every source, is kept), the completed markers carry it
  on, and `KInv` ties both to the properties.
- ReadIndex. `IInv` is the index and page properties with `UnmovedIsCurrent`: a connection
  that no other one has committed past since it stamped its maps holds the
  snapshot of the present rows, for its own writes drop it. Accepting maps implies that.
  `AllFresh` states the same of the other two maps and of what has been read towards
  them; `PendingUnseen` says that neither a map, nor what has been read for one, nor the index
  is of the pending version of a table.
- Bundles. `Held` says of each job that what it is about to name is there and what it is about
  to remove is not named: the reference list of a collection holds every file that is named
  now, since only the collecting process itself could name another. What a sync loaded is
  there when it writes, since beside it nobody collects.
- CodexSync. `Told(p, b)` says that a blob's stat is past, or present and, if stable, that of its bytes.
  `Inv` states it of every blob wherever it is kept: stored, loaded by a sync before its
  batches, preloaded for one, or found by a probe and not yet written; only so is it inductive, since a late
  write brings back what was loaded long before. A change gives its file a stat larger than
  any told (`ToldStays`); a reading is `Faithful`: overtaken ones are not stable, reread ones
  have a stat that is past.
  `WholeInv` is for what is shown: unless one of the blobs of a path is bad, the pieces of all of
  them make up the longest. It too is stated of stored blobs, of copies that an append may build on, and of
  results not yet written. A parse with a bad line shows nothing and leaves its bad blob
  behind, so that no append builds on it; an append adds the piece between two lengths.

What stays with TLC, and why:

- `PromptsAreRetained` for files that share a session. In general it is false (finding 1, M6), and what would
  be true of it needs what the turns, spans and ledger of a shared session keep of one another, where
  M2 and M4 leave little that holds for any number of files; `merge` checks two files that share one.
  `RecordsLeaveByRewrite` is likewise left to TLC where files share sessions and a path has rows of
  two, where it is false by M5.
- Liveness (`JobsEnd`, `RunningEnds`, `StoreCatchesUp`) and everything about ENABLED.

Operators marked "Mutation of X" or "Mutant:" are not part of any specification: each is
the form that X would have after a plausible bug, and `PROJECT.json` names the
property and run that finds it.


## 11. Not modelled, and why

- **Linker and revisions, parsing, platform runtimes, masks, queries, search,
  inventory, presentation.** Pure functions over formats and text: no state
  between calls, no interleaving. What crosses calls is modelled: when their result is stale
  (ReadIndex), and what a parse does to other files' turns (SessionMerge).
- **TUI, live runtime, lite CLI, web, API client, argument parsing, scripts.** One user's screen or one
  command's output; nothing of it is stored.
- **Parts of modelled components**: the archive mode of candidate collection, overrides,
  tombstone restoration, export, vacuum, checkpoint, refresh-projections, migration preview,
  discovery, doctor and dry runs of sync.
- **Composition.** A sync in SessionMerge is atomic and a sync in EvidenceStore has one file;
  a module with both would multiply their states without a new shared variable.
