------------------------------- MODULE Bundles -------------------------------
(***************************************************************************)
(* Bundle import, remote uploads, probe replays and the raw snapshot       *)
(* garbage collector (apps/cli/src/bundle.ts, apps/cli/src/commands/       *)
(* maintenance.ts, apps/api/src, packages/storage/src/raw-gc.ts): who puts *)
(* files under <store>/raw, which rows of captured_blobs name them, and    *)
(* which files are collected.                                              *)
(*                                                                         *)
(* Every await is a point where another process runs: between the files of *)
(* two payloads, two transactions, the reference list of a collection, its *)
(* directory walk and every removal.  A process can die at any of them.    *)
(* A raw file is named by its source and its blob; its bytes, checksums    *)
(* and the copy of one file are abstracted.                                *)
(***************************************************************************)
EXTENDS Naturals, FiniteSets

CONSTANTS
    Process,     \* the processes that work on the store
    Source,      \* source instances
    Blob,        \* captured blobs; those of a source come from different files
    Bundle,      \* bundles, also those an agent uploads
    Contents,    \* the blobs of each source of a bundle: [Bundle -> [sources -> SUBSET Blob]]
    HasRaw,      \* the bundles with raw blobs (includes_raw_blobs)
    Broken,      \* the <<bundle, source>> whose payload or raw files fail their checksum
    Runs,        \* the commands each process runs
    MaxCommands  \* bound: commands per process

Command == {"import", "upload", "replay", "gc", "sync", "purge"}

ASSUME BundlesAssumption ==
    /\ \A b \in Bundle : DOMAIN Contents[b] \in SUBSET Source
    /\ \A b \in Bundle : \A s \in DOMAIN Contents[b] : Contents[b][s] \in SUBSET Blob
    /\ HasRaw \subseteq Bundle
    /\ Broken \subseteq Bundle \X Source
    /\ Runs \in [Process -> SUBSET Command]
    /\ MaxCommands \in Nat

VARIABLES
    sources,   \* rows of source_instances
    rows,      \* captured_blobs of each source
    named,     \* those whose captured_path is a file under the raw directory
    files,     \* the files under the raw directory, <<source, blob>>
    recorded,  \* imported_bundles
    job,       \* the command each process is in the middle of
    runs       \* commands each process has started

store == <<sources, rows, named, recorded>>
vars == <<store, files, job, runs>>

Jobs ==
    [at : {"idle"}] \cup
    [at : {"import", "upload", "create"}, bundle : Bundle, todo : SUBSET Source, ready : SUBSET Source] \cup
    [at : {"replay"}, source : Source, seen : SUBSET Blob] \cup
    [at : {"sync"}, source : Source, loaded : SUBSET Blob, names : SUBSET Blob] \cup
    [at : {"collect"}] \cup
    [at : {"walk"}, keep : SUBSET (Source \X Blob)] \cup
    [at : {"remove"}, list : SUBSET (Source \X Blob), keep : SUBSET (Source \X Blob)] \cup
    [at : {"rmdir"}, empty : SUBSET Source]

Idle == [at |-> "idle"]

Loading(command, b, todo, ready) ==
    [at |-> command, bundle |-> b, todo |-> todo, ready |-> ready]

Goes(p, j) == job' = [job EXCEPT ![p] = j]

At(p, step) == job[p].at = step

\* A command starts in an idle process that runs such commands.
Start(p, command) ==
    /\ At(p, "idle") /\ command \in Runs[p]
    /\ runs[p] < MaxCommands
    /\ runs' = [runs EXCEPT ![p] = @ + 1]

FilesOf(s, blobs) == {s} \X blobs

\* The rows that name a file, as the collector lists them.
Referenced == UNION {FilesOf(s, named[s]) : s \in Source}

-----------------------------------------------------------------------------
(* Import of a bundle, and the merge of two stores, which exports one first *)

Present(b) == DOMAIN Contents[b] \cap sources

\* The stored payload has the checksum of the incoming one.
Identical(b, s) == rows[s] = Contents[b][s]

\* planBundleImportFromManifest: a present source that differs is an error, is
\* skipped, or is replaced.
Plan(b, mode) ==
    DOMAIN Contents[b] \ (IF mode = "replace" THEN {s \in Present(b) : Identical(b, s)}
                                             ELSE Present(b))

Conflicts(b, mode) == mode = "error" /\ \E s \in Present(b) : ~Identical(b, s)

StartImport(p, b, mode) ==
    /\ Start(p, "import")
    /\ Goes(p, IF Conflicts(b, mode) THEN Idle
               ELSE Loading("import", b, Plan(b, mode), {}))
    /\ UNCHANGED <<store, files>>

\* The next payload is read and its raw blobs are copied; a checksum that does
\* not match ends the command.
Prepare(p, s) ==
    LET j == job[p] IN
    /\ At(p, "import") /\ s \in j.todo
    /\ IF <<j.bundle, s>> \in Broken
         THEN Goes(p, Idle) /\ UNCHANGED files
         ELSE /\ Goes(p, Loading("import", j.bundle, j.todo \ {s}, j.ready \cup {s}))
              /\ files' = IF j.bundle \in HasRaw
                            THEN files \cup FilesOf(s, Contents[j.bundle][s]) ELSE files
    /\ UNCHANGED <<store, runs>>

\* The rows of a source become the blobs given, named as given.
SetRows(s, blobs, names) ==
    /\ sources' = sources \cup {s}
    /\ rows' = [rows EXCEPT ![s] = blobs]
    /\ named' = [named EXCEPT ![s] = names]
    /\ UNCHANGED recorded

Names(b, s) == IF b \in HasRaw THEN Contents[b][s] ELSE {}

\* Mutant: payloads are applied as they are read.
ValidatedLazily(j) == j.ready # {}

\* Every payload is validated before the first one is applied.
Validated(j) == j.todo = {} /\ j.ready # {}

\* replaceSourcePayload of the next payload, in a transaction of its own.
Apply(p, s) ==
    LET j == job[p] IN
    /\ At(p, "import") /\ Validated(j) /\ s \in j.ready
    /\ SetRows(s, Contents[j.bundle][s], Names(j.bundle, s))
    /\ Goes(p, Loading("import", j.bundle, {}, j.ready \ {s}))
    /\ UNCHANGED <<files, runs>>

\* upsertImportedBundle; the commands import and merge collect raw files then.
Record(p) ==
    LET j == job[p] IN
    /\ At(p, "import") /\ j.todo = {} /\ j.ready = {}
    /\ recorded' = recorded \cup {j.bundle}
    /\ Goes(p, [at |-> "collect"])
    /\ UNCHANGED <<sources, rows, named, files, runs>>

-----------------------------------------------------------------------------
(* Remote uploads and probe replays of the API server *)

\* applyRemoteAgentUpload, after its checks of the request.
StartUpload(p, b) ==
    /\ Start(p, "upload")
    /\ Goes(p, Loading("upload", b, DOMAIN Contents[b], {}))
    /\ UNCHANGED <<store, files>>

\* One payload after the other: an identical one is skipped, a broken one ends
\* the upload, and the raw blobs of the others are written first.  Whether the
\* source is there is read before that.
ReceivePayload(p, s) ==
    LET j == job[p] IN
    /\ At(p, "upload") /\ j.ready = {} /\ s \in j.todo
    /\ \/ /\ s \in Present(j.bundle) /\ Identical(j.bundle, s)
          /\ Goes(p, Loading("upload", j.bundle, j.todo \ {s}, {}))
          /\ UNCHANGED files
       \/ /\ <<j.bundle, s>> \in Broken
          /\ Goes(p, Idle)
          /\ UNCHANGED files
       \/ /\ ~(s \in Present(j.bundle) /\ Identical(j.bundle, s)) /\ <<j.bundle, s>> \notin Broken
          /\ Goes(p, Loading(IF s \in sources THEN "upload" ELSE "create",
                             j.bundle, j.todo \ {s}, {s}))
          /\ files' = IF j.bundle \in HasRaw
                        THEN files \cup FilesOf(s, Contents[j.bundle][s]) ELSE files
    /\ UNCHANGED <<store, runs>>

\* An upload is merged into a source that was there: blobs it does not mention
\* stay, those it brings are written again.  It replaces one that was not.
MergePayload(p, s) ==
    LET j == job[p]
        new == Contents[j.bundle][s]
        Kept(blobs) == IF j.at = "create" THEN {} ELSE blobs
    IN /\ At(p, "upload") \/ At(p, "create")
       /\ s \in j.ready
       /\ SetRows(s, Kept(rows[s]) \cup new, (Kept(named[s]) \ new) \cup Names(j.bundle, s))
       /\ Goes(p, Loading("upload", j.bundle, j.todo, {}))
       /\ UNCHANGED <<files, runs>>

RecordUpload(p) ==
    LET j == job[p] IN
    /\ At(p, "upload") /\ j.todo = {} /\ j.ready = {}
    /\ recorded' = recorded \cup {j.bundle}
    /\ Goes(p, Idle)
    /\ UNCHANGED <<sources, rows, named, files, runs>>

\* snapshotRawBlobs of a replayed probe: files that exist are kept.
Snapshot(p, s, seen) ==
    /\ Start(p, "replay")
    /\ files' = files \cup FilesOf(s, seen)
    /\ Goes(p, [at |-> "replay", source |-> s, seen |-> seen])
    /\ UNCHANGED store

Persist(p) ==
    LET j == job[p] IN
    /\ At(p, "replay")
    /\ SetRows(j.source, rows[j.source] \cup j.seen, named[j.source] \cup j.seen)
    /\ Goes(p, Idle)
    /\ UNCHANGED <<files, runs>>

-----------------------------------------------------------------------------
(* pruneOrphanRawSnapshots *)

\* gc --write.  A preview takes the same steps and removes nothing.
StartGc(p) ==
    /\ Start(p, "gc")
    /\ Goes(p, [at |-> "collect"])
    /\ UNCHANGED <<store, files>>

\* Mutant: the rows are listed with a limit, as listBlobs does.
ListReferencesLimited ==
    CHOOSE page \in SUBSET Referenced : Cardinality(page) = (IF Referenced = {} THEN 0 ELSE 1)

\* collectReferencedRawPaths: what the rows name at this moment is kept.
ListReferences == Referenced

References(p) ==
    /\ At(p, "collect")
    /\ Goes(p, [at |-> "walk", keep |-> ListReferences])
    /\ UNCHANGED <<store, files, runs>>

\* collectFiles.
Walk(p) ==
    /\ At(p, "walk")
    /\ Goes(p, [at |-> "remove", list |-> files, keep |-> job[p].keep])
    /\ UNCHANGED <<store, files, runs>>

\* A listed file that was not referenced is removed, if it is still there.
RemoveFile(p, f) ==
    LET j == job[p] IN
    /\ At(p, "remove") /\ f \in j.list
    /\ files' = IF f \in j.keep THEN files ELSE files \ {f}
    /\ Goes(p, [at |-> "remove", list |-> j.list \ {f}, keep |-> j.keep])
    /\ UNCHANGED <<store, runs>>

\* removeEmptyDirectories: the directory of a source is found empty, and
\* removed with what it then holds.
FindEmpty(p) ==
    /\ At(p, "remove") /\ job[p].list = {}
    /\ Goes(p, [at |-> "rmdir", empty |-> {s \in Source : \A b \in Blob : <<s, b>> \notin files}])
    /\ UNCHANGED <<store, files, runs>>

RemoveDirectories(p) ==
    /\ At(p, "rmdir")
    /\ files' = files \ (job[p].empty \X Blob)
    /\ Goes(p, Idle)
    /\ UNCHANGED <<store, runs>>

-----------------------------------------------------------------------------
(* Other commands on the same rows *)

\* A sync of the CLI loads the rows of a source before it reads the files.
StartSync(p, s) ==
    /\ Start(p, "sync")
    /\ Goes(p, [at |-> "sync", source |-> s, loaded |-> rows[s], names |-> named[s]])
    /\ UNCHANGED <<store, files>>

\* It writes the rows it kept (of reused files, or in front of what was appended)
\* as it loaded them, captured path included, and what it read without one.  The
\* other rows of files that changed are dropped.
WriteSync(p, kept, changed, new) ==
    LET j == job[p]
        s == j.source
    IN /\ At(p, "sync")
       /\ kept \subseteq j.loaded /\ kept \cap new = {}
       /\ changed \subseteq rows[s] \ (kept \cup new)
       /\ SetRows(s, (rows[s] \ changed) \cup kept \cup new,
                  (named[s] \ (changed \cup kept \cup new)) \cup (kept \cap j.names))
       /\ Goes(p, Idle)
       /\ UNCHANGED <<files, runs>>

\* Mutant: a purge deletes the row and not what names its file.
PurgeOnlyRow(p, s, b) ==
    /\ Start(p, "purge")
    /\ b \in rows[s]
    /\ SetRows(s, rows[s] \ {b}, named[s])
    /\ UNCHANGED <<files, job>>

\* A purge or a project deletion drops the rows of orphaned blobs.
Purge(p, s, b) ==
    /\ Start(p, "purge")
    /\ b \in rows[s]
    /\ SetRows(s, rows[s] \ {b}, named[s] \ {b})
    /\ UNCHANGED <<files, job>>

\* The process dies, or the step it is at throws: a transaction that is open is
\* rolled back, files stay where they are.
Die(p) ==
    /\ ~At(p, "idle")
    /\ Goes(p, Idle)
    /\ UNCHANGED <<store, files, runs>>

-----------------------------------------------------------------------------
(* The specification *)

Init ==
    /\ sources = {}
    /\ rows = [s \in Source |-> {}]
    /\ named = [s \in Source |-> {}]
    /\ files = {}
    /\ recorded = {}
    /\ job = [p \in Process |-> Idle]
    /\ runs = [p \in Process |-> 0]

Next ==
    \E p \in Process :
        \/ \E b \in Bundle : StartUpload(p, b)
        \/ \E b \in Bundle, mode \in {"error", "skip", "replace"} : StartImport(p, b, mode)
        \/ \E s \in Source : Prepare(p, s) \/ Apply(p, s) \/ ReceivePayload(p, s) \/ MergePayload(p, s)
        \/ Record(p) \/ RecordUpload(p)
        \/ \E s \in Source : \E seen \in (SUBSET Blob) \ {{}} : Snapshot(p, s, seen)
        \/ Persist(p)
        \/ StartGc(p) \/ References(p) \/ Walk(p) \/ FindEmpty(p) \/ RemoveDirectories(p)
        \/ \E f \in Source \X Blob : RemoveFile(p, f)
        \/ \E s \in Source : StartSync(p, s)
        \/ \E kept, changed, new \in SUBSET Blob : WriteSync(p, kept, changed, new)
        \/ \E s \in Source, b \in Blob : Purge(p, s, b)
        \/ Die(p)

Spec == Init /\ [][Next]_vars

-----------------------------------------------------------------------------
(* Properties *)

\* Types; a name belongs to a row, and only a source that is there has rows.
TypeOK ==
    /\ sources \in SUBSET Source
    /\ rows \in [Source -> SUBSET Blob]
    /\ named \in [Source -> SUBSET Blob]
    /\ \A s \in Source : named[s] \subseteq rows[s] /\ (rows[s] # {} => s \in sources)
    /\ files \in SUBSET (Source \X Blob)
    /\ recorded \in SUBSET Bundle
    /\ job \in [Process -> Jobs]
    /\ runs \in [Process -> 0..MaxCommands]

\* Every row that names a raw snapshot has its file.  docs/guide/cli.md: gc only
\* removes files that are not referenced by any current captured_blobs row.
NamedFilesExist == Referenced \subseteq files

\* bundle.ts: an import is all or nothing with respect to damaged payloads.  No
\* payload is applied of an import in which another is, or will be found, broken.
\* (bundle.test.ts: no partial import when a later payload is corrupted.)
BrokenBundlesApplyNothing ==
    [][\A p \in Process : \A s \in Source : Apply(p, s) =>
          ({job[p].bundle} \X (job[p].todo \cup job[p].ready)) \cap Broken = {}]_vars
=============================================================================
