----------------------------- MODULE CodexSync -----------------------------
(***************************************************************************)
(* How cchistory sync keeps a Codex source.  One file is one session.  A   *)
(* sync lists the files, loads what is stored about them, and goes through *)
(* them in batches.  A batch that looks unchanged is only probed; any      *)
(* other is read, parsed and stored file by file inside one transaction.   *)
(* While a sync runs, Codex goes on writing its files, other syncs run,    *)
(* files cannot be read, and the process may die.                          *)
(*                                                                         *)
(* A file is a sequence of pieces.  Its content is the number of its last  *)
(* rewrite, its length, and whether it ends in the middle of a line.  Its  *)
(* stat is the number of its last change.  Records, fragments, atoms and   *)
(* turns are the pieces that were parsed.                                  *)
(***************************************************************************)
EXTENDS Naturals, FiniteSets

CONSTANTS
    Path,        \* files the source may have
    Removable,   \* the ones that may disappear
    Proc,        \* sync processes
    MaxLen,      \* bound on the length of a file
    LargeLen,    \* files at least this long are read in a stream, twice
    Thresholds,  \* CCHISTORY_MINIMAL_PRELOAD_BLOB_THRESHOLD, for each sync
    MaxEdits,    \* bound on changes of the files
    MaxTroubles, \* bound on unreadable files and crashes
    MaxUpgrades  \* bound on new parser versions

ASSUME CodexSyncAssumption ==
    /\ Removable \subseteq Path
    /\ MaxLen \in Nat \ {0}
    /\ LargeLen \in Nat \ {0}
    /\ Thresholds \subseteq Nat
    /\ MaxEdits \in Nat
    /\ MaxTroubles \in Nat
    /\ MaxUpgrades \in Nat

VARIABLES
    file,     \* file[p]: is it there, what it holds, and its stat
    edits,    \* number of changes so far
    troubles, \* number of failures so far
    parser,   \* version of the parser the installed program has
    stage,    \* parser_version of the stored stage_runs; 0: no source stored
    blobs,    \* captured_blobs of a path, each with the pieces its raw_records hold
    shown,    \* the pieces the session of a path shows
    axis,     \* source_file_ledger: presence of a path, "none" when there is no row
    sync      \* what each process is doing

store == <<stage, blobs, shown, axis>>
world == <<file, edits, troubles, parser>>
vars == <<world, store, sync>>

Versions == 1 .. MaxUpgrades + 1
Content == [gen : 1 .. MaxEdits + 1, len : 1 .. MaxLen, torn : BOOLEAN]
Piece == [gen : 1 .. MaxEdits + 1, lo : 0 .. MaxLen, hi : 1 .. MaxLen, by : Versions]
Blob == [content : Content, stat : 0 .. MaxEdits, stable : BOOLEAN,
         pieces : SUBSET Piece, bad : BOOLEAN]

Present == {p \in Path : file[p].there}

Piecewise(S) == UNION {b.pieces : b \in S}

\* selectTailBlob, as a set: the first of the longest blobs, if there is one.
Longest(S) == {b \in S : \A d \in S : d.content.len <= b.content.len}
Tail(S) == IF Longest(S) = {} THEN {} ELSE {CHOOSE b \in Longest(S) : TRUE}

----------------------------------------------------------------------------
(* Reading one file.  A reading tells the stat found first, the bytes that *)
(* were captured with the stat and stability recorded for them, and the    *)
(* bytes that were parsed, which a large file yields in a second read.     *)

Large(c) == c.len >= LargeLen

Quiet(p) ==
    [ok |-> file[p].there, first |-> file[p].stat, at |-> file[p].content,
     stat |-> file[p].stat, stable |-> TRUE, parsed |-> {file[p].content}]

Unreadable(p) == [Quiet(p) EXCEPT !.ok = FALSE]

\* Mutation of Overtaken: the stat taken after the capture is recorded as stable.
OvertakenUnnoticed(p, c, at) ==
    [Quiet(p) EXCEPT !.at = at, !.stat = edits + 1,
                     !.parsed = {IF Large(file[p].content) THEN c ELSE at}]

\* The file becomes c during the capture, which yields what it held before or c.
Overtaken(p, c, at) ==
    [Quiet(p) EXCEPT !.at = at, !.stat = edits + 1, !.stable = FALSE,
                     !.parsed = {IF Large(file[p].content) THEN c ELSE at}]

\* The file becomes c, or cannot be opened again, after the capture.
Reread(p, cs) == [Quiet(p) EXCEPT !.parsed = cs]

\* What the probe makes of a reading: rows to write, and whether they may
\* replace what is shown.
Nothing == [rows |-> {}, ok |-> FALSE, same |-> FALSE]

BlobOf(r, pieces) ==
    [content |-> r.at, stat |-> r.stat, stable |-> r.stable, pieces |-> pieces,
     bad |-> \E c \in r.parsed : c.torn]

\* Mutation of Parsed: counts one line past the end.
ParsedPastEnd(r, base, by) ==
    {[gen |-> c.gen, lo |-> base, hi |-> c.len + 1, by |-> by] : c \in r.parsed}

Parsed(r, base, by) == {[gen |-> c.gen, lo |-> base, hi |-> c.len, by |-> by] : c \in r.parsed}

\* Mutation of CanAppend: the boundary and earlier failures are not looked at.
CanAppendAnywhere(prev, r) ==
    \E t \in Tail(prev.blobs), c \in r.parsed :
        /\ prev.heavy /\ Piecewise(prev.blobs) # {}
        /\ r.at.len > t.content.len /\ c.len > t.content.len
        /\ r.stat # t.stat
        /\ c.gen = t.content.gen

\* processAppendedJsonlBlob: only the bytes after the tail are parsed.
CanAppend(prev, r) ==
    \E t \in Tail(prev.blobs), c \in r.parsed :
        /\ prev.heavy /\ Piecewise(prev.blobs) # {}
        /\ r.at.len > t.content.len /\ c.len > t.content.len
        /\ r.stat # t.stat
        /\ c.gen = t.content.gen
        /\ ~t.content.torn
        /\ \A b \in prev.blobs : ~b.bad

Append(prev, r, by) ==
    LET base == (CHOOSE t \in Tail(prev.blobs) : TRUE).content.len
        new == BlobOf(r, Parsed(r, base, by))
    IN  [rows |-> {b \in prev.blobs : b.pieces # {}} \cup {new}, ok |-> ~new.bad, same |-> FALSE]

Parse(r, by) ==
    LET new == BlobOf(r, Parsed(r, 0, by))
    IN  [rows |-> {new}, ok |-> ~new.bad /\ new.pieces # {}, same |-> FALSE]

\* streamSingleFileInputs.
Probe(prev, r, by) ==
    IF ~r.ok \/ \E t \in Tail(prev.blobs) : t.stable /\ t.stat = r.first THEN Nothing
    ELSE IF \E t \in Tail(prev.blobs) : t.content = r.at
    THEN [rows |-> {BlobOf(r, {})}, ok |-> FALSE, same |-> TRUE]
    ELSE IF CanAppend(prev, r) THEN Append(prev, r, by) ELSE Parse(r, by)

----------------------------------------------------------------------------
(* Writing.                                                                *)

\* shouldBackfillPreservedBlobIdentity: reused bytes give a blob that has no
\* stable identity the one they were read under.
Backfilled(S, n) ==
    {IF b.content = n.content /\ ~b.stable /\ n.stable
     THEN [b EXCEPT !.stat = n.stat, !.stable = TRUE] ELSE b : b \in S}

Upserted(S, rows) == {b \in S : ~\E n \in rows : n.content = b.content} \cup rows

Written(S, res) ==
    IF res.ok THEN res.rows
    ELSE IF res.same THEN UNION {Backfilled(S, n) : n \in res.rows}
    ELSE Upserted(S, res.rows)

\* reconcileSourcePresenceInTransaction: a path with a row, the files listed.
Reconciled(p, files) ==
    IF axis[p] = "none" THEN "none" ELSE IF p \in files THEN "current" ELSE "source_absent"

\* What a write leaves of the rows, given the result of each path.
WriteRows(files, result) ==
    /\ blobs' = [p \in Path |-> Written(blobs[p], result[p])]
    /\ shown' = [p \in Path |-> IF result[p].ok THEN Piecewise(result[p].rows) ELSE shown[p]]
    /\ axis' = [p \in Path |->
            IF \/ result[p].ok
               \/ axis[p] = "none" /\ result[p].rows # {} /\ ~result[p].same
            THEN "current" ELSE Reconciled(p, files)]

----------------------------------------------------------------------------
(* syncCodexSourceInBatches.                                               *)

NoPrev == [heavy |-> FALSE, blobs |-> {}]
NoPrevs == [p \in Path |-> NoPrev]
NoResult == [p \in Path |-> Nothing]
Idle == [phase |-> "idle", files |-> {}, todo |-> {}, tails |-> [p \in Path |-> {}],
         stage |-> 0, parser |-> 1, thin |-> FALSE, batch |-> {}, prev |-> NoPrevs,
         result |-> NoResult, pending |-> FALSE]

\* listSourceFiles and getSourceIncrementalMetadataPayload.  Without files the
\* source has one empty batch.
Start(s) ==
    /\ sync[s].phase = "idle"
    /\ \E limit \in Thresholds : sync' = [sync EXCEPT ![s] = [Idle EXCEPT
            !.phase = IF Present = {} THEN "merge" ELSE "batch",
            !.files = Present,
            !.todo = Present,
            !.tails = [p \in Path |-> Tail(blobs[p])],
            !.stage = stage,
            !.parser = parser,
            !.thin = Cardinality(UNION {{p} \X blobs[p] : p \in Path}) > limit]]
    /\ UNCHANGED <<world, store>>

Matches(y, p) == file[p].there /\ \E t \in y.tails[p] : t.stable /\ t.stat = file[p].stat

\* Mutation of Previous: rows of another parser version are reused.
PreviousAnyProfile(y, p) ==
    IF y.stage = 0 THEN [heavy |-> TRUE, blobs |-> blobs[p]]
    ELSE IF y.thin \/ Matches(y, p) THEN [heavy |-> FALSE, blobs |-> y.tails[p]]
    ELSE [heavy |-> TRUE, blobs |-> blobs[p]]

\* buildIncrementalReusePayload; for a source that was not stored when the
\* sync began, whatever another sync has stored since.
Previous(y, p) ==
    IF y.stage = 0
    THEN IF stage = y.parser THEN [heavy |-> TRUE, blobs |-> blobs[p]] ELSE NoPrev
    ELSE IF y.stage # y.parser THEN NoPrev
    ELSE IF y.thin \/ Matches(y, p) THEN [heavy |-> FALSE, blobs |-> y.tails[p]]
    ELSE [heavy |-> TRUE, blobs |-> blobs[p]]

\* buildCodexMetadataOnlyReusePayloadForStableBatch decides the way of a batch.
Load(s) ==
    LET y == sync[s]
    IN  /\ y.phase = "batch"
        /\ \E B \in (SUBSET y.todo) \ {{}} :
            LET unchanged == y.stage = y.parser /\ \A p \in B : Matches(y, p)
            IN  sync' = [sync EXCEPT
                    ![s].phase = IF unchanged THEN "probe" ELSE "merge",
                    ![s].batch = B,
                    ![s].prev = [p \in Path |-> IF p \in B THEN Previous(y, p) ELSE NoPrev]]
        /\ UNCHANGED <<world, store>>

\* The batch is done; the last one is followed by the prune.
Done(y, pending) ==
    [y EXCEPT !.phase = IF y.todo = y.batch THEN "prune" ELSE "batch",
              !.todo = @ \ y.batch, !.batch = {}, !.prev = NoPrevs,
              !.result = NoResult, !.pending = pending]

\* The stage_runs a streaming batch leaves: each id is written once, and the
\* first chunk of a file carries the ones stored before the sync.
StageAfter(y) == IF y.batch # {} /\ y.stage # 0 THEN y.stage ELSE y.parser

\* streamCodexMergeBatch: the files are read inside the transaction.
Merge(s, result) ==
    /\ sync[s].phase = "merge"
    /\ WriteRows(sync[s].files, result)
    /\ stage' = StageAfter(sync[s])
    /\ sync' = [sync EXCEPT ![s] = Done(@, FALSE)]

\* runSourceProbe on a batch that looked unchanged.  Only when it found
\* nothing, and no file failed, is there nothing to write.
ProbeBatch(s, result, failed) ==
    /\ sync[s].phase = "probe"
    /\ sync' = [sync EXCEPT ![s] =
            IF ~failed /\ result = NoResult THEN Done(@, TRUE)
            ELSE [@ EXCEPT !.phase = "late", !.result = result]]
    /\ UNCHANGED store

\* writeBatchPayload: mergeSourcePayloadByOriginPath with what was found.
LateMerge(s) ==
    LET y == sync[s]
    IN  /\ y.phase = "late"
        /\ WriteRows(y.files, y.result)
        /\ stage' = y.parser
        /\ sync' = [sync EXCEPT ![s] = Done(y, FALSE)]
        /\ UNCHANGED world

\* updateSourceSyncMetadata if the last batch had nothing to write, and
\* pruneSourcePayloadByObservedOriginPaths, which only notes who is absent.
Prune(s) ==
    LET y == sync[s]
    IN  /\ y.phase = "prune"
        /\ axis' = [p \in Path |-> Reconciled(p, y.files)]
        /\ stage' = IF y.pending THEN y.parser ELSE stage
        /\ sync' = [sync EXCEPT ![s] = Idle]
        /\ UNCHANGED <<world, blobs, shown>>

\* The files of the batch are read.
Read(s, reading) ==
    /\ sync[s].phase \in {"merge", "probe"}
    /\ \E result \in {[p \in Path |->
            IF p \in sync[s].batch THEN Probe(sync[s].prev[p], reading[p], sync[s].parser)
            ELSE Nothing]} :
        \/ Merge(s, result)
        \/ ProbeBatch(s, result, \E p \in sync[s].batch : ~reading[p].ok)

ReadQuietly(s) ==
    /\ Read(s, [p \in Path |-> Quiet(p)])
    /\ UNCHANGED world

\* Whatever a sync does unless something disturbs it.
Step(s) == Start(s) \/ Load(s) \/ ReadQuietly(s) \/ LateMerge(s) \/ Prune(s)

----------------------------------------------------------------------------
(* The surroundings.                                                       *)

\* Codex extends a file by whole lines or part of a line, or rewrites it; or
\* only the stat of the file changes.
Changes(c) ==
    {d \in Content :
        \/ d = c
        \/ d.gen = c.gen /\ d.len = c.len + 1
        \/ d.gen = edits + 2 /\ ~d.torn}

Become(p, there, c) ==
    /\ edits < MaxEdits
    /\ edits' = edits + 1
    /\ file' = [file EXCEPT ![p] = [there |-> there, content |-> c, stat |-> edits + 1]]

Edit(p) ==
    /\ \E c \in Changes(file[p].content) : Become(p, TRUE, c)
    /\ UNCHANGED <<troubles, parser, store, sync>>

Remove(p) ==
    /\ p \in Removable /\ file[p].there
    /\ Become(p, FALSE, file[p].content)
    /\ UNCHANGED <<troubles, parser, store, sync>>

\* A file changes while it is read.
ReadDuringEdit(s) ==
    /\ \E p \in sync[s].batch \cap Present : \E c \in Changes(file[p].content) :
        /\ Become(p, TRUE, c)
        /\ \E r \in {Overtaken(p, c, at) : at \in {file[p].content, c}} \cup
                    (IF Large(file[p].content) THEN {Reread(p, {c})} ELSE {}) :
              Read(s, [q \in Path |-> IF q = p THEN r ELSE Quiet(q)])
    /\ UNCHANGED <<troubles, parser>>

Trouble == troubles < MaxTroubles /\ troubles' = troubles + 1

\* A file cannot be read, or a large file not a second time.
ReadFails(s) ==
    /\ Trouble
    /\ \E p \in sync[s].batch \cap Present :
        \E r \in {Unreadable(p)} \cup (IF Large(file[p].content) THEN {Reread(p, {})} ELSE {}) :
            Read(s, [q \in Path |-> IF q = p THEN r ELSE Quiet(q)])
    /\ UNCHANGED <<file, edits, parser>>

\* A process dies; its transaction is rolled back.
Crash(s) ==
    /\ Trouble
    /\ sync[s].phase # "idle"
    /\ sync' = [sync EXCEPT ![s] = Idle]
    /\ UNCHANGED <<file, edits, parser, store>>

\* A new version of the program is installed between syncs.
Upgrade ==
    /\ parser <= MaxUpgrades
    /\ \A s \in Proc : sync[s].phase = "idle"
    /\ parser' = parser + 1
    /\ UNCHANGED <<file, edits, troubles, store, sync>>

Init ==
    /\ file = [p \in Path |-> [there |-> TRUE, stat |-> 0,
                               content |-> [gen |-> 1, len |-> 1, torn |-> FALSE]]]
    /\ edits = 0
    /\ troubles = 0
    /\ parser = 1
    /\ stage = 0
    /\ blobs = [p \in Path |-> {}]
    /\ shown = [p \in Path |-> {}]
    /\ axis = [p \in Path |-> "none"]
    /\ sync = [s \in Proc |-> Idle]

Next ==
    \/ \E s \in Proc : Step(s) \/ ReadDuringEdit(s) \/ ReadFails(s) \/ Crash(s)
    \/ \E p \in Path : Edit(p) \/ Remove(p)
    \/ Upgrade

\* Every sync that has begun goes on, and syncs are run again and again.
Spec == Init /\ [][Next]_vars /\ \A s \in Proc : WF_vars(Step(s))

----------------------------------------------------------------------------
(* Properties.                                                             *)

Phases == {"idle", "batch", "merge", "probe", "late", "prune"}
Prev == [heavy : BOOLEAN, blobs : SUBSET Blob]
Result == [rows : SUBSET Blob, ok : BOOLEAN, same : BOOLEAN]
Sync == [phase : Phases, files : SUBSET Path, todo : SUBSET Path, tails : [Path -> SUBSET Blob],
         stage : Versions \cup {0}, parser : Versions, thin : BOOLEAN, batch : SUBSET Path,
         prev : [Path -> Prev], result : [Path -> Result], pending : BOOLEAN]

TypeOK ==
    /\ file \in [Path -> [there : BOOLEAN, content : Content, stat : 0 .. MaxEdits]]
    /\ edits \in 0 .. MaxEdits
    /\ troubles \in 0 .. MaxTroubles
    /\ parser \in Versions
    /\ stage \in Versions \cup {0}
    /\ blobs \in [Path -> SUBSET Blob]
    /\ shown \in [Path -> SUBSET Piece]
    /\ axis \in [Path -> {"none", "current", "source_absent"}]
    /\ sync \in [Proc -> Sync]

\* The pieces ps make up the content c, each piece once.
MakesUp(ps, c) ==
    /\ \A x \in ps : x.gen = c.gen /\ x.hi <= c.len
    /\ \A i \in 1 .. c.len : Cardinality({x \in ps : x.lo < i /\ i <= x.hi}) = 1

\* Whatever was reused, appended, refused and retried before, a session shows
\* exactly the bytes of one capture that is still stored, every line once, and
\* no line that does not parse (HIGH_LEVEL_DESIGN_FREEZE.md:55, 809).
ShownIsOneCapture ==
    \A p \in Path : shown[p] # {} =>
        \E b \in blobs[p] : ~b.content.torn /\ MakesUp(shown[p], b.content)

\* A file whose stat is the stored one holds the stored bytes: the comparison
\* that lets a sync skip a file without reading it.
StatsTellContent ==
    \A p \in Path : \A b \in Tail(blobs[p]) :
        file[p].there /\ b.stable /\ b.stat = file[p].stat => b.content = file[p].content

CaughtUp ==
    \A p \in Path :
        /\ file[p].there => axis[p] = "current"
        /\ ~file[p].there => axis[p] # "current"
        /\ file[p].there /\ ~file[p].content.torn =>
              MakesUp(shown[p], file[p].content) /\ \A x \in shown[p] : x.by = parser

\* Once the files stay as they are, syncs bring the store up to date: every
\* file that ends with a whole line is shown as it is, by the present parser,
\* and every path is known to be there or not.
StoreCatchesUp == <>[]CaughtUp
=============================================================================
