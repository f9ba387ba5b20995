------------------------------ MODULE ReadIndex ------------------------------
(***************************************************************************)
(* The resolved read index and the read caches over it: resolved reads of  *)
(* CCHistoryStorage (internal/storage.ts) and the tables and triggers of   *)
(* db/resolved-read-index.ts.                                              *)
(*                                                                         *)
(* Several connections, one per process, share a store.  The index (turn   *)
(* and session links, project_current) is derived from input tables whose  *)
(* triggers mark it as not ready; a resolved read rebuilds it under the    *)
(* write lock.  Each connection keeps maps in memory and the version of    *)
(* the store they belong to: PRAGMA data_version, which counts the commits *)
(* of the other connections, and the generation the triggers count.  The   *)
(* first is only compared with the stamp, so the model keeps the answer.   *)
(* A connection is one thread: a facade call runs to its end, but another  *)
(* process can commit between any two of its statements.  Only a streaming *)
(* merge is suspended with its transaction open.                           *)
(*                                                                         *)
(* The contents of a table are a version number, new in every write.       *)
(***************************************************************************)
EXTENDS Naturals, Sequences, FiniteSets

CONSTANTS
    Conn,           \* the connections
    NoConn,         \* the write lock is free
    MaxWrites,      \* bound: versions written
    MaxGeneration   \* bound: generation at which no reindex of a ready index starts

ASSUME ConnAssumption == NoConn \notin Conn
ASSUME BoundAssumption == MaxWrites \in Nat /\ MaxGeneration \in Nat

VARIABLES
    rows,        \* committed version of each table
    clock,       \* the last version given
    links,       \* version of the linker inputs the index was derived from
    ready,       \* resolved_read_index_state.ready
    generation,  \* resolved_read_index_state.generation
    writer,      \* connection whose streaming merge holds the lock
    draft,       \* its tables, uncommitted
    moved,       \* PRAGMA data_version differs from cachedDataVersion: another
                 \* connection committed since the maps were stamped
    cache,       \* the maps of each connection
    stamp,       \* cachedLinkGeneration
    doing,       \* the read a connection is in the middle of
    held,        \* tables read so far for the map being built
    page         \* the last page that was answered

store == <<rows, clock, links, ready, generation>>
stream == <<writer, draft>>
maps == <<moved, cache, stamp>>
vars == <<store, stream, maps, doing, held, page>>

\* "links": every table with a trigger (user_turns_v2, sessions, candidates,
\* overrides, captured_blobs, source_instances).  "fragments": source_fragments,
\* which has none.
Table == {"links", "fragments"}

\* "turns" is the project link snapshot and the maps built from it alone,
\* "related" cachedRelatedWorkBySessionId, "projects" cachedProjectsById.
\* cachedSessionsById and the search resolver (projects, overrides, candidates
\* and sessions) are filled by plain statements too, like "related".
Map == {"turns", "related", "projects"}

\* What a map reads, in this order.
Reads(op) == IF op = "related" THEN <<"links", "fragments">> ELSE <<"links">>

\* A map is the version of each table it was built from.
NoMap == [t \in {} |-> 0]
NoMaps == [m \in Map |-> NoMap]

Free == writer = NoConn

\* Mutant: facade calls are let through while the connection is streaming.
MayCallAlways(c) == c \in Conn

\* The getter `db` refuses every facade call of a connection that is streaming.
MayCall(c) == writer # c

Idle(c) == doing[c] = "idle" /\ MayCall(c)

\* A commit of c that changed the store moves the others' data version.
Commit(c) == moved' = [d \in Conn |-> d # c \/ moved[d]]

\* Connection c stamps its maps with generation g and the data version of this
\* moment; the commit before it, if any, moves the others'.
Stamp(c, g, movedOthers) ==
    /\ moved' = [movedOthers EXCEPT ![c] = FALSE]
    /\ stamp' = [stamp EXCEPT ![c] = g]

AllMoved == [c \in Conn |-> TRUE]

-----------------------------------------------------------------------------
(* Validity of the maps *)

\* Mutant: the maps are kept as long as the index is ready.
AcceptsReady(c) == ready

Accepts(c) == ~moved[c] /\ stamp[c] = generation /\ ready

\* Mutant: the maps are dropped only when the index is not ready.
CheckedByReady(c) ==
    /\ cache' = IF ready THEN cache ELSE [cache EXCEPT ![c] = NoMaps]
    /\ Stamp(c, generation, moved)

\* checkResolvedCacheValidity.
Checked(c) ==
    /\ cache' = IF Accepts(c) THEN cache ELSE [cache EXCEPT ![c] = NoMaps]
    /\ Stamp(c, generation, moved)

-----------------------------------------------------------------------------
(* Writes *)

\* Mutant: no trigger is on the input tables.
MarksNothing(ts) == FALSE

\* A write of the tables ts marks the index when a trigger is on one of them.
Marks(ts) == ready /\ "links" \in ts

Written(ts) == [t \in Table |-> IF t \in ts THEN clock + 1 ELSE rows[t]]

\* Autocommitted writes and withSourceWriteTransaction without a refresh: the
\* maps are dropped; the facade call may go on to refreshDerivedState.
Write(c, ts) ==
    /\ Idle(c) /\ Free /\ clock < MaxWrites
    /\ clock' = clock + 1
    /\ rows' = Written(ts)
    /\ ready' = (ready /\ ~Marks(ts))
    /\ generation' = IF Marks(ts) THEN generation + 1 ELSE generation
    /\ Commit(c)
    /\ cache' = [cache EXCEPT ![c] = NoMaps]
    /\ doing' = [doing EXCEPT ![c] = "reindex"]
    /\ UNCHANGED <<links, stream, stamp, held, page>>

\* replaceSourcePayload and the merge by origin path: the refresh is nested in
\* the transaction of the write, so it neither drops the maps nor stamps them.
WriteAndReindex(c, ts) ==
    /\ Idle(c) /\ Free /\ clock < MaxWrites
    /\ clock' = clock + 1
    /\ rows' = Written(ts)
    /\ links' = rows'["links"]
    /\ ready' = TRUE
    /\ generation' = IF ready THEN generation + 1 ELSE generation
    /\ Commit(c)
    /\ cache' = [cache EXCEPT ![c] = NoMaps]
    /\ UNCHANGED <<stream, stamp, doing, held, page>>

\* refreshDerivedState in a transaction of its own.  project_current is written
\* while the state row says what it said before, so the generation counts it
\* only if the index was ready.
Reindex(c) ==
    /\ doing[c] \in {"idle", "reindex"} /\ MayCall(c) /\ Free
    /\ (doing[c] = "idle" /\ ready) => generation < MaxGeneration
    /\ links' = rows["links"]
    /\ ready' = TRUE
    /\ generation' = IF ready THEN generation + 1 ELSE generation
    /\ cache' = [cache EXCEPT ![c] = [NoMaps EXCEPT !["turns"] = [t \in {"links"} |-> rows[t]]]]
    /\ Stamp(c, generation', AllMoved)
    /\ doing' = [doing EXCEPT ![c] = "idle"]
    /\ UNCHANGED <<rows, clock, stream, held, page>>

\* refreshDerived: false ends the call after the write, as does a refresh that
\* throws and rolls back.
SkipReindex(c) ==
    /\ doing[c] = "reindex"
    /\ doing' = [doing EXCEPT ![c] = "idle"]
    /\ UNCHANGED <<store, stream, maps, held, page>>

-----------------------------------------------------------------------------
(* Streaming merge: the transaction stays open while the iterator is awaited *)

OpenStream(c, ts) ==
    /\ Idle(c) /\ Free /\ clock < MaxWrites
    /\ clock' = clock + 1
    /\ writer' = c
    /\ draft' = Written(ts)
    /\ UNCHANGED <<rows, links, ready, generation, maps, doing, held, page>>

CloseStream(c) ==
    /\ writer = c /\ doing[c] = "idle"
    /\ writer' = NoConn
    /\ cache' = [cache EXCEPT ![c] = NoMaps]
    /\ \/ LET marked == Marks({t \in Table : draft[t] # rows[t]})
          IN /\ rows' = draft
             /\ ready' = (ready /\ ~marked)
             /\ generation' = IF marked THEN generation + 1 ELSE generation
             /\ Commit(c)
       \/ UNCHANGED <<rows, ready, generation, moved>>   \* rolled back
    /\ draft' = rows'
    /\ UNCHANGED <<clock, links, stamp, doing, held, page>>

-----------------------------------------------------------------------------
(* Resolved reads, in a transaction *)

\* The tables as connection c sees them.
Visible(c) == IF writer = c THEN draft ELSE rows

\* The check of withResolvedRead and of buildProjectLinkSnapshot.  Then the
\* read waits for the write lock, up to the busy timeout of 5 seconds.
StartResolved(c, op) ==
    /\ Idle(c)
    /\ Checked(c)
    /\ doing' = [doing EXCEPT ![c] =
                   IF op = "turns" /\ cache'[c]["turns"] # NoMap THEN "idle" ELSE op]
    /\ UNCHANGED <<store, stream, held, page>>

\* Mutant: a resolved read trusts the links it finds.
PreparedNever == Free /\ UNCHANGED store

\* Under the lock the index is rebuilt if it is not ready.  The refresh is
\* nested: it neither drops the maps nor stamps them.
Prepared ==
    /\ Free
    /\ links' = IF ready THEN links ELSE rows["links"]
    /\ ready' = TRUE
    /\ UNCHANGED <<rows, clock, generation>>

\* listResolvedTurnsPage, getResolvedTurn, getResolvedSession: rows with their
\* links, and nothing kept.
ReadPage(c) ==
    /\ doing[c] = "page"
    /\ Prepared
    /\ page' = [rows |-> rows["links"], links |-> links']
    /\ IF ready THEN UNCHANGED moved ELSE Commit(c)
    /\ doing' = [doing EXCEPT ![c] = "idle"]
    /\ UNCHANGED <<stream, cache, stamp, held>>

\* buildProjectLinkSnapshot keeps the snapshot and stamps the maps with the
\* version read inside the transaction.
ReadSnapshot(c) ==
    /\ doing[c] = "turns"
    /\ Prepared
    /\ cache' = [cache EXCEPT ![c]["turns"] = [t \in {"links"} |-> rows[t]]]
    /\ Stamp(c, generation, IF ready THEN moved ELSE AllMoved)
    /\ doing' = [doing EXCEPT ![c] = "idle"]
    /\ UNCHANGED <<stream, held, page>>

\* The lock is not free within the timeout (nothing is dropped), or the read
\* throws, rolls back and drops the maps.
FailResolved(c) ==
    /\ doing[c] \in {"page", "turns"}
    /\ \/ ~Free /\ UNCHANGED cache
       \/ Free /\ cache' = [cache EXCEPT ![c] = NoMaps]
    /\ doing' = [doing EXCEPT ![c] = "idle"]
    /\ UNCHANGED <<store, stream, moved, stamp, held, page>>

-----------------------------------------------------------------------------
(* Maps filled by plain statements, one snapshot of the store each *)

\* buildSessionRelatedWorkIndex and getProjectsById: the check.
StartMap(c, m) ==
    /\ Idle(c)
    /\ Checked(c)
    /\ doing' = [doing EXCEPT ![c] = IF cache'[c][m] = NoMap THEN m ELSE "idle"]
    /\ held' = [held EXCEPT ![c] = NoMap]
    /\ UNCHANGED <<store, stream, page>>

\* The next SELECT.  Projects are read from project_current as it is, ready or
\* not: it has the version of the inputs it was derived from.  (An empty one makes
\* listProjects compute the projects from the inputs of now: never older.)
Value(c, m, t) == IF m = "projects" THEN links ELSE Visible(c)[t]

ReadMap(c, m) ==
    LET n == Cardinality(DOMAIN held[c]) + 1
        t == Reads(m)[n]
        now == [u \in DOMAIN held[c] \cup {t} |->
                  IF u = t THEN Value(c, m, t) ELSE held[c][u]]
        full == n = Len(Reads(m))
    IN /\ doing[c] = m
       /\ held' = [held EXCEPT ![c] = IF full THEN NoMap ELSE now]
       /\ cache' = IF full THEN [cache EXCEPT ![c][m] = now] ELSE cache
       /\ doing' = [doing EXCEPT ![c] = IF full THEN "idle" ELSE m]
       /\ UNCHANGED <<store, stream, moved, stamp, page>>

-----------------------------------------------------------------------------
(* The specification *)

\* A store that was synced, or one whose index was never built.
Init ==
    /\ clock = 1
    /\ rows = [t \in Table |-> 1]
    /\ ready \in BOOLEAN
    /\ links = IF ready THEN 1 ELSE 0
    /\ generation = 0
    /\ writer = NoConn
    /\ draft = rows
    /\ moved = AllMoved
    /\ cache = [c \in Conn |-> NoMaps]
    /\ stamp = [c \in Conn |-> 0]
    /\ doing = [c \in Conn |-> "idle"]
    /\ held = [c \in Conn |-> NoMap]
    /\ page = [rows |-> 0, links |-> 0]

Next ==
    \E c \in Conn :
        \/ \E ts \in (SUBSET Table) \ {{}} :
              Write(c, ts) \/ WriteAndReindex(c, ts) \/ OpenStream(c, ts)
        \/ Reindex(c)
        \/ SkipReindex(c)
        \/ CloseStream(c)
        \/ \E op \in {"page", "turns"} : StartResolved(c, op)
        \/ ReadPage(c)
        \/ ReadSnapshot(c)
        \/ FailResolved(c)
        \/ \E m \in {"related", "projects"} : StartMap(c, m) \/ ReadMap(c, m)

Spec == Init /\ [][Next]_vars

-----------------------------------------------------------------------------
(* Properties *)

MapTypes == UNION {[ts -> 0..clock] : ts \in SUBSET Table}

\* Versions are given before they are used, and a connection that is streaming
\* is in no other call: the facade refuses it (internal/storage.ts 140-147).
TypeOK ==
    /\ clock \in Nat
    /\ rows \in [Table -> 0..clock] /\ draft \in [Table -> 0..clock]
    /\ links \in 0..clock
    /\ ready \in BOOLEAN
    /\ generation \in Nat
    /\ writer \in Conn \cup {NoConn}
    /\ writer \in Conn => doing[writer] = "idle"
    /\ moved \in [Conn -> BOOLEAN]
    /\ cache \in [Conn -> [Map -> MapTypes]]
    /\ stamp \in [Conn -> Nat]
    /\ doing \in [Conn -> {"idle", "reindex", "page", "turns", "related", "projects"}]
    /\ held \in [Conn -> MapTypes]
    /\ page \in [rows : 0..clock, links : 0..clock]

\* A ready index was derived from the rows the store holds, whoever wrote them
\* and whether or not the writer refreshed it (triggers, db/resolved-read-index.ts).
IndexIsCurrent == ready => links = rows["links"]

\* A page never decorates the turns of one version with the links of another.
PagesAreCoherent == page.rows = page.links

Current(map) == \A t \in DOMAIN map : map[t] = rows[t]

\* The snapshot of project links a connection would use again is that of the
\* rows in the store: no commit of another process, and no rolled back write of
\* its own, leaves an older one behind a valid stamp.
SnapshotIsCurrent == \A c \in Conn : Accepts(c) => Current(cache[c]["turns"])

\* While a streaming merge is open no map holds one of its pending rows.
NoUncommittedReads ==
    ~Free => \A c \in Conn, m \in Map : \A t \in DOMAIN cache[c][m] :
                draft[t] # rows[t] => cache[c][m][t] # draft[t]

\* The related work and the projects a connection would answer from memory are
\* those of the store, as long as it keeps no snapshot.  (A snapshot stamps the
\* version of its own transaction, which a commit after the check may have made
\* newer than the other maps.)
MapsAreCurrent ==
    \A c \in Conn : Accepts(c) /\ cache[c]["turns"] = NoMap =>
        \A m \in {"related", "projects"} : Current(cache[c][m])
=============================================================================
