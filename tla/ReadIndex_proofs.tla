--------------------------- MODULE ReadIndex_proofs ---------------------------
(***************************************************************************)
(* The read index is what its inputs say whenever it is taken to be ready, *)
(* a page joins turns and links of one version, no connection answers from *)
(* a map that is older than the store, and none keeps a row of a merge     *)
(* that may be rolled back: for any number of connections, writes, reads.  *)
(***************************************************************************)
EXTENDS ReadIndex, FiniteSetTheorems, TLAPS

-----------------------------------------------------------------------------
(* The index, the pages and the snapshots *)

Steps == {"idle", "reindex", "page", "turns", "related", "projects"}

\* The types, but for the bounds on versions.
Shape ==
    /\ DOMAIN rows = Table /\ rows = [t \in Table |-> rows[t]]
    /\ ready \in BOOLEAN
    /\ moved \in [Conn -> BOOLEAN]
    /\ cache = [c \in Conn |-> [m \in Map |-> cache[c][m]]]
    /\ stamp = [c \in Conn |-> stamp[c]]
    /\ doing \in [Conn -> Steps]

\* A connection that has not seen a commit since it stamped its maps has a
\* snapshot of the rows in the store, whatever its generation says.
UnmovedIsCurrent == \A c \in Conn : ~moved[c] => Current(cache[c]["turns"])

IInv ==
    /\ Shape
    /\ IndexIsCurrent
    /\ PagesAreCoherent
    /\ UnmovedIsCurrent

-----------------------------------------------------------------------------
(* Maps *)

LEMMA NoMapCurrent == Current(NoMap)
  BY DEF Current, NoMap

LEMMA MapNames == {"turns", "related", "projects"} = Map /\ "links" \in Table /\ "fragments" \in Table
  BY DEF Map, Table

\* A snapshot is of the rows it is taken from.
LEMMA SnapshotCurrent == Current([t \in {"links"} |-> rows[t]])
  BY DEF Current

\* Every connection but c has seen a commit of c.
LEMMA CommitMoves ==
  ASSUME NEW c \in Conn, Commit(c), Shape
  PROVE  /\ moved' \in [Conn -> BOOLEAN]
         /\ \A d \in Conn : d # c => moved'[d]
         /\ moved'[c] = moved[c]
  BY DEF Commit, Shape

\* Dropping the maps of one connection.
LEMMA DropMaps ==
  ASSUME Shape, NEW c \in Conn, cache' = [cache EXCEPT ![c] = NoMaps]
  PROVE  /\ cache' = [d \in Conn |-> [m \in Map |-> cache'[d][m]]]
         /\ cache'[c]["turns"] = NoMap
         /\ \A d \in Conn : d # c => cache'[d] = cache[d]
  BY MapNames DEF Shape, NoMaps

\* Setting one map of a connection.
LEMMA SetMap ==
  ASSUME Shape, NEW c \in Conn, NEW m \in Map, NEW value, cache' = [cache EXCEPT ![c][m] = value]
  PROVE  /\ cache' = [d \in Conn |-> [n \in Map |-> cache'[d][n]]]
         /\ cache'[c][m] = value
         /\ \A n \in Map : n # m => cache'[c][n] = cache[c][n]
         /\ \A d \in Conn : d # c => cache'[d] = cache[d]
  BY DEF Shape

\* The check drops the maps or finds that nothing has moved; either way the
\* connection is up to date after it.
LEMMA CheckedKeeps ==
  ASSUME IInv, NEW c \in Conn, Checked(c), UNCHANGED rows
  PROVE  /\ moved' \in [Conn -> BOOLEAN] /\ stamp' = [d \in Conn |-> stamp'[d]]
         /\ cache' = [d \in Conn |-> [m \in Map |-> cache'[d][m]]]
         /\ UnmovedIsCurrent'
  <1> USE DEF IInv
  <1>1. moved' = [moved EXCEPT ![c] = FALSE] /\ stamp' = [stamp EXCEPT ![c] = generation]
    BY DEF Checked, Stamp
  <1>2. moved' \in [Conn -> BOOLEAN] /\ stamp' = [d \in Conn |-> stamp'[d]]
    BY <1>1 DEF Shape
  <1>3. \A d \in Conn : d # c => moved'[d] = moved[d]
    BY <1>1 DEF Shape
  <1>4. CASE Accepts(c)
    <2>1. cache' = cache /\ ~moved[c]
      BY <1>4 DEF Checked, Accepts
    <2>2. UnmovedIsCurrent'
      BY <1>3, <2>1 DEF UnmovedIsCurrent, Current
    <2> QED BY <1>2, <2>1, <2>2 DEF Shape
  <1>5. CASE ~Accepts(c)
    <2>1. cache' = [cache EXCEPT ![c] = NoMaps]
      BY <1>5 DEF Checked
    <2>2. /\ cache' = [d \in Conn |-> [m \in Map |-> cache'[d][m]]]
          /\ cache'[c]["turns"] = NoMap
          /\ \A d \in Conn : d # c => cache'[d] = cache[d]
      BY <2>1, DropMaps
    <2>3. UnmovedIsCurrent'
      BY <1>3, <2>2, NoMapCurrent DEF UnmovedIsCurrent, Current, NoMap
    <2> QED BY <1>2, <2>2, <2>3
  <1> QED BY <1>4, <1>5

\* A write of c drops the maps of c, and all the others have to check theirs.
LEMMA WriterKeeps ==
  ASSUME IInv, NEW c \in Conn, Commit(c), cache' = [cache EXCEPT ![c] = NoMaps]
  PROVE  /\ moved' \in [Conn -> BOOLEAN]
         /\ cache' = [d \in Conn |-> [m \in Map |-> cache'[d][m]]]
         /\ UnmovedIsCurrent'
  <1> USE DEF IInv
  <1>1. moved' \in [Conn -> BOOLEAN] /\ \A d \in Conn : d # c => moved'[d]
    BY CommitMoves
  <1>2. /\ cache' = [d \in Conn |-> [m \in Map |-> cache'[d][m]]]
        /\ cache'[c]["turns"] = NoMap
    BY DropMaps
  <1>3. UnmovedIsCurrent'
    BY <1>1, <1>2 DEF UnmovedIsCurrent, Current, NoMap
  <1> QED BY <1>1, <1>2, <1>3

\* A step that leaves rows and maps alone and may show the others a commit.
LEMMA ReaderKeeps ==
  ASSUME IInv, NEW c \in Conn, UNCHANGED <<rows, cache>>, UNCHANGED moved \/ Commit(c)
  PROVE  moved' \in [Conn -> BOOLEAN] /\ UnmovedIsCurrent'
  <1>1. moved' \in [Conn -> BOOLEAN] /\ \A d \in Conn : ~moved'[d] => ~moved[d]
    BY CommitMoves DEF IInv, Shape
  <1> QED BY <1>1 DEF IInv, UnmovedIsCurrent, Current

\* What is left of the invariant once the maps are dealt with.
LEMMA Assembled ==
  ASSUME DOMAIN rows' = Table, rows' = [t \in Table |-> rows'[t]], ready' \in BOOLEAN,
         moved' \in [Conn -> BOOLEAN], stamp' = [d \in Conn |-> stamp'[d]],
         cache' = [d \in Conn |-> [m \in Map |-> cache'[d][m]]], doing' \in [Conn -> Steps],
         ready' => links' = rows'["links"], PagesAreCoherent', UnmovedIsCurrent'
  PROVE  IInv'
  BY DEF IInv, Shape, IndexIsCurrent

-----------------------------------------------------------------------------
(* One lemma per group of actions *)

LEMMA InitCurrent == Init => IInv
  <1> SUFFICES ASSUME Init PROVE IInv
    OBVIOUS
  <1>1. Shape
    BY DEF Init, Shape, AllMoved, NoMaps, Steps
  <1>2. IndexIsCurrent /\ PagesAreCoherent
    BY MapNames DEF Init, IndexIsCurrent, PagesAreCoherent
  <1>3. UnmovedIsCurrent
    BY DEF Init, UnmovedIsCurrent, AllMoved
  <1> QED BY <1>1, <1>2, <1>3 DEF IInv

LEMMA WriteCurrent ==
  ASSUME IInv, NEW c \in Conn, NEW ts \in SUBSET Table, Write(c, ts) \/ WriteAndReindex(c, ts)
  PROVE  IInv'
  <1> USE DEF IInv
  <1>1. Commit(c) /\ cache' = [cache EXCEPT ![c] = NoMaps] /\ UNCHANGED <<stamp, page>>
    BY DEF Write, WriteAndReindex
  <1>2. rows' = [t \in Table |-> IF t \in ts THEN clock + 1 ELSE rows[t]]
    BY DEF Write, WriteAndReindex, Written
  <1>3. ready' \in BOOLEAN /\ doing' \in [Conn -> Steps]
    BY DEF Write, WriteAndReindex, Shape, Steps, Marks
  <1>4. ready' => links' = rows'["links"]
    <2>1. CASE Write(c, ts)
      BY <1>2, <2>1, MapNames DEF Write, Marks, IndexIsCurrent
    <2>2. CASE WriteAndReindex(c, ts)
      BY <2>2 DEF WriteAndReindex
    <2> QED BY <2>1, <2>2
  <1>5. PagesAreCoherent'
    BY <1>1 DEF PagesAreCoherent
  <1> QED BY <1>1, <1>2, <1>3, <1>4, <1>5, WriterKeeps, Assembled DEF Shape

LEMMA ReindexCurrent ==
  ASSUME IInv, NEW c \in Conn, Reindex(c)
  PROVE  IInv'
  <1> USE DEF IInv
  <1> DEFINE snapshot == [t \in {"links"} |-> rows[t]]
  <1>1. /\ moved' = [AllMoved EXCEPT ![c] = FALSE] /\ stamp' = [stamp EXCEPT ![c] = generation']
        /\ cache' = [cache EXCEPT ![c] = [NoMaps EXCEPT !["turns"] = snapshot]]
        /\ UNCHANGED <<rows, page>>
    BY DEF Reindex, Stamp
  <1>2. moved' \in [Conn -> BOOLEAN] /\ \A d \in Conn : d # c => moved'[d]
    BY <1>1 DEF AllMoved
  <1>3. stamp' = [d \in Conn |-> stamp'[d]]
    BY <1>1 DEF Shape
  <1>4. /\ cache' = [d \in Conn |-> [m \in Map |-> cache'[d][m]]]
        /\ cache'[c]["turns"] = snapshot
    BY <1>1, MapNames DEF Shape, NoMaps
  <1>5. UnmovedIsCurrent'
    BY <1>1, <1>2, <1>4 DEF UnmovedIsCurrent, Current
  <1>6. ready' \in BOOLEAN /\ doing' \in [Conn -> Steps] /\ (ready' => links' = rows'["links"])
    BY DEF Reindex, Shape, Steps
  <1>7. PagesAreCoherent'
    BY <1>1 DEF PagesAreCoherent
  <1> QED BY <1>1, <1>2, <1>3, <1>4, <1>5, <1>6, <1>7, Assembled DEF Shape

LEMMA StreamCurrent ==
  ASSUME IInv, NEW c \in Conn, NEW ts, ts \subseteq Table,
         SkipReindex(c) \/ OpenStream(c, ts)
  PROVE  IInv'
  <1> USE DEF IInv
  <1>1. UNCHANGED <<rows, links, ready, maps, page>> /\ doing' \in [Conn -> Steps]
    BY DEF SkipReindex, OpenStream, store, Shape, Steps
  <1>2. UNCHANGED <<moved, cache, stamp>>
    BY <1>1 DEF maps
  <1>3. UnmovedIsCurrent'
    BY <1>1, <1>2, ReaderKeeps
  <1> QED BY <1>1, <1>2, <1>3, Assembled DEF Shape, IndexIsCurrent, PagesAreCoherent

\* The draft is a version of the tables.
DraftShape == draft = [t \in Table |-> draft[t]]

LEMMA CloseCurrent ==
  ASSUME IInv, DraftShape, NEW c \in Conn, CloseStream(c)
  PROVE  IInv'
  <1> USE DEF IInv
  <1>1. cache' = [cache EXCEPT ![c] = NoMaps] /\ UNCHANGED <<links, stamp, doing, page>>
    BY DEF CloseStream
  <1>2. CASE UNCHANGED <<rows, ready, generation, moved>>
    <2>1. /\ cache' = [d \in Conn |-> [m \in Map |-> cache'[d][m]]]
          /\ cache'[c]["turns"] = NoMap
          /\ \A d \in Conn : d # c => cache'[d] = cache[d]
      BY <1>1, DropMaps
    <2>2. UnmovedIsCurrent'
      BY <1>2, <2>1 DEF UnmovedIsCurrent, Current, NoMap
    <2> QED BY <1>1, <1>2, <2>1, <2>2, Assembled DEF Shape, IndexIsCurrent, PagesAreCoherent
  <1>3. CASE ~UNCHANGED <<rows, ready, generation, moved>>
    <2> DEFINE marked == Marks({t \in Table : draft[t] # rows[t]})
    <2>1. rows' = draft /\ ready' = (ready /\ ~marked) /\ Commit(c)
      BY <1>3 DEF CloseStream
    <2>2. ready' => links' = rows'["links"]
      BY <1>1, <2>1, MapNames DEF IndexIsCurrent, Marks
    <2>3. ready' \in BOOLEAN
      BY <2>1 DEF Shape
    <2>4. DOMAIN rows' = Table /\ rows' = [t \in Table |-> rows'[t]]
      BY <2>1 DEF DraftShape
    <2> QED BY <1>1, <2>1, <2>2, <2>3, <2>4, WriterKeeps, Assembled DEF Shape, PagesAreCoherent
  <1> QED BY <1>2, <1>3

LEMMA StartCurrent ==
  ASSUME IInv, NEW c \in Conn, NEW op,
         \/ op \in {"page", "turns"} /\ StartResolved(c, op)
         \/ op \in {"related", "projects"} /\ StartMap(c, op)
  PROVE  IInv'
  <1>1. Checked(c) /\ UNCHANGED <<rows, links, ready, page>>
    BY DEF StartResolved, StartMap, store
  <1>2. doing' \in [Conn -> Steps]
    BY DEF StartResolved, StartMap, IInv, Shape, Steps
  <1>3. /\ moved' \in [Conn -> BOOLEAN] /\ stamp' = [d \in Conn |-> stamp'[d]]
        /\ cache' = [d \in Conn |-> [m \in Map |-> cache'[d][m]]]
        /\ UnmovedIsCurrent'
    BY <1>1, CheckedKeeps
  <1> QED BY <1>1, <1>2, <1>3, Assembled DEF IInv, Shape, IndexIsCurrent, PagesAreCoherent

LEMMA ReadCurrent ==
  ASSUME IInv, NEW c \in Conn, ReadPage(c) \/ ReadSnapshot(c)
  PROVE  IInv'
  <1> USE DEF IInv
  <1>1. UNCHANGED rows /\ ready' \in BOOLEAN /\ links' = rows["links"] /\ doing' \in [Conn -> Steps]
    BY DEF ReadPage, ReadSnapshot, Prepared, IndexIsCurrent, Shape, Steps
  <1>2. CASE ReadPage(c)
    <2>1. page' = [rows |-> rows["links"], links |-> links'] /\ UNCHANGED <<cache, stamp>>
      BY <1>2 DEF ReadPage
    <2>2. moved' \in [Conn -> BOOLEAN] /\ UnmovedIsCurrent'
      BY <1>1, <1>2, <2>1, ReaderKeeps DEF ReadPage
    <2>3. PagesAreCoherent'
      BY <1>1, <2>1 DEF PagesAreCoherent
    <2> QED BY <1>1, <2>1, <2>2, <2>3, Assembled DEF Shape
  <1>3. CASE ReadSnapshot(c)
    <2> DEFINE snapshot == [t \in {"links"} |-> rows[t]]
               others == IF ready THEN moved ELSE AllMoved
    <2>1. /\ cache' = [cache EXCEPT ![c]["turns"] = snapshot]
          /\ moved' = [others EXCEPT ![c] = FALSE] /\ stamp' = [stamp EXCEPT ![c] = generation]
          /\ UNCHANGED page
      BY <1>3 DEF ReadSnapshot, Stamp
    <2>2. others \in [Conn -> BOOLEAN] /\ \A d \in Conn : ~others[d] => ~moved[d]
      BY DEF AllMoved, Shape
    <2>3. moved' \in [Conn -> BOOLEAN] /\ \A d \in Conn : d # c /\ ~moved'[d] => ~moved[d]
      <3> HIDE DEF others
      <3> QED BY <2>1, <2>2
    <2>4. stamp' = [d \in Conn |-> stamp'[d]]
      BY <2>1 DEF Shape
    <2> HIDE DEF snapshot
    <2>5. /\ cache' = [d \in Conn |-> [m \in Map |-> cache'[d][m]]]
          /\ cache'[c]["turns"] = snapshot
          /\ \A d \in Conn : d # c => cache'[d] = cache[d]
      BY <2>1, SetMap, MapNames
    <2>6. UnmovedIsCurrent'
      BY <1>1, <2>3, <2>5 DEF UnmovedIsCurrent, Current, snapshot
    <2>7. PagesAreCoherent'
      BY <2>1 DEF PagesAreCoherent
    <2> QED BY <1>1, <2>3, <2>4, <2>5, <2>6, <2>7, Assembled DEF Shape
  <1> QED BY <1>2, <1>3

LEMMA FailCurrent ==
  ASSUME IInv, NEW c \in Conn, FailResolved(c)
  PROVE  IInv'
  <1> USE DEF IInv
  <1>1. UNCHANGED <<rows, links, ready, moved, stamp, page>> /\ doing' \in [Conn -> Steps]
    BY DEF FailResolved, store, Shape, Steps
  <1>2. CASE UNCHANGED cache
    BY <1>1, <1>2, ReaderKeeps, Assembled DEF Shape, IndexIsCurrent, PagesAreCoherent
  <1>3. CASE cache' = [cache EXCEPT ![c] = NoMaps]
    <2>1. /\ cache' = [d \in Conn |-> [m \in Map |-> cache'[d][m]]]
          /\ cache'[c]["turns"] = NoMap
          /\ \A d \in Conn : d # c => cache'[d] = cache[d]
      BY <1>3, DropMaps
    <2>2. UnmovedIsCurrent'
      BY <1>1, <2>1 DEF UnmovedIsCurrent, Current, NoMap
    <2> QED BY <1>1, <2>1, <2>2, Assembled DEF Shape, IndexIsCurrent, PagesAreCoherent
  <1> QED BY <1>2, <1>3 DEF FailResolved

LEMMA MapCurrent ==
  ASSUME IInv, NEW c \in Conn, NEW m \in {"related", "projects"}, ReadMap(c, m)
  PROVE  IInv'
  <1> USE DEF IInv
  <1>1. UNCHANGED <<rows, links, ready, moved, stamp, page>> /\ doing' \in [Conn -> Steps]
    BY DEF ReadMap, store, Shape, Steps
  <1>2. m \in Map /\ m # "turns" /\ "turns" \in Map
    BY MapNames
  <1>3. CASE UNCHANGED cache
    BY <1>1, <1>3, ReaderKeeps, Assembled DEF Shape, IndexIsCurrent, PagesAreCoherent
  <1>4. ASSUME NEW now, cache' = [cache EXCEPT ![c][m] = now]
        PROVE  IInv'
    <2>0. /\ cache' = [d \in Conn |-> [n \in Map |-> cache'[d][n]]]
          /\ \A n \in Map : n # m => cache'[c][n] = cache[c][n]
          /\ \A d \in Conn : d # c => cache'[d] = cache[d]
      <3>1. m \in Map /\ Shape
        BY <1>2
      <3>2. cache' = [cache EXCEPT ![c][m] = now]
        BY <1>4
      <3> QED BY <3>1, <3>2 DEF Shape
    <2>1. \A d \in Conn : cache'[d]["turns"] = cache[d]["turns"]
      BY <1>2, <2>0
    <2>2. UnmovedIsCurrent'
      BY <1>1, <2>1 DEF UnmovedIsCurrent, Current
    <2> QED BY <1>1, <2>0, <2>2, Assembled DEF Shape, IndexIsCurrent, PagesAreCoherent
  <1> QED BY <1>3, <1>4 DEF ReadMap

LEMMA DraftSteps == DraftShape /\ Shape /\ [Next]_vars => DraftShape'
  <1> SUFFICES ASSUME DraftShape, Shape, [Next]_vars PROVE DraftShape'
    OBVIOUS
  <1>1. CASE UNCHANGED draft
    BY <1>1 DEF DraftShape
  <1>2. ASSUME NEW c \in Conn, NEW ts, OpenStream(c, ts)
        PROVE  DraftShape'
    BY <1>2 DEF OpenStream, Written, DraftShape
  <1>3. ASSUME NEW c \in Conn, CloseStream(c)
        PROVE  DraftShape'
    BY <1>3 DEF CloseStream, DraftShape, Shape
  <1>4. UNCHANGED draft \/ (\E c \in Conn : CloseStream(c) \/ \E ts : OpenStream(c, ts))
    BY DEF Next, vars, stream, Write, WriteAndReindex, Reindex, SkipReindex, StartResolved, ReadPage,
           ReadSnapshot, FailResolved, StartMap, ReadMap
  <1> QED BY <1>1, <1>2, <1>3, <1>4

LEMMA CurrentSteps == IInv /\ DraftShape /\ [Next]_vars => IInv' /\ DraftShape'
  <1> SUFFICES ASSUME IInv, DraftShape, [Next]_vars PROVE IInv'
    BY DraftSteps DEF IInv
  <1>1. CASE UNCHANGED vars
    <2>1. UNCHANGED <<rows, links, ready, moved, cache, stamp, doing, page>>
      BY <1>1 DEF vars, store, maps
    <2>2. UnmovedIsCurrent'
      BY <2>1 DEF IInv, UnmovedIsCurrent, Current
    <2> QED BY <2>1, <2>2, Assembled DEF IInv, Shape, IndexIsCurrent, PagesAreCoherent
  <1>2. CASE Next
    <2>1. PICK c \in Conn :
            \/ \E ts \in SUBSET Table : Write(c, ts) \/ WriteAndReindex(c, ts)
            \/ Reindex(c)
            \/ SkipReindex(c) \/ \E ts \in SUBSET Table : OpenStream(c, ts)
            \/ CloseStream(c)
            \/ \E op \in {"page", "turns"} : StartResolved(c, op)
            \/ \E m \in {"related", "projects"} : StartMap(c, m)
            \/ ReadPage(c) \/ ReadSnapshot(c)
            \/ FailResolved(c)
            \/ \E m \in {"related", "projects"} : ReadMap(c, m)
      BY <1>2 DEF Next
    <2> QED BY <2>1, WriteCurrent, ReindexCurrent, StreamCurrent, CloseCurrent, StartCurrent,
               ReadCurrent, FailCurrent, MapCurrent
  <1> QED BY <1>1, <1>2

LEMMA InitDraft == Init => DraftShape
  BY DEF Init, DraftShape

\* An index that says it is ready was derived from the rows in the store.
THEOREM IndexAlwaysCurrent == Spec => []IndexIsCurrent
  <1>1. IInv => IndexIsCurrent
    BY DEF IInv
  <1> QED BY <1>1, InitCurrent, InitDraft, CurrentSteps, PTL DEF Spec

\* No page decorates turns with the links of another version.
THEOREM PagesAlwaysCoherent == Spec => []PagesAreCoherent
  <1>1. IInv => PagesAreCoherent
    BY DEF IInv
  <1> QED BY <1>1, InitCurrent, InitDraft, CurrentSteps, PTL DEF Spec

\* No connection answers from a snapshot that a commit has made old.
THEOREM SnapshotsAlwaysCurrent == Spec => []SnapshotIsCurrent
  <1>1. IInv => SnapshotIsCurrent
    BY DEF IInv, UnmovedIsCurrent, SnapshotIsCurrent, Accepts
  <1> QED BY <1>1, InitCurrent, InitDraft, CurrentSteps, PTL DEF Spec

-----------------------------------------------------------------------------
(* Types *)

\* What a connection has read so far fits the map it is building.
HeldShape ==
    \A c \in Conn :
        /\ doing[c] = "related" => DOMAIN held[c] \in {{}, {"links"}}
        /\ doing[c] = "projects" => held[c] = NoMap

TypeInv == TypeOK /\ HeldShape

\* A map of versions that were given.
LEMMA MapTyped ==
  ASSUME NEW map, NEW ts \in SUBSET Table, map \in [ts -> 0..clock]
  PROVE  map \in MapTypes
  BY DEF MapTypes

\* A write gives a new version and keeps the old ones.
LEMMA MapTypesGrow ==
  ASSUME clock \in Nat, clock' \in Nat, clock <= clock'
  PROVE  0..clock \subseteq 0..clock' /\ MapTypes \subseteq MapTypes'
  <1>1. 0..clock \subseteq 0..clock'
    OBVIOUS
  <1>2. ASSUME NEW map \in MapTypes
        PROVE  map \in MapTypes'
    <2>1. PICK ts \in SUBSET Table : map \in [ts -> 0..clock]
      BY <1>2 DEF MapTypes
    <2>2. map \in [ts -> 0..clock']
      BY <1>1, <2>1
    <2> QED BY <2>2 DEF MapTypes
  <1> QED BY <1>1, <1>2

LEMMA NoMapTyped == NoMap \in MapTypes /\ NoMaps \in [Map -> MapTypes] /\ DOMAIN NoMap = {}
  <1>1. NoMap \in [{} -> 0..clock]
    BY DEF NoMap
  <1>2. NoMap \in MapTypes
    BY <1>1, MapTyped
  <1> QED BY <1>2 DEF NoMaps, NoMap

\* What every step but a write keeps: the versions given so far.
LEMMA TypesStay ==
  ASSUME UNCHANGED clock
  PROVE  MapTypes' = MapTypes
  BY DEF MapTypes

LEMMA CommitTyped ==
  ASSUME NEW c \in Conn, Commit(c), moved \in [Conn -> BOOLEAN]
  PROVE  moved' \in [Conn -> BOOLEAN]
  BY DEF Commit

LEMMA CheckedTyped ==
  ASSUME TypeOK, NEW c \in Conn, Checked(c)
  PROVE  /\ moved' \in [Conn -> BOOLEAN] /\ stamp' \in [Conn -> Nat]
         /\ cache' \in [Conn -> [Map -> MapTypes]]
  BY NoMapTyped DEF TypeOK, Checked, Stamp

LEMMA WriteTyped ==
  ASSUME TypeInv, NEW c \in Conn, NEW ts \in SUBSET Table,
         Write(c, ts) \/ WriteAndReindex(c, ts) \/ OpenStream(c, ts)
  PROVE  TypeInv'
  <1> USE DEF TypeInv
  <1>0. Table = {"links", "fragments"}
    BY DEF Table
  <1>1. clock' = clock + 1 /\ clock \in Nat /\ clock' \in Nat /\ clock <= clock'
    BY DEF Write, WriteAndReindex, OpenStream, TypeOK
  <1>2. 0..clock \subseteq 0..clock' /\ MapTypes \subseteq MapTypes' /\ clock + 1 \in 0..clock'
    BY <1>1, MapTypesGrow
  <1>3. Written(ts) \in [Table -> 0..clock'] /\ rows \in [Table -> 0..clock'] /\ draft \in [Table -> 0..clock']
    BY <1>1, <1>2 DEF Written, TypeOK
  <1>4. /\ rows' \in [Table -> 0..clock'] /\ draft' \in [Table -> 0..clock']
        /\ links' \in 0..clock' /\ ready' \in BOOLEAN /\ generation' \in Nat
    <2> rows \in [Table -> 0..clock'] /\ links \in 0..clock'
      BY <1>2 DEF TypeOK
    <2>1. CASE Write(c, ts)
      BY <1>3, <2>1 DEF Write, stream, TypeOK
    <2>2. CASE WriteAndReindex(c, ts)
      BY <1>0, <1>3, <2>2 DEF WriteAndReindex, stream, TypeOK
    <2>3. CASE OpenStream(c, ts)
      BY <1>3, <2>3 DEF OpenStream, TypeOK
    <2> QED BY <2>1, <2>2, <2>3
  <1>5. /\ doing' \in [Conn -> {"idle", "reindex", "page", "turns", "related", "projects"}]
        /\ \A d \in Conn : doing'[d] \in {doing[d], "reindex"}
        /\ writer' \in Conn \cup {NoConn} /\ (writer' \in Conn => doing'[writer'] = "idle")
    <2>1. CASE OpenStream(c, ts)
      BY <2>1 DEF OpenStream, Idle, TypeOK
    <2>2. CASE Write(c, ts)
      BY <2>2, ConnAssumption DEF Write, Idle, Free, stream, TypeOK
    <2>3. CASE WriteAndReindex(c, ts)
      BY <2>3, ConnAssumption DEF WriteAndReindex, Idle, Free, stream, TypeOK
    <2> QED BY <2>1, <2>2, <2>3
  <1>6. moved' \in [Conn -> BOOLEAN] /\ stamp' \in [Conn -> Nat]
    BY CommitTyped DEF Write, WriteAndReindex, OpenStream, maps, TypeOK
  <1>7. cache' \in [Conn -> [Map -> MapTypes']]
    <2>1. cache \in [Conn -> [Map -> MapTypes']]
      BY <1>2 DEF TypeOK
    <2>2. cache' = cache \/ cache' = [cache EXCEPT ![c] = NoMaps]
      BY DEF Write, WriteAndReindex, OpenStream, maps
    <2>3. NoMaps \in [Map -> MapTypes']
      BY <1>2, NoMapTyped
    <2> QED BY <2>1, <2>2, <2>3
  <1>8. held' \in [Conn -> MapTypes'] /\ held' = held
    BY <1>2 DEF Write, WriteAndReindex, OpenStream, TypeOK
  <1>9. page' \in [rows : 0..clock', links : 0..clock']
    BY <1>2 DEF Write, WriteAndReindex, OpenStream, TypeOK
  <1>10. TypeOK'
    BY <1>1, <1>4, <1>5, <1>6, <1>7, <1>8, <1>9 DEF TypeOK
  <1> QED BY <1>5, <1>8, <1>10 DEF HeldShape

LEMMA ReindexTyped ==
  ASSUME TypeInv, NEW c \in Conn, Reindex(c)
  PROVE  TypeInv'
  <1> USE DEF TypeInv
  <1>1. UNCHANGED <<rows, clock, writer, draft, held, page>> /\ MapTypes' = MapTypes
    BY TypesStay DEF Reindex, stream
  <1>2. links' \in 0..clock /\ ready' \in BOOLEAN /\ generation' \in Nat
    BY MapNames DEF Reindex, TypeOK
  <1>3. [t \in {"links"} |-> rows[t]] \in MapTypes
    BY MapNames, MapTyped DEF TypeOK
  <1>4. cache' \in [Conn -> [Map -> MapTypes]]
    BY <1>3, NoMapTyped DEF Reindex, TypeOK
  <1>5. moved' \in [Conn -> BOOLEAN] /\ stamp' \in [Conn -> Nat]
    BY <1>2 DEF Reindex, Stamp, AllMoved, TypeOK
  <1>6. /\ doing' \in [Conn -> {"idle", "reindex", "page", "turns", "related", "projects"}]
        /\ \A d \in Conn : doing'[d] \in {doing[d], "idle"}
    BY DEF Reindex, TypeOK
  <1>7. TypeOK'
    BY <1>1, <1>2, <1>4, <1>5, <1>6 DEF TypeOK
  <1> QED BY <1>1, <1>6, <1>7 DEF HeldShape

LEMMA CloseTyped ==
  ASSUME TypeInv, NEW c \in Conn, CloseStream(c)
  PROVE  TypeInv'
  <1> USE DEF TypeInv
  <1>1. UNCHANGED <<clock, links, stamp, doing, held, page>> /\ MapTypes' = MapTypes
    BY TypesStay DEF CloseStream
  <1>2. /\ rows' \in {rows, draft} /\ draft' = rows' /\ ready' \in BOOLEAN
        /\ generation' \in {generation, generation + 1} /\ writer' = NoConn
    BY DEF CloseStream, TypeOK
  <1>3. moved' \in [Conn -> BOOLEAN]
    BY CommitTyped DEF CloseStream, TypeOK
  <1>4. cache' \in [Conn -> [Map -> MapTypes]]
    BY NoMapTyped DEF CloseStream, TypeOK
  <1>5. TypeOK'
    BY <1>1, <1>2, <1>3, <1>4, ConnAssumption DEF TypeOK
  <1> QED BY <1>1, <1>5 DEF HeldShape

LEMMA StartTyped ==
  ASSUME TypeInv, NEW c \in Conn,
         \/ \E op \in {"page", "turns"} : StartResolved(c, op)
         \/ \E m \in {"related", "projects"} : StartMap(c, m)
  PROVE  TypeInv'
  <1> USE DEF TypeInv
  <1>1. UNCHANGED <<rows, clock, links, ready, generation, writer, draft, page>> /\ MapTypes' = MapTypes
    BY TypesStay DEF StartResolved, StartMap, store, stream
  <1>2. Idle(c) /\ Checked(c)
    BY DEF StartResolved, StartMap
  <1>3. /\ moved' \in [Conn -> BOOLEAN] /\ stamp' \in [Conn -> Nat]
        /\ cache' \in [Conn -> [Map -> MapTypes]]
    BY <1>2, CheckedTyped
  <1>4. /\ doing' \in [Conn -> {"idle", "reindex", "page", "turns", "related", "projects"}]
        /\ \A d \in Conn \ {c} : doing'[d] = doing[d]
    BY DEF StartResolved, StartMap, TypeOK
  <1>5. held' \in [Conn -> MapTypes] /\ \A d \in Conn \ {c} : held'[d] = held[d]
    BY NoMapTyped DEF StartResolved, StartMap, TypeOK
  <1>6. doing'[c] \in {"related", "projects"} => held'[c] = NoMap
    BY <1>4 DEF StartResolved, StartMap, TypeOK
  <1>7. TypeOK'
    BY <1>1, <1>2, <1>3, <1>4, <1>5 DEF TypeOK, Idle, MayCall
  <1> QED BY <1>4, <1>5, <1>6, <1>7, NoMapTyped DEF HeldShape

LEMMA ReadTyped ==
  ASSUME TypeInv, NEW c \in Conn, SkipReindex(c) \/ ReadPage(c) \/ ReadSnapshot(c) \/ FailResolved(c)
  PROVE  TypeInv'
  <1> USE DEF TypeInv
  <1>0. UNCHANGED <<rows, clock, generation, writer, draft, held>>
    BY DEF SkipReindex, ReadPage, ReadSnapshot, FailResolved, Prepared, store, stream
  <1>1. UNCHANGED <<rows, clock, generation, writer, draft, held>> /\ MapTypes' = MapTypes
    BY <1>0, TypesStay
  <1>2. links' \in 0..clock /\ ready' \in BOOLEAN
    <2>1. UNCHANGED <<links, ready>> \/ (links' \in {links, rows["links"]} /\ ready' = TRUE)
      BY DEF SkipReindex, ReadPage, ReadSnapshot, FailResolved, Prepared, store
    <2>2. rows["links"] \in 0..clock /\ links \in 0..clock /\ ready \in BOOLEAN
      BY MapNames DEF TypeOK
    <2> QED BY <2>1, <2>2
  <1>3. page' \in [rows : 0..clock, links : 0..clock]
    <2>1. UNCHANGED page \/ page' = [rows |-> rows["links"], links |-> links']
      BY DEF SkipReindex, ReadPage, ReadSnapshot, FailResolved
    <2> QED BY <1>2, <2>1, MapNames DEF TypeOK
  <1>4. doing' = [doing EXCEPT ![c] = "idle"]
    BY DEF SkipReindex, ReadPage, ReadSnapshot, FailResolved
  <1>5. [t \in {"links"} |-> rows[t]] \in MapTypes
    BY MapNames, MapTyped DEF TypeOK
  <1>6. /\ moved' \in [Conn -> BOOLEAN] /\ stamp' \in [Conn -> Nat]
        /\ cache' \in [Conn -> [Map -> MapTypes]]
    <2>1. CASE SkipReindex(c)
      BY <2>1 DEF SkipReindex, maps, TypeOK
    <2>2. CASE ReadPage(c)
      BY <2>2, CommitTyped DEF ReadPage, TypeOK
    <2>3. CASE ReadSnapshot(c)
      <3>1. moved' \in [Conn -> BOOLEAN] /\ stamp' \in [Conn -> Nat]
        BY <2>3 DEF ReadSnapshot, Stamp, AllMoved, TypeOK
      <3>2. cache' \in [Conn -> [Map -> MapTypes]]
        BY <1>5, <2>3, MapNames DEF ReadSnapshot, TypeOK
      <3> QED BY <3>1, <3>2
    <2>4. CASE FailResolved(c)
      BY <2>4, NoMapTyped DEF FailResolved, TypeOK
    <2> QED BY <2>1, <2>2, <2>3, <2>4
  <1>7. TypeOK'
    BY <1>1, <1>2, <1>3, <1>4, <1>6 DEF TypeOK
  <1> QED BY <1>1, <1>4, <1>7 DEF HeldShape, TypeOK

\* The table a connection reads next.
LEMMA NextReads ==
  ASSUME TypeInv, NEW c \in Conn, NEW m \in {"related", "projects"}, doing[c] = m
  PROVE  LET n == Cardinality(DOMAIN held[c]) + 1
         IN  \/ n = 1 /\ held[c] = NoMap /\ Reads(m)[n] = "links" /\ (n = Len(Reads(m)) <=> m = "projects")
             \/ /\ n = 2 /\ m = "related" /\ DOMAIN held[c] = {"links"}
                /\ Reads(m)[n] = "fragments" /\ n = Len(Reads(m))
  <1>1. Cardinality({}) = 0 /\ Cardinality({"links"}) = 1
    BY FS_EmptySet, FS_Singleton
  <1>2. \A map \in MapTypes : DOMAIN map = {} => map = NoMap
    BY DEF MapTypes, NoMap
  <1>3. CASE held[c] = NoMap
    BY <1>1, <1>3, NoMapTyped DEF Reads
  <1>4. CASE held[c] # NoMap
    <2>1. m = "related" /\ DOMAIN held[c] = {"links"}
      BY <1>2, <1>4 DEF TypeInv, TypeOK, HeldShape
    <2> QED BY <1>1, <2>1 DEF Reads
  <1> QED BY <1>3, <1>4

LEMMA MapStepTyped ==
  ASSUME TypeInv, NEW c \in Conn, NEW m \in {"related", "projects"}, ReadMap(c, m)
  PROVE  TypeInv'
  <1> USE DEF TypeInv
  <1> DEFINE n == Cardinality(DOMAIN held[c]) + 1
             t == Reads(m)[n]
             now == [u \in DOMAIN held[c] \cup {t} |-> IF u = t THEN Value(c, m, t) ELSE held[c][u]]
             full == n = Len(Reads(m))
  <1>1. UNCHANGED <<rows, clock, links, ready, generation, writer, draft, moved, stamp, page>>
        /\ MapTypes' = MapTypes
    BY TypesStay DEF ReadMap, store, stream
  <1>2. /\ doing[c] = m
        /\ held' = [held EXCEPT ![c] = IF full THEN NoMap ELSE now]
        /\ cache' = IF full THEN [cache EXCEPT ![c][m] = now] ELSE cache
        /\ doing' = [doing EXCEPT ![c] = IF full THEN "idle" ELSE m]
    BY DEF ReadMap
  <1>3. \/ n = 1 /\ held[c] = NoMap /\ t = "links" /\ (full <=> m = "projects")
        \/ n = 2 /\ m = "related" /\ DOMAIN held[c] = {"links"} /\ t = "fragments" /\ full
    BY <1>2, NextReads
  <1>4. t \in Table /\ DOMAIN held[c] \subseteq Table
    BY <1>3, MapNames, NoMapTyped
  <1>5. Value(c, m, t) \in 0..clock
    BY <1>4 DEF Value, Visible, TypeOK
  <1>6. now \in MapTypes
    <2>1. \A u \in DOMAIN held[c] : held[c][u] \in 0..clock
      BY DEF TypeOK, MapTypes
    <2> HIDE DEF t
    <2>2. now \in [DOMAIN held[c] \cup {t} -> 0..clock]
      BY <1>5, <2>1
    <2>3. DOMAIN held[c] \cup {t} \in SUBSET Table
      BY <1>4
    <2> HIDE DEF now
    <2> QED BY <2>2, <2>3, MapTyped
  <1>7. ~full => DOMAIN now = {"links"} /\ m = "related"
    BY <1>3, NoMapTyped
  <1> HIDE DEF now, full
  <1>8. held' \in [Conn -> MapTypes] /\ cache' \in [Conn -> [Map -> MapTypes]]
    BY <1>2, <1>6, NoMapTyped, MapNames DEF TypeOK
  <1>9. /\ doing' \in [Conn -> {"idle", "reindex", "page", "turns", "related", "projects"}]
        /\ writer \in Conn => doing'[writer] = "idle"
    BY <1>2 DEF TypeOK
  <1>10. TypeOK'
    BY <1>1, <1>8, <1>9 DEF TypeOK
  <1>11. HeldShape'
    BY <1>2, <1>7 DEF HeldShape, TypeOK
  <1> QED BY <1>10, <1>11

LEMMA InitTyped == Init => TypeInv
  <1> SUFFICES ASSUME Init PROVE TypeInv
    OBVIOUS
  <1>2. TypeOK
    BY MapNames, NoMapTyped, ConnAssumption DEF Init, TypeOK, AllMoved
  <1> QED BY <1>2 DEF Init, TypeInv, HeldShape

LEMMA TypeSteps == TypeInv /\ [Next]_vars => TypeInv'
  <1> SUFFICES ASSUME TypeInv, [Next]_vars PROVE TypeInv'
    OBVIOUS
  <1>1. CASE UNCHANGED vars
    BY <1>1, TypesStay DEF vars, store, stream, maps, TypeInv, TypeOK, HeldShape
  <1>2. CASE Next
    <2>1. PICK c \in Conn :
            \/ \E ts \in SUBSET Table : Write(c, ts) \/ WriteAndReindex(c, ts) \/ OpenStream(c, ts)
            \/ Reindex(c)
            \/ CloseStream(c)
            \/ \E op \in {"page", "turns"} : StartResolved(c, op)
            \/ \E m \in {"related", "projects"} : StartMap(c, m)
            \/ SkipReindex(c) \/ ReadPage(c) \/ ReadSnapshot(c) \/ FailResolved(c)
            \/ \E m \in {"related", "projects"} : ReadMap(c, m)
      BY <1>2 DEF Next
    <2> QED BY <2>1, WriteTyped, ReindexTyped, CloseTyped, StartTyped, ReadTyped, MapStepTyped
  <1> QED BY <1>1, <1>2

\* Versions are given before they are used, whoever reads or writes.
THEOREM TypeCorrect == Spec => []TypeOK
  <1>1. TypeInv => TypeOK
    BY DEF TypeInv
  <1> QED BY <1>1, InitTyped, TypeSteps, PTL DEF Spec

-----------------------------------------------------------------------------
(* Pending rows *)

\* A version is not the pending one of a table that has pending rows.
Hidden(map) == \A t \in DOMAIN map : draft[t] # rows[t] => map[t] # draft[t]

\* While a merge is streaming its rows are in no map, in nothing that was read
\* for one, and not in what the index was derived from.
PendingUnseen ==
    ~Free => /\ draft["links"] # rows["links"] => links # draft["links"]
             /\ \A c \in Conn : Hidden(held[c]) /\ \A m \in Map : Hidden(cache[c][m])

LEMMA NoMapHidden == Hidden(NoMap)
  BY NoMapTyped DEF Hidden

\* A version that was given before is not the one being written.
LEMMA OlderHidden ==
  ASSUME TypeOK, NEW ts \in SUBSET Table, UNCHANGED rows, draft' = Written(ts), NEW map \in MapTypes
  PROVE  Hidden(map)'
  <1>1. PICK us \in SUBSET Table : map \in [us -> 0..clock]
    BY DEF MapTypes
  <1>2. \A t \in us : map[t] # clock + 1
    BY <1>1 DEF TypeOK
  <1>3. \A t \in Table : draft'[t] # rows'[t] => draft'[t] = clock + 1
    BY DEF Written
  <1>4. DOMAIN map = us
    BY <1>1
  <1> QED BY <1>2, <1>3, <1>4 DEF Hidden

LEMMA OpenUnseen ==
  ASSUME TypeOK, NEW c \in Conn, NEW ts \in SUBSET Table, OpenStream(c, ts)
  PROVE  PendingUnseen'
  <1>1. UNCHANGED <<rows, links, cache, held>> /\ draft' = Written(ts)
    BY DEF OpenStream, maps
  <1>2. \A d \in Conn : held[d] \in MapTypes /\ \A m \in Map : cache[d][m] \in MapTypes
    BY DEF TypeOK
  <1>3. \A d \in Conn : Hidden(held[d])' /\ \A m \in Map : Hidden(cache[d][m])'
    <2>1. \A map \in MapTypes : UNCHANGED map => Hidden(map)'
      BY <1>1, OlderHidden DEF Hidden
    <2> QED BY <1>1, <1>2, <2>1
  <1>4. draft'["links"] # rows'["links"] => links' # draft'["links"]
    <2>1. draft'["links"] # rows'["links"] => draft'["links"] = clock + 1
      BY <1>1, MapNames DEF Written
    <2>2. links # clock + 1
      BY DEF TypeOK
    <2> QED BY <1>1, <2>1, <2>2
  <1> QED BY <1>3, <1>4 DEF PendingUnseen

\* A step that adds nothing to what is kept.
LEMMA UnseenKept ==
  ASSUME PendingUnseen, UNCHANGED <<rows, links, writer, draft>>,
         \A d \in Conn : held'[d] \in {held[d], NoMap},
         \A d \in Conn, m \in Map : cache'[d][m] \in {cache[d][m], NoMap}
  PROVE  PendingUnseen'
  BY NoMapHidden DEF PendingUnseen, Free, Hidden, NoMap

LEMMA MapUnseen ==
  ASSUME TypeInv, PendingUnseen, NEW c \in Conn, NEW m \in {"related", "projects"}, ReadMap(c, m)
  PROVE  PendingUnseen'
  <1> USE DEF TypeInv
  <1> DEFINE n == Cardinality(DOMAIN held[c]) + 1
             t == Reads(m)[n]
             now == [u \in DOMAIN held[c] \cup {t} |-> IF u = t THEN Value(c, m, t) ELSE held[c][u]]
             full == n = Len(Reads(m))
  <1>1. UNCHANGED <<rows, links, writer, draft>>
    BY DEF ReadMap, store, stream
  <1>2. /\ doing[c] = m
        /\ held' = [held EXCEPT ![c] = IF full THEN NoMap ELSE now]
        /\ cache' = IF full THEN [cache EXCEPT ![c][m] = now] ELSE cache
    BY DEF ReadMap
  <1>3. CASE Free
    BY <1>1, <1>3 DEF PendingUnseen, Free
  <1>4. CASE ~Free
    <2>1. writer # c
      BY <1>2 DEF TypeOK
    <2>2. t \in Table /\ (m = "projects" => t = "links")
      BY <1>2, NextReads, MapNames DEF Reads
    <2>3. draft[t] # rows[t] => Value(c, m, t) # draft[t]
      BY <1>4, <2>1, <2>2 DEF Value, Visible, PendingUnseen
    <2> HIDE DEF t
    <2>4. Hidden(now)
      BY <1>4, <2>3 DEF PendingUnseen, Hidden
    <2> HIDE DEF now, full
    <2>5. \A d \in Conn : held'[d] \in {held[d], NoMap, now}
      BY <1>2 DEF TypeOK
    <2>6. \A d \in Conn, k \in Map : cache'[d][k] \in {cache[d][k], now}
      BY <1>2 DEF TypeOK
    <2> QED BY <1>1, <1>4, <2>4, <2>5, <2>6, NoMapHidden DEF PendingUnseen, Hidden, Free, NoMap
  <1> QED BY <1>3, <1>4

LEMMA UnseenSteps == TypeInv /\ PendingUnseen /\ [Next]_vars => PendingUnseen'
  <1> SUFFICES ASSUME TypeInv, PendingUnseen, [Next]_vars PROVE PendingUnseen'
    OBVIOUS
  <1> USE DEF TypeInv
  <1>1. CASE UNCHANGED vars
    <2>1. UNCHANGED <<rows, links, writer, draft, held, cache>>
      BY <1>1 DEF vars, store, stream, maps
    <2> QED BY <2>1, UnseenKept
  <1>2. ASSUME NEW c \in Conn, NEW ts \in SUBSET Table,
               \/ Write(c, ts) \/ WriteAndReindex(c, ts) \/ Reindex(c)
               \/ CloseStream(c) \/ ReadPage(c) \/ ReadSnapshot(c)
        PROVE  PendingUnseen'
    BY <1>2 DEF Write, WriteAndReindex, Reindex, CloseStream, ReadPage, ReadSnapshot, Prepared, Free, stream,
                PendingUnseen
  <1>3. ASSUME NEW c \in Conn,
               \/ SkipReindex(c) \/ FailResolved(c)
               \/ \E op \in {"page", "turns"} : StartResolved(c, op)
               \/ \E m \in {"related", "projects"} : StartMap(c, m)
        PROVE  PendingUnseen'
    <2>1. UNCHANGED <<rows, links, writer, draft>>
      BY <1>3 DEF SkipReindex, FailResolved, StartResolved, StartMap, store, stream
    <2>2. held' = held \/ held' = [held EXCEPT ![c] = NoMap]
      BY <1>3 DEF SkipReindex, FailResolved, StartResolved, StartMap
    <2>3. cache' = cache \/ cache' = [cache EXCEPT ![c] = NoMaps]
      BY <1>3 DEF SkipReindex, FailResolved, StartResolved, StartMap, Checked, maps
    <2>4. \A d \in Conn : held'[d] \in {held[d], NoMap}
      BY <2>2 DEF TypeOK
    <2>5. \A d \in Conn, m \in Map : cache'[d][m] \in {cache[d][m], NoMap}
      BY <2>3 DEF TypeOK, NoMaps
    <2> QED BY <2>1, <2>4, <2>5, UnseenKept
  <1>4. CASE Next
    <2>1. PICK c \in Conn :
            \/ \E ts \in SUBSET Table : Write(c, ts) \/ WriteAndReindex(c, ts)
            \/ Reindex(c) \/ CloseStream(c) \/ ReadPage(c) \/ ReadSnapshot(c)
            \/ \E ts \in SUBSET Table : OpenStream(c, ts)
            \/ SkipReindex(c) \/ FailResolved(c)
            \/ \E op \in {"page", "turns"} : StartResolved(c, op)
            \/ \E m \in {"related", "projects"} : StartMap(c, m)
            \/ \E m \in {"related", "projects"} : ReadMap(c, m)
      BY <1>4 DEF Next
    <2>2. {} \in SUBSET Table
      OBVIOUS
    <2> QED BY <1>2, <1>3, <2>1, <2>2, OpenUnseen, MapUnseen
  <1> QED BY <1>1, <1>4

\* No map holds a row of a merge that may still be rolled back.
THEOREM PendingNeverKept == Spec => []NoUncommittedReads
  <1>1. Init => PendingUnseen
    BY DEF Init, PendingUnseen, Free
  <1>2. PendingUnseen => NoUncommittedReads
    BY DEF PendingUnseen, NoUncommittedReads, Hidden
  <1> QED BY <1>1, <1>2, InitTyped, TypeSteps, UnseenSteps, PTL DEF Spec

-----------------------------------------------------------------------------
(* The other maps *)

\* A connection that has seen no commit since it stamped its maps: what it read
\* for the related work is in the store, a read that may rebuild the index finds
\* no projects, and its maps are current unless it keeps a snapshot.
Fresh(c) ==
    ~moved[c] =>
        /\ doing[c] = "related" => Current(held[c])
        /\ doing[c] \in {"page", "turns"} => ready \/ cache[c]["projects"] = NoMap
        /\ cache[c]["turns"] = NoMap => /\ Current(cache[c]["related"])
                                        /\ ready => Current(cache[c]["projects"])

AllFresh == \A c \in Conn : Fresh(c)

\* A connection that takes no part in a step.
LEMMA OtherFresh ==
  ASSUME NEW d \in Conn, Fresh(d),
         \/ moved'[d]
         \/ /\ UNCHANGED <<rows, ready>> /\ moved'[d] = moved[d]
            /\ cache'[d] = cache[d] /\ held'[d] = held[d] /\ doing'[d] = doing[d]
  PROVE  Fresh(d)'
  BY DEF Fresh, Current

\* A connection whose maps were dropped.
LEMMA DroppedFresh ==
  ASSUME NEW c \in Conn, cache'[c]["related"] = NoMap, cache'[c]["projects"] = NoMap,
         doing'[c] = "related" => held'[c] = NoMap
  PROVE  Fresh(c)'
  BY DEF Fresh, Current, NoMap

LEMMA NoMapsNone == NoMaps["turns"] = NoMap /\ NoMaps["related"] = NoMap /\ NoMaps["projects"] = NoMap
  BY MapNames DEF NoMaps

LEMMA WriteFresh ==
  ASSUME TypeOK, AllFresh, NEW c \in Conn, NEW ts \in SUBSET Table,
         Write(c, ts) \/ WriteAndReindex(c, ts) \/ Reindex(c)
  PROVE  AllFresh'
  <1>1. \A d \in Conn : d # c => moved'[d]
    BY DEF Write, WriteAndReindex, Reindex, Commit, Stamp, AllMoved
  <1>2. cache'[c]["related"] = NoMap /\ cache'[c]["projects"] = NoMap
    BY NoMapsNone, MapNames DEF Write, WriteAndReindex, Reindex, TypeOK, NoMaps
  <1>3. doing'[c] # "related"
    BY DEF Write, WriteAndReindex, Reindex, Idle, TypeOK
  <1> QED BY <1>1, <1>2, <1>3, OtherFresh, DroppedFresh DEF AllFresh

LEMMA CloseFresh ==
  ASSUME TypeOK, AllFresh, NEW c \in Conn, CloseStream(c)
  PROVE  AllFresh'
  <1>1. cache' = [cache EXCEPT ![c] = NoMaps] /\ UNCHANGED <<doing, held>> /\ doing[c] = "idle"
    BY DEF CloseStream
  <1>2. Commit(c) \/ UNCHANGED <<rows, ready, moved>>
    BY DEF CloseStream
  <1>3. \A d \in Conn : d # c => moved'[d] \/ (UNCHANGED <<rows, ready>> /\ moved'[d] = moved[d])
    BY <1>2 DEF Commit
  <1>4. \A d \in Conn : d # c => cache'[d] = cache[d]
    BY <1>1 DEF TypeOK
  <1>5. cache'[c] = NoMaps
    BY <1>1 DEF TypeOK
  <1>6. Fresh(c)'
    BY <1>1, <1>5, NoMapsNone, DroppedFresh
  <1>7. \A d \in Conn : d # c => Fresh(d)'
    BY <1>1, <1>3, <1>4, OtherFresh DEF AllFresh
  <1> QED BY <1>6, <1>7 DEF AllFresh

LEMMA StartFresh ==
  ASSUME TypeOK, AllFresh, NEW c \in Conn, NEW op,
         \/ op \in {"page", "turns"} /\ StartResolved(c, op)
         \/ op \in {"related", "projects"} /\ StartMap(c, op)
  PROVE  AllFresh'
  <1>1. Checked(c) /\ UNCHANGED <<rows, ready>>
    BY DEF StartResolved, StartMap, store
  <1>2. moved' = [moved EXCEPT ![c] = FALSE]
    BY <1>1 DEF Checked, Stamp
  <1>3. cache' = cache \/ cache' = [cache EXCEPT ![c] = NoMaps]
    BY <1>1 DEF Checked
  <1>4. \A d \in Conn : d # c => /\ moved'[d] = moved[d] /\ cache'[d] = cache[d]
                                 /\ held'[d] = held[d] /\ doing'[d] = doing[d]
    <2>1. /\ held' = held \/ held' = [held EXCEPT ![c] = NoMap]
          /\ \E value : doing' = [doing EXCEPT ![c] = value]
      BY DEF StartResolved, StartMap
    <2> QED BY <1>2, <1>3, <2>1 DEF TypeOK
  <1>5. doing'[c] = "related" => held'[c] = NoMap
    BY DEF StartResolved, StartMap, TypeOK
  <1>6. Fresh(c)'
    <2>1. CASE Accepts(c)
      <3>1. UNCHANGED cache /\ ~moved[c] /\ ready'
        BY <1>1, <2>1 DEF Checked, Accepts
      <3>2. held'[c] = NoMap => Current(held[c])'
        BY DEF Current, NoMap
      <3> QED BY <1>1, <1>5, <3>1, <3>2 DEF AllFresh, Fresh, Current
    <2>2. CASE ~Accepts(c)
      <3>1. cache'[c] = NoMaps
        BY <1>1, <2>2 DEF Checked, TypeOK
      <3> QED BY <1>5, <3>1, NoMapsNone, DroppedFresh
    <2> QED BY <2>1, <2>2
  <1>7. \A d \in Conn : d # c => Fresh(d)'
    BY <1>1, <1>4, OtherFresh DEF AllFresh
  <1> QED BY <1>6, <1>7 DEF AllFresh

LEMMA ReadFresh ==
  ASSUME TypeOK, AllFresh, NEW c \in Conn, ReadPage(c) \/ ReadSnapshot(c)
  PROVE  AllFresh'
  <1>1. UNCHANGED <<rows, held>> /\ ready' = TRUE /\ doing' = [doing EXCEPT ![c] = "idle"]
    BY DEF ReadPage, ReadSnapshot, Prepared
  <1>2. doing'[c] = "idle" /\ \A d \in Conn : d # c => doing'[d] = doing[d]
    BY <1>1 DEF TypeOK
  <1>3. \A d \in Conn : d # c => moved'[d] \/ (ready /\ moved'[d] = moved[d])
    BY DEF ReadPage, ReadSnapshot, Commit, Stamp, AllMoved, TypeOK
  <1>4. \A d \in Conn : d # c => cache'[d] = cache[d]
    BY DEF ReadPage, ReadSnapshot, TypeOK
  <1>5. \A d \in Conn : d # c => Fresh(d)'
    BY <1>1, <1>2, <1>3, <1>4, OtherFresh DEF AllFresh
  <1>6. CASE ReadPage(c)
    <2>1. doing[c] = "page" /\ cache' = cache /\ moved'[c] = moved[c]
      BY <1>6 DEF ReadPage, Commit, TypeOK
    <2>2. ~moved[c] => /\ ready \/ cache[c]["projects"] = NoMap
                       /\ cache[c]["turns"] = NoMap => /\ Current(cache[c]["related"])
                                                       /\ ready => Current(cache[c]["projects"])
      BY <2>1 DEF AllFresh, Fresh
    <2>3. ~moved'[c] /\ cache'[c]["turns"] = NoMap =>
              Current(cache[c]["related"]) /\ Current(cache[c]["projects"])
      BY <2>1, <2>2, NoMapCurrent
    <2>4. Fresh(c)'
      BY <1>1, <1>2, <2>1, <2>3 DEF Fresh, Current
    <2> QED BY <1>5, <2>4 DEF AllFresh
  <1>7. CASE ReadSnapshot(c)
    <2>1. cache'[c]["turns"] = [t \in {"links"} |-> rows[t]]
      BY <1>7, MapNames DEF ReadSnapshot, TypeOK
    <2>2. "links" \in DOMAIN cache'[c]["turns"]
      BY <2>1
    <2>3. cache'[c]["turns"] # NoMap
      BY <2>2, NoMapTyped
    <2>4. Fresh(c)'
      BY <1>2, <2>3 DEF Fresh, NoMap
    <2> QED BY <1>5, <2>4 DEF AllFresh
  <1> QED BY <1>6, <1>7

LEMMA EndFresh ==
  ASSUME TypeOK, AllFresh, NEW c \in Conn, SkipReindex(c) \/ FailResolved(c)
  PROVE  AllFresh'
  <1>1. UNCHANGED <<rows, ready, moved, held>> /\ doing' = [doing EXCEPT ![c] = "idle"]
    BY DEF SkipReindex, FailResolved, store, maps
  <1>2. doing'[c] = "idle" /\ \A d \in Conn : d # c => doing'[d] = doing[d]
    BY <1>1 DEF TypeOK
  <1>3. cache' = cache \/ cache' = [cache EXCEPT ![c] = NoMaps]
    BY DEF SkipReindex, FailResolved, maps
  <1>4. \A d \in Conn : d # c => cache'[d] = cache[d]
    BY <1>3 DEF TypeOK
  <1>5. \A d \in Conn : d # c => Fresh(d)'
    BY <1>1, <1>2, <1>4, OtherFresh DEF AllFresh
  <1>6. CASE cache' = cache
    BY <1>1, <1>2, <1>5, <1>6 DEF AllFresh, Fresh, Current
  <1>7. CASE cache' = [cache EXCEPT ![c] = NoMaps]
    <2>1. cache'[c] = NoMaps
      BY <1>7 DEF TypeOK
    <2> QED BY <1>2, <1>5, <2>1, NoMapsNone, DroppedFresh DEF AllFresh
  <1> QED BY <1>3, <1>6, <1>7

LEMMA MapFresh ==
  ASSUME TypeInv, IndexIsCurrent, AllFresh, NEW c \in Conn, NEW m \in {"related", "projects"}, ReadMap(c, m)
  PROVE  AllFresh'
  <1> USE DEF TypeInv
  <1> DEFINE n == Cardinality(DOMAIN held[c]) + 1
             t == Reads(m)[n]
             now == [u \in DOMAIN held[c] \cup {t} |-> IF u = t THEN Value(c, m, t) ELSE held[c][u]]
             full == n = Len(Reads(m))
  <1>1. UNCHANGED <<rows, ready, moved>>
    BY DEF ReadMap, store
  <1>2. /\ doing[c] = m
        /\ held' = [held EXCEPT ![c] = IF full THEN NoMap ELSE now]
        /\ cache' = IF full THEN [cache EXCEPT ![c][m] = now] ELSE cache
        /\ doing' = [doing EXCEPT ![c] = IF full THEN "idle" ELSE m]
    BY DEF ReadMap
  <1>3. \/ n = 1 /\ held[c] = NoMap /\ t = "links" /\ (full <=> m = "projects")
        \/ n = 2 /\ m = "related" /\ DOMAIN held[c] = {"links"} /\ t = "fragments" /\ full
    BY <1>2, NextReads
  <1>4. writer # c
    BY <1>2 DEF TypeOK
  <1>5. ~moved[c] /\ (m = "related" \/ ready) => Current(now)
    <2>1. Value(c, m, t) = rows[t] \/ ~(m = "related" \/ ready)
      BY <1>3, <1>4 DEF Value, Visible, IndexIsCurrent
    <2>2. ~moved[c] => \A u \in DOMAIN held[c] : held[c][u] = rows[u]
      BY <1>2, <1>3, NoMapTyped DEF AllFresh, Fresh, Current
    <2> HIDE DEF t
    <2> QED BY <2>1, <2>2 DEF Current
  <1>6. ~full => m = "related"
    BY <1>3
  <1> HIDE DEF now, full
  <1>7. \A d \in Conn : d # c => cache'[d] = cache[d] /\ held'[d] = held[d] /\ doing'[d] = doing[d]
    BY <1>2 DEF TypeOK
  <1>8. \A d \in Conn : d # c => Fresh(d)'
    BY <1>1, <1>7, OtherFresh DEF AllFresh
  <1>9. CASE full
    <2>1. doing'[c] = "idle"
      BY <1>2, <1>9 DEF TypeOK
    <2>2. cache'[c][m] = now /\ \A k \in Map : k # m => cache'[c][k] = cache[c][k]
      BY <1>2, <1>9, MapNames DEF TypeOK
    <2>3. cache'[c]["turns"] = cache[c]["turns"]
      BY <2>2, MapNames
    <2>4. ~moved[c] /\ cache[c]["turns"] = NoMap =>
              Current(cache[c]["related"]) /\ (ready => Current(cache[c]["projects"]))
      BY DEF AllFresh, Fresh
    <2>5. ~moved[c] /\ cache[c]["turns"] = NoMap =>
              Current(cache'[c]["related"]) /\ (ready => Current(cache'[c]["projects"]))
      <3>1. CASE m = "related"
        BY <1>5, <2>2, <2>4, <3>1, MapNames
      <3>2. CASE m = "projects"
        BY <1>5, <2>2, <2>4, <3>2, MapNames
      <3> QED BY <3>1, <3>2
    <2>6. Fresh(c)'
      BY <1>1, <2>1, <2>3, <2>5 DEF Fresh, Current
    <2> QED BY <1>8, <2>6 DEF AllFresh
  <1>10. CASE ~full
    <2>1. doing'[c] = "related" /\ held'[c] = now /\ cache' = cache
      BY <1>2, <1>6, <1>10 DEF TypeOK
    <2>2. ~moved[c] => Current(now)
      BY <1>5, <1>6, <1>10
    <2>3. Fresh(c)'
      BY <1>1, <2>1, <2>2 DEF AllFresh, Fresh, Current
    <2> QED BY <1>8, <2>3 DEF AllFresh
  <1> QED BY <1>9, <1>10

LEMMA FreshSteps == TypeInv /\ IndexIsCurrent /\ AllFresh /\ [Next]_vars => AllFresh'
  <1> SUFFICES ASSUME TypeInv, IndexIsCurrent, AllFresh, [Next]_vars PROVE AllFresh'
    OBVIOUS
  <1> USE DEF TypeInv
  <1>1. ASSUME UNCHANGED <<rows, ready, moved, cache, held, doing>>
        PROVE  AllFresh'
    BY <1>1, OtherFresh DEF AllFresh
  <1>2. CASE UNCHANGED vars
    BY <1>1, <1>2 DEF vars, store, maps
  <1>3. ASSUME NEW c \in Conn, NEW ts \in SUBSET Table, OpenStream(c, ts)
        PROVE  AllFresh'
    BY <1>1, <1>3 DEF OpenStream, maps
  <1>4. CASE Next
    <2>1. PICK c \in Conn :
            \/ \E ts \in SUBSET Table : Write(c, ts) \/ WriteAndReindex(c, ts) \/ Reindex(c)
            \/ CloseStream(c)
            \/ \E ts \in SUBSET Table : OpenStream(c, ts)
            \/ SkipReindex(c) \/ FailResolved(c)
            \/ \E op \in {"page", "turns"} : StartResolved(c, op)
            \/ \E m \in {"related", "projects"} : StartMap(c, m)
            \/ ReadPage(c) \/ ReadSnapshot(c)
            \/ \E m \in {"related", "projects"} : ReadMap(c, m)
      <3>1. {} \in SUBSET Table
        OBVIOUS
      <3> QED BY <1>4, <3>1 DEF Next
    <2> QED BY <1>3, <2>1, WriteFresh, CloseFresh, StartFresh, ReadFresh, EndFresh, MapFresh
  <1> QED BY <1>2, <1>4

\* The related work and the projects a connection answers from memory are those
\* of the store, as long as it keeps no snapshot.
THEOREM MapsAlwaysCurrent == Spec => []MapsAreCurrent
  <1>1. Init => AllFresh
    BY DEF Init, AllFresh, Fresh, AllMoved
  <1>2. AllFresh => MapsAreCurrent
    BY DEF AllFresh, Fresh, MapsAreCurrent, Accepts
  <1> QED BY <1>1, <1>2, InitTyped, TypeSteps, FreshSteps, IndexAlwaysCurrent, PTL DEF Spec
=============================================================================
