--------------------------- MODULE Bundles_proofs ---------------------------
(***************************************************************************)
(* Where a process that collects raw files is alone with what names them,  *)
(* every row that names a raw snapshot has its file: for any number of     *)
(* processes, sources, blobs and bundles, and with any of them dying at    *)
(* any step.                                                               *)
(***************************************************************************)
EXTENDS Bundles, TLAPS

\* The commands that write or remove files under the raw directory, or name them.
FileCommands == {"import", "upload", "replay", "gc", "sync"}

\* The processes that collect (an import does so at its end).
Collector(p) == Runs[p] \cap {"import", "gc"} # {}

\* Beside a collector other processes only purge.  Where there is none they may
\* run anything else at the same time.
CollectsAlone ==
    \A c, p \in Process : Collector(c) /\ p # c => Runs[p] \subseteq {"purge"}

-----------------------------------------------------------------------------
(* The inductive invariants *)

Loads(j) == j.at \in {"import", "upload", "create"}

\* A job works on sources of its bundle, and what an import will apply is sound.
Known(j) ==
    /\ Loads(j) => (j.todo \cup j.ready) \subseteq DOMAIN Contents[j.bundle]
    /\ j.at = "import" => ({j.bundle} \X j.ready) \cap Broken = {}

TInv == TypeOK /\ \A p \in Process : Known(job[p])

\* What a job is about to name is there, and what it is about to remove is not
\* cited by a row.
Held(j, present, cited) ==
    /\ (Loads(j) /\ j.bundle \in HasRaw) =>
          \A s \in j.ready : FilesOf(s, Contents[j.bundle][s]) \subseteq present
    /\ j.at = "replay" => FilesOf(j.source, j.seen) \subseteq present
    /\ j.at = "sync" => FilesOf(j.source, j.names) \subseteq present
    /\ j.at \in {"walk", "remove"} => cited \subseteq j.keep
    /\ j.at = "rmdir" => cited \cap (j.empty \X Blob) = {}

FileWorker(p) == Runs[p] \cap FileCommands # {}

\* An import, which goes on to collect, or a collection.
Collecting(j) == j.at \in {"import", "collect", "walk", "remove", "rmdir"}

FInv ==
    /\ TInv
    /\ NamedFilesExist
    /\ \A p \in Process : ~At(p, "idle") => FileWorker(p)
    /\ \A p \in Process : Collecting(job[p]) => Collector(p)
    /\ \A p \in Process : Held(job[p], files, Referenced)

-----------------------------------------------------------------------------
(* Jobs *)

\* The records a job can be.
LEMMA JobForms ==
  /\ Idle \in Jobs
  /\ \A a \in {"import", "upload", "create"} : \A b \in Bundle : \A t, r \in SUBSET Source :
        Loading(a, b, t, r) \in Jobs
  /\ \A s \in Source : \A seen \in SUBSET Blob :
        [at |-> "replay", source |-> s, seen |-> seen] \in Jobs
  /\ \A s \in Source : \A loaded, names \in SUBSET Blob :
        [at |-> "sync", source |-> s, loaded |-> loaded, names |-> names] \in Jobs
  /\ [at |-> "collect"] \in Jobs
  /\ \A keep \in SUBSET (Source \X Blob) : [at |-> "walk", keep |-> keep] \in Jobs
  /\ \A list, keep \in SUBSET (Source \X Blob) :
        [at |-> "remove", list |-> list, keep |-> keep] \in Jobs
  /\ \A empty \in SUBSET Source : [at |-> "rmdir", empty |-> empty] \in Jobs
  BY DEF Jobs, Idle, Loading

\* The fields of a loading record.
LEMMA LoadingRecord ==
  ASSUME NEW a, NEW b, NEW t, NEW r
  PROVE  /\ Loading(a, b, t, r).at = a /\ Loading(a, b, t, r).bundle = b
         /\ Loading(a, b, t, r).todo = t /\ Loading(a, b, t, r).ready = r
  BY DEF Loading

\* What a loading job holds.
LEMMA LoadingFields ==
  ASSUME NEW j \in Jobs, Loads(j)
  PROVE  /\ j.at \in {"import", "upload", "create"} /\ j.bundle \in Bundle
         /\ j.todo \in SUBSET Source /\ j.ready \in SUBSET Source
  BY DEF Jobs, Loads

\* What the other jobs hold.
LEMMA OtherFields ==
  ASSUME NEW j \in Jobs
  PROVE  /\ j.at = "replay" => j.source \in Source /\ j.seen \in SUBSET Blob
         /\ j.at = "sync" => /\ j.source \in Source
                             /\ j.loaded \in SUBSET Blob /\ j.names \in SUBSET Blob
         /\ j.at = "walk" => j.keep \in SUBSET (Source \X Blob)
         /\ j.at = "remove" => /\ j.list \in SUBSET (Source \X Blob)
                               /\ j.keep \in SUBSET (Source \X Blob)
         /\ j.at = "rmdir" => j.empty \in SUBSET Source
  BY DEF Jobs

\* A step to a job that is typed and known keeps all of them so.
LEMMA GoesKnown ==
  ASSUME TInv, NEW p \in Process, NEW j \in Jobs, Known(j), Goes(p, j)
  PROVE  /\ job' \in [Process -> Jobs]
         /\ \A q \in Process : Known(job'[q])
  BY DEF TInv, TypeOK, Goes

LEMMA IdleKnown == Known(Idle)
  BY DEF Known, Idle, Loads

LEMMA StartCounts ==
  ASSUME TInv, NEW p \in Process, NEW command, Start(p, command)
  PROVE  runs' \in [Process -> 0..MaxCommands]
  BY BundlesAssumption DEF TInv, TypeOK, Start

\* The parts of TypeOK on the store alone.
StoreTyped ==
    /\ sources \in SUBSET Source
    /\ rows \in [Source -> SUBSET Blob]
    /\ named \in [Source -> SUBSET Blob]
    /\ \A s \in Source : named[s] \subseteq rows[s] /\ (rows[s] # {} => s \in sources)
    /\ recorded \in SUBSET Bundle

LEMMA TInvParts ==
  TInv <=> /\ StoreTyped /\ files \in SUBSET (Source \X Blob)
           /\ job \in [Process -> Jobs] /\ runs \in [Process -> 0..MaxCommands]
           /\ \A p \in Process : Known(job[p])
  BY DEF TInv, TypeOK, StoreTyped

\* The same parts of the next state.
LEMMA Assembled ==
  ASSUME StoreTyped', files' \in SUBSET (Source \X Blob), job' \in [Process -> Jobs],
         runs' \in [Process -> 0..MaxCommands], \A p \in Process : Known(job'[p])
  PROVE  TInv'
  BY DEF TInv, TypeOK, StoreTyped

LEMMA StoreStays ==
  ASSUME StoreTyped, UNCHANGED store
  PROVE  StoreTyped'
  BY DEF StoreTyped, store

\* An update of one source's rows keeps the types.
LEMMA SetRowsTyped ==
  ASSUME StoreTyped, NEW s \in Source, NEW blobs \in SUBSET Blob, NEW names \in SUBSET blobs,
         SetRows(s, blobs, names)
  PROVE  StoreTyped'
  <1>1. sources' = sources \cup {s} /\ rows' = [rows EXCEPT ![s] = blobs]
        /\ named' = [named EXCEPT ![s] = names] /\ recorded' = recorded
    BY DEF SetRows
  <1>2. \A t \in Source : rows'[t] = (IF t = s THEN blobs ELSE rows[t])
                          /\ named'[t] = (IF t = s THEN names ELSE named[t])
    BY <1>1 DEF StoreTyped
  <1>3. rows' \in [Source -> SUBSET Blob] /\ named' \in [Source -> SUBSET Blob]
    BY <1>1 DEF StoreTyped
  <1>4. \A t \in Source : named'[t] \subseteq rows'[t] /\ (rows'[t] # {} => t \in sources')
    BY <1>1, <1>2 DEF StoreTyped
  <1> QED BY <1>1, <1>3, <1>4 DEF StoreTyped

\* What a bundle holds.
LEMMA ContentsTyped ==
  ASSUME NEW b \in Bundle, NEW s \in DOMAIN Contents[b]
  PROVE  /\ Contents[b][s] \in SUBSET Blob /\ s \in Source
         /\ Names(b, s) \in SUBSET Contents[b][s]
         /\ FilesOf(s, Contents[b][s]) \in SUBSET (Source \X Blob)
  BY BundlesAssumption DEF Names, FilesOf

-----------------------------------------------------------------------------
(* Types, one lemma per group of actions *)

LEMMA InitTyped == Init => TInv
  <1> SUFFICES ASSUME Init PROVE TInv
    OBVIOUS
  <1>1. job \in [Process -> Jobs] /\ \A p \in Process : Known(job[p])
    BY JobForms, IdleKnown DEF Init
  <1>2. runs \in [Process -> 0..MaxCommands]
    BY BundlesAssumption DEF Init
  <1> QED BY <1>1, <1>2, TInvParts DEF Init, StoreTyped

LEMMA ImportTyped ==
  ASSUME TInv, NEW p \in Process, NEW b, NEW s, NEW mode,
         \/ b \in Bundle /\ StartImport(p, b, mode)
         \/ s \in Source /\ (Prepare(p, s) \/ Apply(p, s))
         \/ Record(p)
  PROVE  TInv'
  <1> USE TInvParts, Assembled DEF store
  <1> DEFINE j == job[p]
  <1>0. j \in Jobs /\ Known(j)
    BY DEF TInv
  <1>1. CASE b \in Bundle /\ StartImport(p, b, mode)
    <2> DEFINE new == Loading("import", b, Plan(b, mode), {})
    <2>1. Plan(b, mode) \subseteq DOMAIN Contents[b] /\ DOMAIN Contents[b] \subseteq Source
      BY <1>1, BundlesAssumption DEF Plan
    <2>2. new \in Jobs
      BY <1>1, <2>1, JobForms
    <2>3. Known(new)
      BY <2>1, LoadingRecord DEF Known, Loads
    <2>4. PICK k \in {Idle, new} : Goes(p, k)
      BY <1>1 DEF StartImport
    <2>5. job' \in [Process -> Jobs] /\ \A q \in Process : Known(job'[q])
      BY <2>2, <2>3, <2>4, JobForms, IdleKnown, GoesKnown
    <2>6. runs' \in [Process -> 0..MaxCommands] /\ UNCHANGED <<store, files>>
      BY <1>1, StartCounts DEF StartImport
    <2> QED BY <2>5, <2>6, StoreStays
  <1>2. CASE s \in Source /\ Prepare(p, s)
    <2>1. j.at = "import" /\ s \in j.todo /\ UNCHANGED <<store, runs>>
      BY <1>2 DEF Prepare, At
    <2>2. Loads(j)
      BY <2>1 DEF Loads
    <2>3. s \in DOMAIN Contents[j.bundle] /\ j.bundle \in Bundle
      BY <1>0, <2>1, <2>2, LoadingFields DEF Known
    <2>4. CASE <<j.bundle, s>> \in Broken
      <3>1. Goes(p, Idle) /\ UNCHANGED files
        BY <1>2, <2>4 DEF Prepare
      <3> QED BY <2>1, <3>1, GoesKnown, JobForms, IdleKnown, StoreStays
    <2>5. CASE <<j.bundle, s>> \notin Broken
      <3> DEFINE new == Loading("import", j.bundle, j.todo \ {s}, j.ready \cup {s})
      <3>1. Goes(p, new) /\ files' \in SUBSET (files \cup FilesOf(s, Contents[j.bundle][s]))
        BY <1>2, <2>5 DEF Prepare
      <3>3. new \in Jobs
        BY <1>0, <1>2, <2>2, <2>3, LoadingFields, JobForms
      <3>4. Known(new)
        BY <1>0, <2>1, <2>2, <2>3, <2>5, LoadingRecord DEF Known, Loads
      <3>5. files' \in SUBSET (Source \X Blob)
        BY <2>3, <3>1, ContentsTyped
      <3> HIDE DEF new
      <3> QED BY <2>1, <3>1, <3>3, <3>4, <3>5, GoesKnown, StoreStays
    <2> QED BY <2>4, <2>5
  <1>3. CASE s \in Source /\ Apply(p, s)
    <2>1. /\ j.at = "import" /\ s \in j.ready /\ UNCHANGED <<files, runs>>
          /\ SetRows(s, Contents[j.bundle][s], Names(j.bundle, s))
          /\ Goes(p, Loading("import", j.bundle, {}, j.ready \ {s}))
      BY <1>3 DEF Apply, At
    <2>2. Loads(j)
      BY <2>1 DEF Loads
    <2>3. s \in DOMAIN Contents[j.bundle] /\ j.bundle \in Bundle
      BY <1>0, <2>1, <2>2, LoadingFields DEF Known
    <2> DEFINE new == Loading("import", j.bundle, {}, j.ready \ {s})
    <2>5. new \in Jobs
      BY <1>0, <2>2, <2>3, LoadingFields, JobForms
    <2>6. Known(new)
      BY <1>0, <2>1, <2>2, LoadingRecord DEF Known, Loads
    <2>7. StoreTyped'
      BY <2>1, <2>3, ContentsTyped, SetRowsTyped
    <2> HIDE DEF new
    <2> QED BY <2>1, <2>5, <2>6, <2>7, GoesKnown DEF new
  <1>4. CASE Record(p)
    <2>1. /\ Goes(p, [at |-> "collect"]) /\ UNCHANGED <<sources, rows, named, files, runs>>
          /\ recorded' = recorded \cup {j.bundle} /\ Loads(j)
      BY <1>4 DEF Record, At, Loads
    <2>2. Known([at |-> "collect"])
      BY DEF Known, Loads
    <2>3. StoreTyped'
      BY <1>0, <2>1, LoadingFields DEF StoreTyped
    <2> QED BY <2>1, <2>2, <2>3, GoesKnown, JobForms
  <1> QED BY <1>1, <1>2, <1>3, <1>4

LEMMA UploadTyped ==
  ASSUME TInv, NEW p \in Process, NEW b, NEW s,
         \/ b \in Bundle /\ StartUpload(p, b)
         \/ s \in Source /\ (ReceivePayload(p, s) \/ MergePayload(p, s))
         \/ RecordUpload(p)
  PROVE  TInv'
  <1> USE TInvParts, Assembled DEF store
  <1> DEFINE j == job[p]
  <1>0. j \in Jobs /\ Known(j)
    BY DEF TInv
  <1>1. CASE b \in Bundle /\ StartUpload(p, b)
    <2> DEFINE new == Loading("upload", b, DOMAIN Contents[b], {})
    <2>1. DOMAIN Contents[b] \subseteq Source
      BY <1>1, BundlesAssumption
    <2>2. new \in Jobs /\ Known(new)
      BY <1>1, <2>1, JobForms, LoadingRecord DEF Known, Loads
    <2>3. Goes(p, new) /\ runs' \in [Process -> 0..MaxCommands] /\ UNCHANGED <<store, files>>
      BY <1>1, StartCounts DEF StartUpload
    <2> HIDE DEF new
    <2> QED BY <2>2, <2>3, GoesKnown, StoreStays
  <1>2. CASE s \in Source /\ ReceivePayload(p, s)
    <2>1. j.at = "upload" /\ j.ready = {} /\ s \in j.todo /\ UNCHANGED <<store, runs>>
      BY <1>2 DEF ReceivePayload, At
    <2>2. Loads(j)
      BY <2>1 DEF Loads
    <2>3. s \in DOMAIN Contents[j.bundle] /\ j.bundle \in Bundle
      BY <1>0, <2>1, <2>2, LoadingFields DEF Known
    <2> DEFINE skipped == Loading("upload", j.bundle, j.todo \ {s}, {})
               taken == Loading(IF s \in sources THEN "upload" ELSE "create",
                                j.bundle, j.todo \ {s}, {s})
    <2>5. skipped \in Jobs /\ taken \in Jobs
      BY <1>0, <1>2, <2>2, <2>3, LoadingFields, JobForms
    <2>6. Known(skipped) /\ Known(taken)
      BY <1>0, <2>1, <2>2, <2>3, LoadingRecord DEF Known, Loads
    <2>7. /\ Goes(p, skipped) \/ Goes(p, Idle) \/ Goes(p, taken)
          /\ files' \in SUBSET (files \cup FilesOf(s, Contents[j.bundle][s]))
      BY <1>2 DEF ReceivePayload
    <2>8. files' \in SUBSET (Source \X Blob)
      BY <2>3, <2>7, ContentsTyped
    <2> HIDE DEF skipped, taken
    <2>9. job' \in [Process -> Jobs] /\ \A q \in Process : Known(job'[q])
      BY <2>5, <2>6, <2>7, GoesKnown, JobForms, IdleKnown
    <2> QED BY <2>1, <2>8, <2>9, StoreStays
  <1>3. CASE s \in Source /\ MergePayload(p, s)
    <2> DEFINE new == Loading("upload", j.bundle, j.todo, {})
               brought == Contents[j.bundle][s]
               oldRows == IF j.at = "create" THEN {} ELSE rows[s]
               oldNames == IF j.at = "create" THEN {} ELSE named[s]
    <2>1. /\ j.at \in {"upload", "create"} /\ s \in j.ready /\ UNCHANGED <<files, runs>>
          /\ SetRows(s, oldRows \cup brought, (oldNames \ brought) \cup Names(j.bundle, s))
          /\ Goes(p, new)
      BY <1>3 DEF MergePayload, At
    <2>2. Loads(j)
      BY <2>1 DEF Loads
    <2>3. s \in DOMAIN Contents[j.bundle] /\ j.bundle \in Bundle
      BY <1>0, <2>1, <2>2, LoadingFields DEF Known
    <2>5. new \in Jobs
      BY <1>0, <2>2, <2>3, LoadingFields, JobForms
    <2>6. Known(new)
      BY <1>0, <2>2, LoadingRecord DEF Known, Loads
    <2>4. oldRows \in SUBSET Blob /\ oldNames \in SUBSET oldRows
      BY <1>3 DEF StoreTyped
    <2> HIDE DEF oldRows, oldNames
    <2>7. /\ oldRows \cup brought \in SUBSET Blob
          /\ (oldNames \ brought) \cup Names(j.bundle, s) \in SUBSET (oldRows \cup brought)
      BY <2>3, <2>4, ContentsTyped
    <2>8. StoreTyped'
      BY <1>3, <2>1, <2>7, SetRowsTyped
    <2> HIDE DEF new
    <2> QED BY <2>1, <2>5, <2>6, <2>8, GoesKnown
  <1>4. CASE RecordUpload(p)
    <2>1. /\ Goes(p, Idle) /\ UNCHANGED <<sources, rows, named, files, runs>>
          /\ recorded' = recorded \cup {j.bundle} /\ Loads(j)
      BY <1>4 DEF RecordUpload, At, Loads
    <2>2. StoreTyped'
      BY <1>0, <2>1, LoadingFields DEF StoreTyped
    <2> QED BY <2>1, <2>2, GoesKnown, JobForms, IdleKnown
  <1> QED BY <1>1, <1>2, <1>3, <1>4

LEMMA ReplayTyped ==
  ASSUME TInv, NEW p \in Process, NEW s, NEW seen,
         (s \in Source /\ seen \in SUBSET Blob /\ Snapshot(p, s, seen)) \/ Persist(p)
  PROVE  TInv'
  <1> USE TInvParts, Assembled DEF store
  <1>1. CASE s \in Source /\ seen \in SUBSET Blob /\ Snapshot(p, s, seen)
    <2> DEFINE new == [at |-> "replay", source |-> s, seen |-> seen]
    <2>1. new \in Jobs /\ Known(new)
      BY <1>1, JobForms DEF Known, Loads
    <2>2. /\ Goes(p, new) /\ runs' \in [Process -> 0..MaxCommands] /\ UNCHANGED store
          /\ files' = files \cup FilesOf(s, seen)
      BY <1>1, StartCounts DEF Snapshot
    <2>3. files' \in SUBSET (Source \X Blob)
      BY <1>1, <2>2 DEF FilesOf
    <2> HIDE DEF new
    <2> QED BY <2>1, <2>2, <2>3, GoesKnown, StoreStays
  <1>2. CASE Persist(p)
    <2> DEFINE j == job[p]
    <2>1. /\ j.at = "replay" /\ Goes(p, Idle) /\ UNCHANGED <<files, runs>>
          /\ SetRows(j.source, rows[j.source] \cup j.seen, named[j.source] \cup j.seen)
      BY <1>2 DEF Persist, At
    <2>2. j.source \in Source /\ j.seen \in SUBSET Blob
      BY <2>1, OtherFields
    <2>3. /\ rows[j.source] \cup j.seen \in SUBSET Blob
          /\ named[j.source] \cup j.seen \in SUBSET (rows[j.source] \cup j.seen)
      BY <2>2 DEF StoreTyped
    <2>4. StoreTyped'
      BY <2>1, <2>2, <2>3, SetRowsTyped
    <2> QED BY <2>1, <2>4, GoesKnown, JobForms, IdleKnown
  <1> QED BY <1>1, <1>2

LEMMA GcTyped ==
  ASSUME TInv, NEW p \in Process, NEW f,
         StartGc(p) \/ References(p) \/ Walk(p) \/ RemoveFile(p, f) \/ FindEmpty(p) \/ RemoveDirectories(p)
  PROVE  TInv'
  <1> USE TInvParts, Assembled DEF store
  <1> DEFINE j == job[p]
             Moves(k) == k \in Jobs /\ Known(k) /\ Goes(p, k)
  <1>0. \A k : ~Loads(k) => Known(k)
    BY DEF Known, Loads
  <1>1. CASE StartGc(p)
    <2>1. Moves([at |-> "collect"])
      BY <1>0, <1>1, JobForms DEF StartGc, Loads
    <2>2. runs' \in [Process -> 0..MaxCommands] /\ UNCHANGED <<store, files>>
      BY <1>1, StartCounts DEF StartGc
    <2> QED BY <2>1, <2>2, GoesKnown, StoreStays
  <1>2. CASE References(p)
    <2>1. Referenced \in SUBSET (Source \X Blob)
      BY DEF Referenced, FilesOf, StoreTyped
    <2>2. Moves([at |-> "walk", keep |-> Referenced])
      BY <1>0, <1>2, <2>1, JobForms DEF References, ListReferences, Loads
    <2> QED BY <1>2, <2>2, GoesKnown, StoreStays DEF References
  <1>3. CASE Walk(p)
    <2>1. j.keep \in SUBSET (Source \X Blob)
      BY <1>3, OtherFields DEF Walk, At
    <2>2. Moves([at |-> "remove", list |-> files, keep |-> j.keep])
      BY <1>0, <1>3, <2>1, JobForms DEF Walk, Loads
    <2> QED BY <1>3, <2>2, GoesKnown, StoreStays DEF Walk
  <1>4. CASE RemoveFile(p, f)
    <2> DEFINE new == [at |-> "remove", list |-> j.list \ {f}, keep |-> j.keep]
    <2>1. j.at = "remove" /\ Goes(p, new) /\ files' \in SUBSET files /\ UNCHANGED <<store, runs>>
      BY <1>4 DEF RemoveFile, At
    <2>2. j \in Jobs
      OBVIOUS
    <2>4. new \in Jobs /\ Known(new)
      BY <1>0, <2>1, <2>2, OtherFields, JobForms DEF Loads
    <2> HIDE DEF new
    <2> QED BY <2>1, <2>4, GoesKnown, StoreStays
  <1>5. CASE FindEmpty(p)
    <2> DEFINE empty == {s \in Source : \A b \in Blob : <<s, b>> \notin files}
    <2>1. Moves([at |-> "rmdir", empty |-> empty])
      BY <1>0, <1>5, JobForms DEF FindEmpty, Loads
    <2> QED BY <1>5, <2>1, GoesKnown, StoreStays DEF FindEmpty
  <1>6. CASE RemoveDirectories(p)
    <2>1. Moves(Idle) /\ files' \in SUBSET files
      BY <1>6, JobForms, IdleKnown DEF RemoveDirectories
    <2> QED BY <1>6, <2>1, GoesKnown, StoreStays DEF RemoveDirectories
  <1> QED BY <1>1, <1>2, <1>3, <1>4, <1>5, <1>6

LEMMA SyncTyped ==
  ASSUME TInv, NEW p \in Process, NEW s, NEW kept, NEW changed, NEW new,
         \/ s \in Source /\ StartSync(p, s)
         \/ new \in SUBSET Blob /\ WriteSync(p, kept, changed, new)
  PROVE  TInv'
  <1> USE TInvParts, Assembled DEF store
  <1>1. CASE s \in Source /\ StartSync(p, s)
    <2> DEFINE job0 == [at |-> "sync", source |-> s, loaded |-> rows[s], names |-> named[s]]
    <2>1. rows[s] \in SUBSET Blob /\ named[s] \in SUBSET Blob
      BY <1>1 DEF StoreTyped
    <2>2. job0 \in Jobs
      BY <1>1, <2>1, JobForms
    <2>3. Known(job0)
      BY DEF Known, Loads
    <2>4. Goes(p, job0) /\ runs' \in [Process -> 0..MaxCommands] /\ UNCHANGED <<store, files>>
      BY <1>1, StartCounts DEF StartSync
    <2> HIDE DEF job0
    <2> QED BY <2>2, <2>3, <2>4, GoesKnown, StoreStays
  <1>2. CASE new \in SUBSET Blob /\ WriteSync(p, kept, changed, new)
    <2> DEFINE j == job[p]
               blobs == (rows[j.source] \ changed) \cup kept \cup new
               names == (named[j.source] \ (changed \cup kept \cup new)) \cup (kept \cap j.names)
    <2>1. /\ j.at = "sync" /\ kept \subseteq j.loaded
          /\ SetRows(j.source, blobs, names) /\ Goes(p, Idle) /\ UNCHANGED <<files, runs>>
      BY <1>2 DEF WriteSync, At
    <2>2. j.source \in Source /\ j.loaded \in SUBSET Blob
      BY <2>1, OtherFields
    <2>3. named[j.source] \subseteq rows[j.source] /\ rows[j.source] \in SUBSET Blob
      BY <2>2 DEF StoreTyped
    <2>4. blobs \in SUBSET Blob /\ names \in SUBSET blobs
      BY <1>2, <2>1, <2>2, <2>3
    <2> HIDE DEF blobs, names
    <2>5. StoreTyped'
      BY <2>1, <2>2, <2>4, SetRowsTyped
    <2> QED BY <2>1, <2>5, GoesKnown, JobForms, IdleKnown
  <1> QED BY <1>1, <1>2

LEMMA PurgeTyped ==
  ASSUME TInv, NEW p \in Process, NEW s \in Source, NEW b, Purge(p, s, b)
  PROVE  TInv'
  <1> USE TInvParts, Assembled DEF store
  <1>1. UNCHANGED <<files, job>> /\ runs' \in [Process -> 0..MaxCommands]
    BY StartCounts DEF Purge
  <1>2. rows[s] \ {b} \in SUBSET Blob /\ named[s] \ {b} \in SUBSET (rows[s] \ {b})
    BY DEF StoreTyped
  <1>3. StoreTyped'
    BY <1>2, SetRowsTyped DEF Purge
  <1> QED BY <1>1, <1>3

LEMMA DieTyped ==
  ASSUME TInv, NEW p \in Process, Die(p)
  PROVE  TInv'
  BY TInvParts, Assembled, GoesKnown, JobForms, IdleKnown, StoreStays DEF Die, store

\* The steps of one process.
NextOf(p) ==
    \/ \E b \in Bundle, mode \in {"error", "skip", "replace"} : StartImport(p, b, mode)
    \/ \E s \in Source : Prepare(p, s) \/ Apply(p, s)
    \/ Record(p)
    \/ \E b \in Bundle : StartUpload(p, b)
    \/ \E s \in Source : ReceivePayload(p, s) \/ MergePayload(p, s)
    \/ RecordUpload(p)
    \/ \E s \in Source : \E seen \in SUBSET Blob : Snapshot(p, s, seen)
    \/ Persist(p)
    \/ StartGc(p) \/ References(p) \/ Walk(p) \/ FindEmpty(p) \/ RemoveDirectories(p)
    \/ \E f : RemoveFile(p, f)
    \/ \E s \in Source : StartSync(p, s)
    \/ \E kept, changed : \E new \in SUBSET Blob : WriteSync(p, kept, changed, new)
    \/ \E s \in Source : \E b : Purge(p, s, b)
    \/ Die(p)

LEMMA Typed == TInv /\ [Next]_vars => TInv'
  <1> SUFFICES ASSUME TInv, [Next]_vars PROVE TInv'
    OBVIOUS
  <1>1. CASE UNCHANGED vars
    BY <1>1, TInvParts, Assembled, StoreStays DEF vars, store
  <1>2. CASE Next
    <2>1. PICK p \in Process : NextOf(p)
      BY <1>2 DEF Next, NextOf
    <2>2. CASE \/ \E b \in Bundle, mode \in {"error", "skip", "replace"} : StartImport(p, b, mode)
               \/ \E s \in Source : Prepare(p, s) \/ Apply(p, s)
               \/ Record(p)
      BY <2>2, ImportTyped, Zenon
    <2>3. CASE \/ \E b \in Bundle : StartUpload(p, b)
               \/ \E s \in Source : ReceivePayload(p, s) \/ MergePayload(p, s)
               \/ RecordUpload(p)
      BY <2>3, UploadTyped, Zenon
    <2>4. CASE (\E s \in Source : \E seen \in SUBSET Blob : Snapshot(p, s, seen)) \/ Persist(p)
      BY <2>4, ReplayTyped, Zenon
    <2>5. CASE \/ StartGc(p) \/ References(p) \/ Walk(p) \/ FindEmpty(p) \/ RemoveDirectories(p)
               \/ \E f : RemoveFile(p, f)
      BY <2>5, GcTyped, Zenon
    <2>6. CASE \/ \E s \in Source : StartSync(p, s)
               \/ \E kept, changed : \E new \in SUBSET Blob : WriteSync(p, kept, changed, new)
      BY <2>6, SyncTyped, Zenon
    <2>6a. CASE \E s \in Source : \E b : Purge(p, s, b)
      BY <2>6a, PurgeTyped, Zenon
    <2>7. CASE Die(p)
      BY <2>7, DieTyped
    <2> QED BY <2>1, <2>2, <2>3, <2>4, <2>5, <2>6, <2>6a, <2>7 DEF NextOf
  <1> QED BY <1>1, <1>2

\* Every reachable state is well typed, for any processes, sources and bundles.
THEOREM TypeCorrect == Spec => []TypeOK
  <1>1. TInv => TypeOK
    BY DEF TInv
  <1> QED BY <1>1, InitTyped, Typed, PTL DEF Spec

\* No payload is applied of an import whose bundle has a broken payload among
\* those left to prepare or to apply.
THEOREM ImportsAreAllOrNothing == Spec => BrokenBundlesApplyNothing
  <1>1. ASSUME TInv, [Next]_vars
        PROVE  [\A p \in Process : \A s \in Source : Apply(p, s) =>
                  ({job[p].bundle} \X (job[p].todo \cup job[p].ready)) \cap Broken = {}]_vars
    <2> SUFFICES ASSUME NEW p \in Process, NEW s \in Source, Apply(p, s)
                 PROVE  ({job[p].bundle} \X (job[p].todo \cup job[p].ready)) \cap Broken = {}
      BY <1>1
    <2>1. job[p].at = "import" /\ job[p].todo = {}
      BY DEF Apply, At, Validated
    <2>2. Known(job[p])
      BY <1>1 DEF TInv
    <2> QED BY <2>1, <2>2 DEF Known
  <1> QED BY <1>1, InitTyped, Typed, PTL DEF Spec, BrokenBundlesApplyNothing
-----------------------------------------------------------------------------
(* Named files exist *)

LEMMA HeldIdle ==
  ASSUME NEW present, NEW cited
  PROVE  Held(Idle, present, cited)
  BY DEF Held, Idle, Loads

\* Fewer citations and more files keep what a job holds.
LEMMA HeldKept ==
  ASSUME NEW j, NEW present, NEW cited, Held(j, present, cited),
         NEW present2, NEW cited2, present \subseteq present2, cited2 \subseteq cited
  PROVE  Held(j, present2, cited2)
  <1>1. (Loads(j) /\ j.bundle \in HasRaw) =>
          \A s \in j.ready : FilesOf(s, Contents[j.bundle][s]) \subseteq present2
    BY DEF Held
  <1>2. /\ j.at = "replay" => FilesOf(j.source, j.seen) \subseteq present2
        /\ j.at = "sync" => FilesOf(j.source, j.names) \subseteq present2
    BY DEF Held
  <1>3. j.at \in {"walk", "remove"} => cited2 \subseteq j.keep
    BY DEF Held
  <1>4. j.at = "rmdir" => cited2 \cap (j.empty \X Blob) = {}
    BY DEF Held
  <1> QED BY <1>1, <1>2, <1>3, <1>4 DEF Held

\* What a job that does not collect holds needs only that no file goes.
LEMMA HeldByOthers ==
  ASSUME NEW j, NEW present, NEW cited, Held(j, present, cited), ~Collecting(j),
         NEW present2, NEW cited2, present \subseteq present2
  PROVE  Held(j, present2, cited2)
  <1>1. (Loads(j) /\ j.bundle \in HasRaw) =>
          \A s \in j.ready : FilesOf(s, Contents[j.bundle][s]) \subseteq present2
    BY DEF Held
  <1>2. /\ j.at = "replay" => FilesOf(j.source, j.seen) \subseteq present2
        /\ j.at = "sync" => FilesOf(j.source, j.names) \subseteq present2
    BY DEF Held
  <1> QED BY <1>1, <1>2 DEF Held, Collecting

\* A process moves to a job that holds what it needs: beside a collector nobody
\* else has a job, and only a collector takes files away.
LEMMA WorkerMoves ==
  ASSUME CollectsAlone, FInv, TInv', NEW p \in Process, FileWorker(p), NEW j, Goes(p, j),
         Collecting(j) => Collector(p), files \subseteq files' \/ Collector(p),
         Referenced' \subseteq files', Held(j, files', Referenced')
  PROVE  FInv'
  <1>1. \A q \in Process : job'[q] = IF q = p THEN j ELSE job[q]
    BY DEF Goes, FInv, TInv, TypeOK
  <1>2. \A q \in Process : job[q].at # "idle" => FileWorker(q)
    BY DEF FInv, At
  <1>3. \A q \in Process : job'[q].at # "idle" => FileWorker(q)
    BY <1>1, <1>2
  <1>4. \A q \in Process : Collecting(job[q]) => Collector(q)
    BY DEF FInv
  <1>5. \A q \in Process : Collecting(job'[q]) => Collector(q)
    BY <1>1, <1>4
  <1>6. \A q \in Process : Held(job'[q], files', Referenced')
    <2> SUFFICES ASSUME NEW q \in Process, q # p PROVE Held(job[q], files', Referenced')
      BY <1>1
    <2>1. CASE Collector(p)
      <3>1. job[q].at = "idle"
        BY <1>2, <2>1 DEF CollectsAlone, FileWorker, FileCommands
      <3> QED BY <3>1 DEF Held, Loads
    <2>2. CASE ~Collector(p)
      <3>1. ~Collector(q)
        BY DEF CollectsAlone, FileWorker, FileCommands
      <3>2. Held(job[q], files, Referenced) /\ ~Collecting(job[q]) /\ files \subseteq files'
        BY <1>4, <2>2, <3>1 DEF FInv
      <3> QED BY <3>2, HeldByOthers
    <2> QED BY <2>1, <2>2
  <1> QED BY <1>3, <1>5, <1>6 DEF FInv, NamedFilesExist, At

\* The same for a process that collects.
LEMMA CollectorMoves ==
  ASSUME CollectsAlone, FInv, TInv', NEW p \in Process, Collector(p), NEW j, Goes(p, j),
         Referenced' \subseteq files', Held(j, files', Referenced')
  PROVE  FInv'
  BY WorkerMoves DEF Collector, FileWorker, FileCommands

\* The same for a job that does not collect and takes no file away.
LEMMA OtherMoves ==
  ASSUME CollectsAlone, FInv, TInv', NEW p \in Process, FileWorker(p), NEW j, Goes(p, j),
         ~Collecting(j), files \subseteq files',
         Referenced' \subseteq files', Held(j, files', Referenced')
  PROVE  FInv'
  BY WorkerMoves

\* The new rows of a source cite what was cited and what is named now.
LEMMA SetRowsCites ==
  ASSUME StoreTyped, NEW s \in Source, NEW blobs, NEW names, SetRows(s, blobs, names)
  PROVE  /\ Referenced' \subseteq Referenced \cup FilesOf(s, names)
         /\ names \subseteq named[s] => Referenced' \subseteq Referenced
  <1>1. \A t \in Source : named'[t] = IF t = s THEN names ELSE named[t]
    BY DEF SetRows, StoreTyped
  <1>2. \A t \in Source : FilesOf(t, named[t]) \subseteq Referenced
    BY DEF Referenced
  <1>3. \A t \in Source : FilesOf(t, named'[t]) \subseteq Referenced \cup FilesOf(s, names)
    BY <1>1, <1>2
  <1>4. Referenced' \subseteq Referenced \cup FilesOf(s, names)
    BY <1>3 DEF Referenced
  <1>5. names \subseteq named[s] => FilesOf(s, names) \subseteq FilesOf(s, named[s])
    BY DEF FilesOf
  <1> QED BY <1>2, <1>4, <1>5

LEMMA CitesStay ==
  ASSUME UNCHANGED named
  PROVE  Referenced' = Referenced
  BY DEF Referenced

\* A command that starts is one its process runs.
LEMMA StartedWorks ==
  ASSUME NEW p \in Process, NEW command \in FileCommands, Start(p, command)
  PROVE  /\ FileWorker(p)
         /\ command \in {"import", "gc"} => Collector(p)
  BY DEF Start, FileWorker, Collector

LEMMA InitHeld == Init => FInv
  <1> SUFFICES ASSUME Init PROVE FInv
    OBVIOUS
  <1>1. \A p \in Process : job[p] = Idle
    BY DEF Init
  <1>2. Referenced = {}
    BY DEF Init, Referenced, FilesOf
  <1> QED BY <1>1, <1>2, InitTyped, HeldIdle DEF FInv, NamedFilesExist, At, Idle, Collecting

LEMMA ImportHeld ==
  ASSUME CollectsAlone, FInv, TInv', NEW p \in Process, NEW b, NEW s, NEW mode,
         \/ b \in Bundle /\ StartImport(p, b, mode)
         \/ s \in Source /\ (Prepare(p, s) \/ Apply(p, s))
         \/ Record(p)
  PROVE  FInv'
  <1> USE DEF store
  <1> DEFINE j == job[p]
  <1>0. /\ StoreTyped /\ j \in Jobs /\ Known(j) /\ Held(j, files, Referenced)
        /\ Referenced \subseteq files /\ (j.at # "idle" => FileWorker(p))
        /\ (Collecting(j) => Collector(p))
    BY TInvParts DEF FInv, NamedFilesExist, At
  <1>w. Collector(p) /\ FileWorker(p)
    <2>1. CASE StartImport(p, b, mode)
      BY <2>1, StartedWorks DEF StartImport, FileCommands
    <2>2. CASE Prepare(p, s) \/ Apply(p, s) \/ Record(p)
      <3>1. j.at = "import"
        BY <2>2 DEF Prepare, Apply, Record, At
      <3> QED BY <1>0, <3>1 DEF Collecting
    <2> QED BY <2>1, <2>2
  <1>1. CASE b \in Bundle /\ StartImport(p, b, mode)
    <2> DEFINE new == Loading("import", b, Plan(b, mode), {})
    <2>1. Held(new, files', Referenced')
      BY LoadingRecord DEF Held
    <2>2. PICK k \in {Idle, new} : Goes(p, k)
      BY <1>1 DEF StartImport
    <2>3. Held(k, files', Referenced')
      BY <2>1, HeldIdle
    <2>4. FileWorker(p) /\ UNCHANGED <<named, files>>
      BY <1>1, StartedWorks DEF StartImport, FileCommands
    <2>5. Referenced' \subseteq files'
      BY <1>0, <2>4, CitesStay
    <2> QED BY <1>w, <2>2, <2>3, <2>4, <2>5, CollectorMoves
  <1>2. CASE s \in Source /\ Prepare(p, s)
    <2>1. j.at = "import" /\ s \in j.todo /\ UNCHANGED named /\ FileWorker(p) /\ Loads(j)
      BY <1>0, <1>2 DEF Prepare, At, Loads
    <2>2. files \subseteq files' /\ Referenced' = Referenced
      BY <1>2, <2>1, CitesStay DEF Prepare
    <2>3. CASE Goes(p, Idle)
      BY <1>w, <1>0, <2>1, <2>2, <2>3, HeldIdle, CollectorMoves
    <2>4. CASE ~Goes(p, Idle)
      <3> DEFINE new == Loading("import", j.bundle, j.todo \ {s}, j.ready \cup {s})
      <3>1. Goes(p, new) /\ (j.bundle \in HasRaw => files' = files \cup FilesOf(s, Contents[j.bundle][s]))
        BY <1>2, <2>4 DEF Prepare
      <3>2. j.bundle \in HasRaw =>
              \A t \in j.ready \cup {s} : FilesOf(t, Contents[j.bundle][t]) \subseteq files'
        BY <1>0, <2>1, <2>2, <3>1 DEF Held
      <3>3. Held(new, files', Referenced')
        BY <3>2, LoadingRecord DEF Held
      <3> HIDE DEF new
      <3> QED BY <1>w, <1>0, <2>1, <2>2, <3>1, <3>3, CollectorMoves
    <2> QED BY <2>3, <2>4
  <1>3. CASE s \in Source /\ Apply(p, s)
    <2> DEFINE new == Loading("import", j.bundle, {}, j.ready \ {s})
    <2>1. /\ j.at = "import" /\ s \in j.ready /\ UNCHANGED files /\ FileWorker(p) /\ Loads(j)
          /\ SetRows(s, Contents[j.bundle][s], Names(j.bundle, s)) /\ Goes(p, new)
      BY <1>0, <1>3 DEF Apply, At, Loads
    <2>2. FilesOf(s, Names(j.bundle, s)) \subseteq files
      BY <1>0, <2>1 DEF Held, Names, FilesOf
    <2>3. Referenced' \subseteq files'
      BY <1>0, <1>3, <2>1, <2>2, SetRowsCites
    <2>4. Held(new, files', Referenced')
      BY <1>0, <2>1, LoadingRecord DEF Held
    <2> HIDE DEF new
    <2> QED BY <1>w, <2>1, <2>3, <2>4, CollectorMoves
  <1>4. CASE Record(p)
    <2>1. Goes(p, [at |-> "collect"]) /\ UNCHANGED <<named, files>> /\ FileWorker(p)
      BY <1>0, <1>4 DEF Record, At
    <2>2. Held([at |-> "collect"], files', Referenced')
      BY DEF Held, Loads
    <2>3. Referenced' \subseteq files'
      BY <1>0, <2>1, CitesStay
    <2> QED BY <1>w, <2>1, <2>2, <2>3, CollectorMoves
  <1> QED BY <1>1, <1>2, <1>3, <1>4

LEMMA UploadHeld ==
  ASSUME CollectsAlone, FInv, TInv', NEW p \in Process, NEW b, NEW s,
         \/ b \in Bundle /\ StartUpload(p, b)
         \/ s \in Source /\ (ReceivePayload(p, s) \/ MergePayload(p, s))
         \/ RecordUpload(p)
  PROVE  FInv'
  <1> USE DEF store
  <1> DEFINE j == job[p]
  <1>0. /\ StoreTyped /\ j \in Jobs /\ Known(j) /\ Held(j, files, Referenced)
        /\ Referenced \subseteq files /\ (j.at # "idle" => FileWorker(p))
        /\ (Collecting(j) => Collector(p))
    BY TInvParts DEF FInv, NamedFilesExist, At
  <1>c. \A b0, todo, ready : ~Collecting(Loading("upload", b0, todo, ready))
                            /\ ~Collecting(Loading("create", b0, todo, ready))
    BY LoadingRecord DEF Collecting
  <1>i. ~Collecting(Idle)
    BY DEF Collecting, Idle
  <1>1. CASE b \in Bundle /\ StartUpload(p, b)
    <2> DEFINE new == Loading("upload", b, DOMAIN Contents[b], {})
    <2>1. Held(new, files', Referenced')
      BY LoadingRecord DEF Held
    <2>2. FileWorker(p) /\ Goes(p, new) /\ UNCHANGED <<named, files>>
      BY <1>1, StartedWorks DEF StartUpload, FileCommands
    <2>3. Referenced' \subseteq files'
      BY <1>0, <2>2, CitesStay
    <2>4. ~Collecting(new)
      BY <1>c
    <2> HIDE DEF new
    <2> QED BY <2>1, <2>2, <2>3, <2>4, OtherMoves
  <1>2. CASE s \in Source /\ ReceivePayload(p, s)
    <2> DEFINE skipped == Loading("upload", j.bundle, j.todo \ {s}, {})
               taken == Loading(IF s \in sources THEN "upload" ELSE "create",
                                j.bundle, j.todo \ {s}, {s})
    <2>1. UNCHANGED named /\ FileWorker(p) /\ files \subseteq files'
      BY <1>0, <1>2 DEF ReceivePayload, At
    <2>2. Referenced' \subseteq files'
      BY <1>0, <2>1, CitesStay
    <2>3. PICK k \in {skipped, taken, Idle} :
            /\ Goes(p, k)
            /\ k = taken => (j.bundle \in HasRaw => FilesOf(s, Contents[j.bundle][s]) \subseteq files')
      <3>1. CASE Goes(p, skipped)
        <4>1. skipped # taken
          BY LoadingRecord
        <4> QED BY <3>1, <4>1
      <3>2. CASE Goes(p, Idle)
        <4>1. Idle # taken
          BY LoadingRecord DEF Idle
        <4> QED BY <3>2, <4>1
      <3>3. CASE ~Goes(p, skipped) /\ ~Goes(p, Idle)
        BY <1>2, <3>3 DEF ReceivePayload
      <3> QED BY <3>1, <3>2, <3>3
    <2>4. Held(k, files', Referenced')
      <3>1. CASE k = skipped
        BY <3>1, LoadingRecord DEF Held
      <3>2. CASE k = taken
        BY <2>3, <3>2, LoadingRecord DEF Held
      <3>3. CASE k = Idle
        BY <3>3, HeldIdle
      <3> QED BY <3>1, <3>2, <3>3
    <2> QED BY <1>c, <1>i, <2>1, <2>2, <2>3, <2>4, OtherMoves
  <1>3. CASE s \in Source /\ MergePayload(p, s)
    <2> DEFINE new == Loading("upload", j.bundle, j.todo, {})
               brought == Contents[j.bundle][s]
               oldRows == IF j.at = "create" THEN {} ELSE rows[s]
               oldNames == IF j.at = "create" THEN {} ELSE named[s]
               names == (oldNames \ brought) \cup Names(j.bundle, s)
    <2>1. /\ j.at \in {"upload", "create"} /\ s \in j.ready /\ UNCHANGED files /\ FileWorker(p)
          /\ Loads(j) /\ SetRows(s, oldRows \cup brought, names) /\ Goes(p, new)
      BY <1>0, <1>3 DEF MergePayload, At, Loads
    <2>2. FilesOf(s, Names(j.bundle, s)) \subseteq files
      BY <1>0, <2>1 DEF Held, Names, FilesOf
    <2>3. FilesOf(s, oldNames) \subseteq files
      BY <1>0, <1>3 DEF Referenced, FilesOf
    <2>4. FilesOf(s, names) \subseteq files
      BY <2>2, <2>3 DEF FilesOf
    <2> HIDE DEF names, oldNames, oldRows, brought, new
    <2>5. Referenced' \subseteq files'
      BY <1>0, <1>3, <2>1, <2>4, SetRowsCites
    <2>6. Held(new, files', Referenced')
      BY LoadingRecord DEF Held, new
    <2>7. ~Collecting(new)
      BY <1>c DEF new
    <2> QED BY <2>1, <2>5, <2>6, <2>7, OtherMoves
  <1>4. CASE RecordUpload(p)
    <2>1. Goes(p, Idle) /\ UNCHANGED <<named, files>> /\ FileWorker(p)
      BY <1>0, <1>4 DEF RecordUpload, At
    <2>2. Referenced' \subseteq files'
      BY <1>0, <2>1, CitesStay
    <2> QED BY <1>c, <1>i, <2>1, <2>2, HeldIdle, OtherMoves
  <1> QED BY <1>1, <1>2, <1>3, <1>4

LEMMA ReplayHeld ==
  ASSUME CollectsAlone, FInv, TInv', NEW p \in Process, NEW s, NEW seen,
         (s \in Source /\ seen \in SUBSET Blob /\ Snapshot(p, s, seen)) \/ Persist(p)
  PROVE  FInv'
  <1> USE DEF store
  <1> DEFINE j == job[p]
  <1>0. /\ StoreTyped /\ j \in Jobs /\ Held(j, files, Referenced)
        /\ Referenced \subseteq files /\ (j.at # "idle" => FileWorker(p))
        /\ (Collecting(j) => Collector(p))
    BY TInvParts DEF FInv, NamedFilesExist, At
  <1>i. ~Collecting(Idle)
    BY DEF Collecting, Idle
  <1>1. CASE s \in Source /\ seen \in SUBSET Blob /\ Snapshot(p, s, seen)
    <2> DEFINE new == [at |-> "replay", source |-> s, seen |-> seen]
    <2>1. /\ FileWorker(p) /\ Goes(p, new) /\ UNCHANGED named
          /\ files' = files \cup FilesOf(s, seen)
      BY <1>1, StartedWorks DEF Snapshot, FileCommands
    <2>2. Referenced' \subseteq files'
      BY <1>0, <2>1, CitesStay
    <2>3. Held(new, files', Referenced')
      BY <2>1 DEF Held, Loads
    <2>4. ~Collecting(new)
      BY DEF Collecting
    <2> HIDE DEF new
    <2> QED BY <2>1, <2>2, <2>3, <2>4, OtherMoves
  <1>2. CASE Persist(p)
    <2>1. /\ j.at = "replay" /\ FileWorker(p) /\ Goes(p, Idle) /\ UNCHANGED files
          /\ SetRows(j.source, rows[j.source] \cup j.seen, named[j.source] \cup j.seen)
      BY <1>0, <1>2 DEF Persist, At
    <2>2. j.source \in Source
      BY <1>0, <2>1, OtherFields
    <2>3. FilesOf(j.source, named[j.source]) \subseteq files
      BY <1>0, <2>2 DEF Referenced
    <2>4. FilesOf(j.source, named[j.source] \cup j.seen) \subseteq files
      BY <1>0, <2>1, <2>3 DEF FilesOf, Held
    <2>5. Referenced' \subseteq files'
      BY <1>0, <2>1, <2>2, <2>4, SetRowsCites
    <2> QED BY <1>i, <2>1, <2>5, HeldIdle, OtherMoves
  <1> QED BY <1>1, <1>2

LEMMA GcHeld ==
  ASSUME CollectsAlone, FInv, TInv', NEW p \in Process, NEW f,
         StartGc(p) \/ References(p) \/ Walk(p) \/ RemoveFile(p, f) \/ FindEmpty(p) \/ RemoveDirectories(p)
  PROVE  FInv'
  <1> USE DEF store
  <1> DEFINE j == job[p]
  <1>0. /\ StoreTyped /\ j \in Jobs /\ Held(j, files, Referenced)
        /\ Referenced \subseteq files /\ (j.at # "idle" => FileWorker(p))
        /\ (Collecting(j) => Collector(p))
    BY TInvParts DEF FInv, NamedFilesExist, At
  <1>w. Collector(p) /\ FileWorker(p)
    <2>1. CASE StartGc(p)
      BY <2>1, StartedWorks DEF StartGc, FileCommands
    <2>2. CASE ~StartGc(p)
      <3>1. j.at \in {"collect", "walk", "remove", "rmdir"}
        BY <2>2 DEF References, Walk, RemoveFile, FindEmpty, RemoveDirectories, At
      <3> QED BY <1>0, <3>1 DEF Collecting
    <2> QED BY <2>1, <2>2
  <1>n. Referenced' = Referenced
    BY CitesStay DEF StartGc, References, Walk, RemoveFile, FindEmpty, RemoveDirectories
  <1>1. CASE StartGc(p)
    <2>1. Held([at |-> "collect"], files', Referenced')
      BY DEF Held, Loads
    <2>2. FileWorker(p) /\ Goes(p, [at |-> "collect"]) /\ UNCHANGED files
      BY <1>1, StartedWorks DEF StartGc, FileCommands
    <2> QED BY <1>w, <1>0, <1>n, <2>1, <2>2, CollectorMoves
  <1>2. CASE References(p)
    <2> DEFINE new == [at |-> "walk", keep |-> Referenced]
    <2>1. Held(new, files', Referenced')
      BY <1>n DEF Held, Loads
    <2>2. FileWorker(p) /\ Goes(p, new) /\ UNCHANGED files
      BY <1>0, <1>2 DEF References, ListReferences, At
    <2> HIDE DEF new
    <2> QED BY <1>w, <1>0, <1>n, <2>1, <2>2, CollectorMoves
  <1>3. CASE Walk(p)
    <2> DEFINE new == [at |-> "remove", list |-> files, keep |-> j.keep]
    <2>1. FileWorker(p) /\ Goes(p, new) /\ UNCHANGED files /\ j.at = "walk"
      BY <1>0, <1>3 DEF Walk, At
    <2>2. Held(new, files', Referenced')
      BY <1>0, <1>n, <2>1 DEF Held, Loads
    <2> HIDE DEF new
    <2> QED BY <1>w, <1>0, <1>n, <2>1, <2>2, CollectorMoves
  <1>4. CASE RemoveFile(p, f)
    <2> DEFINE new == [at |-> "remove", list |-> j.list \ {f}, keep |-> j.keep]
    <2>1. /\ FileWorker(p) /\ Goes(p, new) /\ j.at = "remove"
          /\ files' = IF f \in j.keep THEN files ELSE files \ {f}
      BY <1>0, <1>4 DEF RemoveFile, At
    <2>2. Held(new, files', Referenced')
      BY <1>0, <1>n, <2>1 DEF Held, Loads
    <2>3. Referenced \subseteq j.keep
      BY <1>0, <2>1 DEF Held
    <2>4. Referenced' \subseteq files'
      BY <1>0, <1>n, <2>1, <2>3
    <2> HIDE DEF new
    <2> QED BY <1>w, <2>1, <2>2, <2>4, CollectorMoves
  <1>5. CASE FindEmpty(p)
    <2> DEFINE empty == {s \in Source : \A b \in Blob : <<s, b>> \notin files}
               new == [at |-> "rmdir", empty |-> empty]
    <2>1. FileWorker(p) /\ Goes(p, new) /\ UNCHANGED files
      BY <1>0, <1>5 DEF FindEmpty, At
    <2>2. files \cap (empty \X Blob) = {}
      OBVIOUS
    <2>3. Held(new, files', Referenced')
      BY <1>0, <1>n, <2>2 DEF Held, Loads
    <2> HIDE DEF new
    <2> QED BY <1>w, <1>0, <1>n, <2>1, <2>3, CollectorMoves
  <1>6. CASE RemoveDirectories(p)
    <2>1. FileWorker(p) /\ Goes(p, Idle) /\ files' = files \ (j.empty \X Blob) /\ j.at = "rmdir"
      BY <1>0, <1>6 DEF RemoveDirectories, At
    <2>2. Referenced \cap (j.empty \X Blob) = {}
      BY <1>0, <2>1 DEF Held
    <2>3. Referenced' \subseteq files'
      BY <1>0, <1>n, <2>1, <2>2
    <2> QED BY <1>w, <2>1, <2>3, HeldIdle, CollectorMoves
  <1> QED BY <1>1, <1>2, <1>3, <1>4, <1>5, <1>6

LEMMA SyncHeld ==
  ASSUME CollectsAlone, FInv, TInv', NEW p \in Process, NEW s, NEW kept, NEW changed, NEW new,
         (s \in Source /\ StartSync(p, s)) \/ WriteSync(p, kept, changed, new)
  PROVE  FInv'
  <1> USE DEF store
  <1> DEFINE j == job[p]
  <1>0. /\ StoreTyped /\ j \in Jobs /\ Held(j, files, Referenced)
        /\ Referenced \subseteq files /\ (j.at # "idle" => FileWorker(p))
    BY TInvParts DEF FInv, NamedFilesExist, At
  <1>i. ~Collecting(Idle)
    BY DEF Collecting, Idle
  <1>1. CASE s \in Source /\ StartSync(p, s)
    <2> DEFINE loading == [at |-> "sync", source |-> s, loaded |-> rows[s], names |-> named[s]]
    <2>1. FileWorker(p) /\ Goes(p, loading) /\ UNCHANGED <<named, files>>
      BY <1>1, StartedWorks DEF StartSync, FileCommands
    <2>2. Referenced' \subseteq files'
      BY <1>0, <2>1, CitesStay
    <2>3. FilesOf(s, named[s]) \subseteq files'
      BY <1>0, <1>1, <2>1 DEF Referenced
    <2>4. Held(loading, files', Referenced')
      BY <2>3 DEF Held, Loads
    <2>5. ~Collecting(loading)
      BY DEF Collecting
    <2> HIDE DEF loading
    <2> QED BY <2>1, <2>2, <2>4, <2>5, OtherMoves
  <1>2. CASE WriteSync(p, kept, changed, new)
    <2> DEFINE names == (named[j.source] \ (changed \cup kept \cup new)) \cup (kept \cap j.names)
    <2>1. /\ j.at = "sync" /\ FileWorker(p) /\ Goes(p, Idle) /\ UNCHANGED files
          /\ SetRows(j.source, (rows[j.source] \ changed) \cup kept \cup new, names)
      BY <1>0, <1>2 DEF WriteSync, At
    <2>2. j.source \in Source
      BY <1>0, <2>1, OtherFields
    <2>3. FilesOf(j.source, named[j.source]) \subseteq files
      BY <1>0, <2>2 DEF Referenced
    <2>4. FilesOf(j.source, j.names) \subseteq files
      BY <1>0, <2>1 DEF Held
    <2>5. FilesOf(j.source, names) \subseteq files
      BY <2>3, <2>4 DEF FilesOf
    <2> HIDE DEF names
    <2>6. Referenced' \subseteq files'
      BY <1>0, <2>1, <2>2, <2>5, SetRowsCites
    <2> QED BY <1>i, <2>1, <2>6, HeldIdle, OtherMoves
  <1> QED BY <1>1, <1>2

\* A purge only takes names away.
LEMMA PurgeHeld ==
  ASSUME FInv, TInv', NEW p \in Process, NEW s \in Source, NEW b, Purge(p, s, b)
  PROVE  FInv'
  <1>1. StoreTyped
    BY TInvParts DEF FInv
  <1>2. named[s] \ {b} \subseteq named[s]
    OBVIOUS
  <1>3. UNCHANGED <<files, job>> /\ Referenced' \subseteq Referenced
    BY <1>1, <1>2, SetRowsCites DEF Purge
  <1>4. \A q \in Process : Held(job'[q], files', Referenced')
    <2> SUFFICES ASSUME NEW q \in Process PROVE Held(job[q], files, Referenced')
      BY <1>3
    <2>1. Held(job[q], files, Referenced) /\ files \subseteq files
      BY DEF FInv
    <2> QED BY <1>3, <2>1, HeldKept
  <1>5. Referenced' \subseteq files'
    BY <1>3 DEF FInv, NamedFilesExist
  <1> QED BY <1>3, <1>4, <1>5 DEF FInv, NamedFilesExist, At, FileWorker

LEMMA DieHeld ==
  ASSUME CollectsAlone, FInv, TInv', NEW p \in Process, Die(p)
  PROVE  FInv'
  <1>1. FileWorker(p) /\ Goes(p, Idle) /\ UNCHANGED <<named, files>>
    BY DEF Die, FInv, store
  <1>i. ~Collecting(Idle)
    BY DEF Collecting, Idle
  <1>2. Referenced' \subseteq files'
    BY <1>1, CitesStay DEF FInv, NamedFilesExist
  <1> QED BY <1>i, <1>1, <1>2, HeldIdle, OtherMoves

LEMMA HeldSteps == CollectsAlone /\ FInv /\ [Next]_vars => FInv'
  <1> SUFFICES ASSUME CollectsAlone, FInv, [Next]_vars PROVE FInv'
    OBVIOUS
  <1>0. TInv'
    BY Typed DEF FInv
  <1>1. CASE UNCHANGED vars
    <2>1. UNCHANGED <<named, files, job>>
      BY <1>1 DEF vars, store
    <2>2. Referenced' = Referenced
      BY <2>1, CitesStay
    <2> QED BY <1>0, <2>1, <2>2 DEF FInv, NamedFilesExist, At, FileWorker
  <1>2. CASE Next
    <2>1. PICK p \in Process : NextOf(p)
      BY <1>2 DEF Next, NextOf
    <2>2. CASE \/ \E b \in Bundle, mode \in {"error", "skip", "replace"} : StartImport(p, b, mode)
               \/ \E s \in Source : Prepare(p, s) \/ Apply(p, s)
               \/ Record(p)
      BY <1>0, <2>2, ImportHeld, Zenon
    <2>3. CASE \/ \E b \in Bundle : StartUpload(p, b)
               \/ \E s \in Source : ReceivePayload(p, s) \/ MergePayload(p, s)
               \/ RecordUpload(p)
      BY <1>0, <2>3, UploadHeld, Zenon
    <2>4. CASE (\E s \in Source : \E seen \in SUBSET Blob : Snapshot(p, s, seen)) \/ Persist(p)
      BY <1>0, <2>4, ReplayHeld, Zenon
    <2>5. CASE \/ StartGc(p) \/ References(p) \/ Walk(p) \/ FindEmpty(p) \/ RemoveDirectories(p)
               \/ \E f : RemoveFile(p, f)
      BY <1>0, <2>5, GcHeld, Zenon
    <2>6. CASE \/ \E s \in Source : StartSync(p, s)
               \/ \E kept, changed : \E new \in SUBSET Blob : WriteSync(p, kept, changed, new)
      BY <1>0, <2>6, SyncHeld, Zenon
    <2>6a. CASE \E s \in Source : \E b : Purge(p, s, b)
      BY <1>0, <2>6a, PurgeHeld, Zenon
    <2>7. CASE Die(p)
      BY <1>0, <2>7, DieHeld
    <2> QED BY <2>1, <2>2, <2>3, <2>4, <2>5, <2>6, <2>6a, <2>7 DEF NextOf
  <1> QED BY <1>1, <1>2

\* No row names a file that is gone, wherever the processes die: if the others
\* only purge beside a process that collects (it may itself import, take uploads,
\* replay and sync, one command after the other), or if none collects.
THEOREM NamedFilesAlwaysExist ==
  ASSUME CollectsAlone
  PROVE  Spec => []NamedFilesExist
  <1>1. FInv => NamedFilesExist
    BY DEF FInv
  <1>2. FInv /\ [Next]_vars => FInv'
    BY HeldSteps
  <1> QED BY <1>1, <1>2, InitHeld, PTL DEF Spec
=============================================================================
