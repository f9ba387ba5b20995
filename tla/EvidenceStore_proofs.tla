------------------------ MODULE EvidenceStore_proofs ------------------------
(***************************************************************************)
(* Proofs about EvidenceStore for any processes, sources, files, contents  *)
(* and bounds.  The invariant that carries them says who may be inside the *)
(* write transaction and that a writer about to insert its rows has every  *)
(* file of its payload on disk; the rest are the properties themselves.    *)
(***************************************************************************)
EXTENDS EvidenceStore, TLAPS

Writing == {"materializing", "writing"}

\* A process holds SQLite's write lock exactly while it is in the source write
\* transaction.
LockIsHeld == \A q \in Proc : lock = q <=> pc[q] \in Writing

\* A process that probed carries the payload it is going to write, one that
\* selected turns carries its choice, and the transaction materializes exactly
\* the addresses of its payload.
WorkIsCarried ==
    \A q \in Proc :
        /\ pc[q] \in {"probed", "decided"} \cup Writing => payload[q] \in Payload
        /\ pc[q] = "materializing" => ShasIn(payload[q]) \subseteq todo[q]
        /\ pc[q] = "selected" => choice[q] \in Choice

\* Before the rows are inserted their files are complete.
WritersHaveFiles ==
    \A q \in Proc : pc[q] = "writing" => \A a \in ShasIn(payload[q]) : file[a] = "full"

TypeInv == TypeOK /\ WorkIsCarried
FileInv == LockIsHeld /\ WritersHaveFiles /\ RowsHaveFiles

----------------------------------------------------------------------------
(* What a payload may contain.                                             *)

LEMMA PayloadBlobs ==
    ASSUME NEW pl \in Payload, NEW O \in SUBSET WithBlob
    PROVE  BlobsIn(pl, O) \subseteq Blob
<1> SUFFICES ASSUME NEW p \in With(pl, O)
             PROVE  [src |-> pl.src, path |-> p, content |-> pl.content[p]] \in Blob
    BY DEF BlobsIn
<1>1. p \in PathsOf(pl.src) /\ pl.content[p] \in Content /\ pl.src \in Source /\ p \in Path
    BY DEF Payload, With, WithBlob
<1> QED
    BY <1>1 DEF Blob

LEMMA PayloadEvidence ==
    ASSUME NEW pl \in Payload, NEW O \in SUBSET WithBlob
    PROVE  EvidenceIn(pl, O) \subseteq Evidence
<1> SUFFICES ASSUME NEW p \in With(pl, O) PROVE EvidenceAt(pl, p) \in Evidence
    BY DEF EvidenceIn
<1>1. /\ p \in PathsOf(pl.src) /\ pl.content[p] \in Content
      /\ pl.src \in Source /\ pl.kind[p] \in Kind /\ p \in Path
    BY DEF Payload, With, WithBlob
<1> QED
    BY <1>1 DEF EvidenceAt, Evidence

LEMMA EvidenceShaType == \A e \in Evidence : EvidenceSha(e) \in Sha
<1> SUFFICES ASSUME NEW e \in Evidence PROVE EvidenceSha(e) \in Sha
    OBVIOUS
<1>1. BlobOf(e) \in Blob /\ e.content \in Content /\ e.kind \in Kind
    BY DEF Evidence, Blob, BlobOf
<1> QED
    BY <1>1 DEF EvidenceSha, Sha, Kind

LEMMA TurnShaType == \A t \in Turn : TurnSha(t) \in Sha
BY DEF TurnSha, Sha

LEMMA PayloadTurns ==
    ASSUME NEW pl \in Payload
    PROVE  TurnsOf(pl) \subseteq Turn
<1> SUFFICES ASSUME NEW p \in With(pl, {"parsed"}), NEW n \in TurnsIn[pl.content[p]]
             PROVE  [src |-> pl.src, path |-> p, n |-> n, content |-> pl.content[p]] \in Turn
    BY DEF TurnsOf
<1>1. p \in PathsOf(pl.src) /\ pl.content[p] \in Content /\ pl.src \in Source
    BY DEF Payload, With, WithBlob
<1>2. n \in TurnNo
    BY <1>1, EvidenceStoreAssumption
<1> QED
    BY <1>1, <1>2 DEF Turn, PathsOf

LEMMA PayloadShas ==
    ASSUME NEW pl \in Payload
    PROVE  ShasIn(pl) \subseteq Sha
BY PayloadEvidence, PayloadTurns, EvidenceShaType, TurnShaType DEF ShasIn

LEMMA ParsedHasEvidence == \A pl : EvidenceIn(pl, {"parsed"}) \subseteq EvidenceIn(pl, WithBlob)
BY DEF EvidenceIn, With, WithBlob

LEMMA PayloadType ==
    ASSUME NEW pl \in Payload
    PROVE  /\ BlobsIn(pl, {"parsed", "parse_error"}) \subseteq Blob
           /\ BlobsIn(pl, WithBlob) \subseteq Blob
           /\ EvidenceIn(pl, {"parsed"}) \subseteq Evidence
           /\ EvidenceIn(pl, WithBlob) \subseteq Evidence
           /\ TurnsOf(pl) \subseteq Turn
           /\ ShasIn(pl) \subseteq Sha
<1>1. {"parsed", "parse_error"} \subseteq WithBlob /\ {"parsed"} \subseteq WithBlob
    BY DEF WithBlob
<1> QED
    BY <1>1, PayloadBlobs, PayloadEvidence, PayloadTurns, PayloadShas

\* Reading the files again decides only what each blob is kept as.
LEMMA MaterializedType ==
    ASSUME NEW pl \in Payload, NEW readable
    PROVE  Materialized(pl, readable) \in Payload
<1> DEFINE K == [p \in Path |->
                   IF \/ p \notin With(pl, WithBlob) \/ p \in readable
                      \/ [EvidenceAt(pl, p) EXCEPT !.kind = "source_blob"] \in captures
                   THEN "source_blob" ELSE "record_snapshot"]
<1>1. K \in [Path -> Kind]
    BY DEF Kind
<1>2. Materialized(pl, readable) = [pl EXCEPT !.kind = K]
    BY DEF Materialized
<1> HIDE DEF K
<1> QED
    BY <1>1, <1>2 DEF Payload

\* What a ledger row can become.
LEMMA LedgerAfterType ==
    ASSUME NEW pl \in Payload, NEW l \in [LedgerId -> Ledger \cup {NoLedger}]
    PROVE  LedgerAfter(pl, l) \in [LedgerId -> Ledger \cup {NoLedger}]
<1> SUFFICES ASSUME NEW i \in LedgerId
             PROVE  LedgerAfter(pl, l)[i] \in Ledger \cup {NoLedger}
    BY DEF LedgerAfter
<1>1. CASE /\ i[1] = pl.src
           /\ \/ i[2] \in With(pl, {"parsed"})
              \/ i[2] \in With(pl, WithBlob) /\ l[i] = NoLedger
    <2>1. i[2] \in With(pl, WithBlob)
        BY <1>1 DEF With, WithBlob
    <2>2. EvidenceAt(pl, i[2]) \in EvidenceIn(pl, WithBlob)
        BY <2>1 DEF EvidenceIn
    <2>3. EvidenceSha(EvidenceAt(pl, i[2])) \in Sha
        BY <2>2, PayloadType, EvidenceShaType
    <2>4. LedgerAfter(pl, l)[i] = [sha |-> EvidenceSha(EvidenceAt(pl, i[2])), axis |-> "current"]
        BY <1>1 DEF LedgerAfter
    <2> QED
        BY <2>3, <2>4 DEF Ledger
<1> QED
    BY <1>1 DEF LedgerAfter

LEMMA ReconciledType ==
    ASSUME NEW s, NEW observed, ledger \in [LedgerId -> Ledger \cup {NoLedger}]
    PROVE  Reconciled(s, observed) \in [LedgerId -> Ledger \cup {NoLedger}]
BY DEF Reconciled, Ledger

\* Deciding between merge and replace.
LEMMA DecidedType ==
    ASSUME NEW pl \in Payload, NEW b \in BOOLEAN
    PROVE  [pl EXCEPT !.merge = b] \in Payload
BY DEF Payload

----------------------------------------------------------------------------
(* Types.                                                                  *)

LEMMA TypeInit == Init => TypeInv
BY EvidenceStoreAssumption DEF Init, TypeInv, TypeOK, WorkIsCarried, Writing

LEMMA TypeStep == TypeInv /\ [Next]_vars => TypeInv'
<1> SUFFICES ASSUME TypeInv, [Next]_vars PROVE TypeInv'
    OBVIOUS
<1> USE DEF TypeInv, TypeOK
<1>1. CASE UNCHANGED vars
    BY <1>1 DEF vars, world, db, procs, WorkIsCarried
<1>2. ASSUME NEW p \in Path, NEW c \in Content \cup {Missing}, EditSourceFile(p, c)
      PROVE  TypeInv'
    BY <1>2 DEF EditSourceFile, db, procs, WorkIsCarried
<1>3. ASSUME NEW q \in Proc, NEW s \in Source, NEW op \in {"sync", "upload"},
             NEW complete \in BOOLEAN, NEW outcome \in [Path -> Outcome],
             ProbeSource(q, s, op, outcome, complete)
      PROVE  TypeInv'
    <2>1. payload'[q] \in Payload
        <3> DEFINE content == [p \in Path |->
                        IF outcome[p] \in WithBlob THEN disk[p] ELSE Missing]
        <3>1. \A p \in Path : outcome[p] # "absent" => p \in PathsOf(s) /\ disk[p] \in Content
            BY <1>3 DEF ProbeSource, Outcomes
        <3>2. /\ content \in [Path -> Content \cup {Missing}]
              /\ \A p \in Path : outcome[p] \in WithBlob => content[p] \in Content
            BY <3>1 DEF WithBlob
        <3>3. [p \in Path |-> "source_blob"] \in [Path -> Kind]
            BY DEF Kind
        <3>4. payload'[q] = [op |-> op, src |-> s, outcome |-> outcome, content |-> content,
                             kind |-> [p \in Path |-> "source_blob"],
                             complete |-> complete, merge |-> (op = "sync" /\ s \in sources)]
            BY <1>3 DEF ProbeSource
        <3> HIDE DEF content
        <3> QED
            BY <3>1, <3>2, <3>3, <3>4 DEF Payload
    <2>2. payload' \in [Proc -> Payload \cup {NoPayload}]
        BY <1>3, <2>1 DEF ProbeSource
    <2> QED
        BY <1>3, <2>1, <2>2 DEF ProbeSource, world, db, WorkIsCarried, Writing
<1>3a. ASSUME NEW q \in Proc, CheckStored(q) PROVE TypeInv'
    <2>1. payload[q] \in Payload
        BY <1>3a DEF CheckStored, WorkIsCarried
    <2>2. payload'[q] \in Payload
        <3>1. PICK b \in BOOLEAN :
                 payload' = [payload EXCEPT ![q] = [payload[q] EXCEPT !.merge = b]]
            <4>1. (payload[q].src \in sources) \in BOOLEAN
                OBVIOUS
            <4>2. payload' = [payload EXCEPT ![q] =
                                 [payload[q] EXCEPT !.merge = (payload[q].src \in sources)]]
                BY <1>3a, Zenon DEF CheckStored
            <4> QED
                BY <4>1, <4>2, Zenon
        <3> QED
            BY <2>1, <3>1, DecidedType
    <2> QED
        BY <1>3a, <2>2 DEF CheckStored, world, db, WorkIsCarried, Writing
<1>4. ASSUME NEW q \in Proc, NEW readable \in SUBSET Path, BeginSourceWrite(q, readable)
      PROVE  TypeInv'
    <2> DEFINE pl == Materialized(payload[q], readable)
    <2>1. pl \in Payload
        BY <1>4, MaterializedType DEF BeginSourceWrite, WorkIsCarried
    <2>2. ShasIn(pl) \subseteq Sha
        BY <2>1, PayloadShas
    <2>3. /\ payload' = [payload EXCEPT ![q] = pl]
          /\ todo' = [todo EXCEPT ![q] = ShasIn(pl)]
          /\ pc' = [pc EXCEPT ![q] = "materializing"]
          /\ lock' = q
          /\ UNCHANGED <<world, crashes, db, file, choice, unlinks>>
        BY <1>4 DEF BeginSourceWrite
    <2> HIDE DEF pl
    <2> QED
        BY <2>1, <2>2, <2>3 DEF world, db, WorkIsCarried, Writing
<1>5. ASSUME NEW q \in Proc, Materialize(q) PROVE TypeInv'
    BY <1>5 DEF Materialize, world, db, WorkIsCarried, Writing
<1>6. ASSUME NEW q \in Proc, NEW written \in SUBSET todo[q], IntegrityMismatch(q, written)
      PROVE  TypeInv'
    BY <1>6 DEF IntegrityMismatch, world, db, WorkIsCarried, Writing
<1>6a. ASSUME NEW q \in Proc, UpdateSourceSyncMetadata(q) PROVE TypeInv'
    <2>1. payload[q] \in Payload
        BY <1>6a DEF UpdateSourceSyncMetadata, WorkIsCarried
    <2>2. ledger' \in [LedgerId -> Ledger \cup {NoLedger}]
        BY <1>6a, ReconciledType DEF UpdateSourceSyncMetadata, LedgerBefore
    <2>3. sources' \subseteq Source
        BY <1>6a, <2>1 DEF UpdateSourceSyncMetadata, Payload
    <2> QED
        BY <1>6a, <2>2, <2>3
        DEF UpdateSourceSyncMetadata, AfterWrite, Unlinking, world, WorkIsCarried, Writing
<1>7. ASSUME NEW q \in Proc, MergeSourcePayload(q) PROVE TypeInv'
    <2> DEFINE pl == payload[q]
    <2>1. /\ pl \in Payload
          /\ BlobsIn(pl, {"parsed", "parse_error"}) \subseteq Blob
          /\ EvidenceIn(pl, {"parsed"}) \subseteq Evidence
          /\ EvidenceIn(pl, WithBlob) \subseteq Evidence
          /\ TurnsOf(pl) \subseteq Turn
          /\ ShasIn(pl) \subseteq Sha
        BY <1>7, PayloadType DEF MergeSourcePayload, WorkIsCarried, Writing
    <2>2. ledger' \in [LedgerId -> Ledger \cup {NoLedger}]
        BY <1>7, <2>1, LedgerAfterType, ReconciledType DEF MergeSourcePayload, LedgerBefore
    <2>3. sources' \subseteq Source
        BY <1>7, <2>1 DEF MergeSourcePayload, Payload
    <2> QED
        BY <1>7, <2>1, <2>2, <2>3
        DEF MergeSourcePayload, Leftover, AfterWrite, Unlinking, world, WorkIsCarried, Writing
<1>8. ASSUME NEW q \in Proc, ReplaceSourcePayload(q) PROVE TypeInv'
    <2> DEFINE pl == payload[q]
    <2>1. /\ pl \in Payload
          /\ BlobsIn(pl, WithBlob) \subseteq Blob
          /\ EvidenceIn(pl, {"parsed"}) \subseteq Evidence
          /\ EvidenceIn(pl, WithBlob) \subseteq Evidence
          /\ TurnsOf(pl) \subseteq Turn
          /\ ShasIn(pl) \subseteq Sha
        BY <1>8, PayloadType DEF ReplaceSourcePayload, WorkIsCarried, Writing
    <2>2. ledger' \in [LedgerId -> Ledger \cup {NoLedger}]
        <3>1. \A i \in LedgerId : ledger[i] # NoLedger =>
                 [ledger[i] EXCEPT !.axis = "source_absent"] \in Ledger
            BY DEF Ledger
        <3> QED
            BY <1>8, <2>1, <3>1, LedgerAfterType DEF ReplaceSourcePayload
    <2>3. sources' \subseteq Source
        BY <1>8, <2>1 DEF ReplaceSourcePayload, Payload
    <2>4. rows' \subseteq Sha /\ unlinks' \in [Proc -> SUBSET Sha]
        BY <1>8, <2>1 DEF ReplaceSourcePayload, Leftover, AfterWrite
    <2> QED
        BY <1>8, <2>1, <2>2, <2>3, <2>4
        DEF ReplaceSourcePayload, AfterWrite, Unlinking, world, WorkIsCarried, Writing
<1>9. ASSUME NEW q \in Proc, NEW failed \in SUBSET unlinks[q],
             UnlinkEvidenceBlobFiles(q, failed)
      PROVE  TypeInv'
    BY <1>9 DEF UnlinkEvidenceBlobFiles, world, db, WorkIsCarried, Writing
<1>10. ASSUME NEW q \in Proc, PruneEvidenceBlobs(q) PROVE TypeInv'
    BY <1>10 DEF PruneEvidenceBlobs, world, WorkIsCarried, Writing
<1>11. ASSUME NEW q \in Proc, NEW op \in Deletion, NEW doomed \in SUBSET turns,
              SelectTurns(q, op, doomed)
       PROVE  TypeInv'
    <2>1. choice'[q] \in Choice
        BY <1>11 DEF SelectTurns, Choice
    <2> QED
        BY <1>11, <2>1 DEF SelectTurns, world, db, WorkIsCarried, Writing
<1>12. ASSUME NEW q \in Proc, NEW orphans, NEW doomed, Cascade(q, orphans, Without(doomed))
       PROVE  TypeInv'
    BY <1>12 DEF Cascade, Spared, Without, Unlinking, world, WorkIsCarried, Writing
<1>13. ASSUME NEW q \in Proc, DeletionFails(q) PROVE TypeInv'
    BY <1>13 DEF DeletionFails, world, db, WorkIsCarried, Writing
<1>14. ASSUME NEW q \in Proc, NEW written \in SUBSET todo[q], NEW torn \in SUBSET todo[q],
              Crash(q, written, torn)
       PROVE  TypeInv'
    BY <1>14 DEF Crash, world, db, WorkIsCarried, Writing
<1> QED
    BY <1>1, <1>2, <1>3, <1>3a, <1>4, <1>5, <1>6, <1>6a, <1>7, <1>8, <1>9, <1>10, <1>11,
       <1>12, <1>13, <1>14 DEF Next, Step, PurgeTurns, DeleteProject

\* Every variable keeps its type in every reachable state.
THEOREM TypeCorrect == Spec => []TypeOK
<1>1. TypeInv => TypeOK
    BY DEF TypeInv
<1> QED
    BY TypeInit, TypeStep, <1>1, PTL DEF Spec

----------------------------------------------------------------------------
(* Rows and files.                                                         *)

LEMMA FileInit == Init => FileInv
BY EvidenceStoreAssumption
   DEF Init, FileInv, LockIsHeld, WritersHaveFiles, RowsHaveFiles, Writing

LEMMA FileStep == TypeInv /\ FileInv /\ [Next]_vars => FileInv'
<1> SUFFICES ASSUME TypeInv, FileInv, [Next]_vars PROVE FileInv'
    OBVIOUS
<1> USE DEF FileInv, RowsHaveFiles, LockIsHeld, WritersHaveFiles, Writing
<1>0. /\ Nobody \notin Proc
      /\ lock \in Proc \cup {Nobody}
      /\ rows \subseteq Sha
      /\ \A q \in Proc : pc[q] \in {"materializing", "writing"} => payload[q] \in Payload
      /\ \A q \in Proc : pc[q] \in {"materializing", "writing"} => ShasIn(payload[q]) \subseteq Sha
      /\ DOMAIN pc = Proc /\ DOMAIN payload = Proc /\ DOMAIN file = Sha
      /\ \A q \in Proc : todo[q] \subseteq Sha
    BY EvidenceStoreAssumption, PayloadShas DEF TypeInv, TypeOK, WorkIsCarried
<1>1. CASE UNCHANGED vars
    BY <1>1 DEF vars, world, db, procs
<1>2. ASSUME NEW p \in Path, NEW c \in Content \cup {Missing}, EditSourceFile(p, c)
      PROVE  FileInv'
    BY <1>2 DEF EditSourceFile, db, procs
<1>3. ASSUME NEW q \in Proc, NEW s \in Source, NEW op \in {"sync", "upload"},
             NEW complete \in BOOLEAN, NEW outcome \in [Path -> Outcome],
             ProbeSource(q, s, op, outcome, complete)
      PROVE  FileInv'
    BY <1>0, <1>3 DEF ProbeSource, db
<1>3a. ASSUME NEW q \in Proc, CheckStored(q) PROVE FileInv'
    BY <1>0, <1>3a DEF CheckStored, db
<1>4. ASSUME NEW q \in Proc, NEW readable, BeginSourceWrite(q, readable) PROVE FileInv'
    BY <1>0, <1>4 DEF BeginSourceWrite, db
<1>5. ASSUME NEW q \in Proc, Materialize(q) PROVE FileInv'
    <2>1. \A a \in ShasIn(payload[q]) : file'[a] = "full"
        BY <1>0, <1>5 DEF Materialize, TypeInv, WorkIsCarried
    <2>2. \A r \in Proc \ {q} : pc'[r] \notin Writing
        BY <1>0, <1>5 DEF Materialize
    <2>3. \A a \in rows' : file'[a] = "full"
        BY <1>0, <1>5 DEF Materialize, db
    <2> QED
        BY <1>0, <1>5, <2>1, <2>2, <2>3 DEF Materialize, db
<1>6. ASSUME NEW q \in Proc, NEW written \in SUBSET todo[q], IntegrityMismatch(q, written)
      PROVE  FileInv'
    <2>1. \A r \in Proc : pc'[r] \notin Writing
        BY <1>0, <1>6 DEF IntegrityMismatch
    <2> QED
        BY <1>0, <1>6, <2>1 DEF IntegrityMismatch, db
<1>6a. ASSUME NEW q \in Proc, UpdateSourceSyncMetadata(q) PROVE FileInv'
    BY <1>0, <1>6a DEF UpdateSourceSyncMetadata, AfterWrite, Unlinking
<1>7. ASSUME NEW q \in Proc, MergeSourcePayload(q) PROVE FileInv'
    <2>1. \A r \in Proc : pc'[r] \notin Writing
        BY <1>0, <1>7 DEF MergeSourcePayload, AfterWrite, Unlinking
    <2>2. rows' \subseteq rows \cup ShasIn(payload[q])
        BY <1>7 DEF MergeSourcePayload
    <2>3. file' = file /\ lock' = Nobody /\ pc[q] = "writing"
        BY <1>7 DEF MergeSourcePayload, AfterWrite
    <2> QED
        BY <1>0, <2>1, <2>2, <2>3
<1>8. ASSUME NEW q \in Proc, ReplaceSourcePayload(q) PROVE FileInv'
    <2>1. \A r \in Proc : pc'[r] \notin Writing
        BY <1>0, <1>8 DEF ReplaceSourcePayload, AfterWrite, Unlinking
    <2>2. rows' \subseteq rows \cup ShasIn(payload[q])
        BY <1>8 DEF ReplaceSourcePayload
    <2>3. file' = file /\ lock' = Nobody /\ pc[q] = "writing"
        BY <1>8 DEF ReplaceSourcePayload, AfterWrite
    <2> QED
        BY <1>0, <2>1, <2>2, <2>3
<1>9. ASSUME NEW q \in Proc, NEW failed \in SUBSET unlinks[q],
             UnlinkEvidenceBlobFiles(q, failed)
      PROVE  FileInv'
    <2>1. CASE lock = Nobody
        <3>1. \A r \in Proc : pc'[r] \notin Writing
            BY <1>0, <1>9, <2>1 DEF UnlinkEvidenceBlobFiles
        <3> QED
            BY <1>0, <1>9, <2>1, <3>1 DEF UnlinkEvidenceBlobFiles, db
    <2>2. CASE unlinks[q] = {}
        <3>1. file' = file
            BY <1>9, <2>2 DEF UnlinkEvidenceBlobFiles, TypeInv, TypeOK
        <3> QED
            BY <1>0, <1>9, <3>1 DEF UnlinkEvidenceBlobFiles, db
    <2> QED
        BY <1>9, <2>1, <2>2 DEF UnlinkEvidenceBlobFiles
<1>10. ASSUME NEW q \in Proc, PruneEvidenceBlobs(q) PROVE FileInv'
    BY <1>0, <1>10 DEF PruneEvidenceBlobs
<1>11. ASSUME NEW q \in Proc, NEW op \in Deletion, NEW doomed \in SUBSET turns,
              SelectTurns(q, op, doomed)
       PROVE  FileInv'
    BY <1>0, <1>11 DEF SelectTurns, db
<1>12. ASSUME NEW q \in Proc, NEW orphans, NEW kept, pc[q] = "selected", Cascade(q, orphans, kept)
       PROVE  FileInv'
    BY <1>0, <1>12 DEF Cascade, Unlinking
<1>13. ASSUME NEW q \in Proc, DeletionFails(q) PROVE FileInv'
    BY <1>0, <1>13 DEF DeletionFails, db
<1>14. ASSUME NEW q \in Proc, NEW written \in SUBSET todo[q], NEW torn \in SUBSET todo[q],
              Crash(q, written, torn)
       PROVE  FileInv'
    <2>1. \A a \in Sha : file[a] = "full" => file'[a] = "full"
        BY <1>0, <1>14 DEF Crash
    <2>2. \A r \in Proc : pc'[r] = IF r = q THEN "idle" ELSE pc[r]
        BY <1>0, <1>14 DEF Crash
    <2>3. \A r \in Proc \ {q} : payload'[r] = payload[r]
        BY <1>0, <1>14 DEF Crash
    <2>4. \A r \in Proc : lock' = r <=> pc'[r] \in Writing
        BY <1>0, <1>14, <2>2 DEF Crash
    <2> QED
        BY <1>0, <1>14, <2>1, <2>2, <2>3, <2>4 DEF Crash, db, world
<1> QED
    BY <1>1, <1>2, <1>3, <1>3a, <1>4, <1>5, <1>6, <1>6a, <1>7, <1>8, <1>9, <1>10, <1>11,
       <1>12, <1>13, <1>14 DEF Next, Step, PurgeTurns, DeleteProject

\* RowsHaveFiles for any number of processes, sources and contents: an
\* evidence_blobs row never names a missing or torn file, because files are
\* completed and removed only by whoever holds the write lock, and a queued
\* unlink looks for the row again.
THEOREM RowsAlwaysHaveFiles == Spec => []RowsHaveFiles
<1>1. FileInv => RowsHaveFiles
    BY DEF FileInv
<1> QED
    BY TypeInit, TypeStep, FileInit, FileStep, <1>1, PTL DEF Spec

----------------------------------------------------------------------------
(* Owners and rows.                                                        *)

\* The steps that write to the database.
LEMMA DatabaseSteps ==
    ASSUME [Next]_vars
    PROVE  \/ UNCHANGED db
           \/ \E q \in Proc : \/ UpdateSourceSyncMetadata(q)
                              \/ MergeSourcePayload(q) \/ ReplaceSourcePayload(q)
                              \/ PruneEvidenceBlobs(q) \/ PurgeTurns(q) \/ DeleteProject(q)
<1>1. CASE UNCHANGED vars
    BY <1>1 DEF vars
<1>2. ASSUME NEW p \in Path, NEW c \in Content \cup {Missing}, EditSourceFile(p, c)
      PROVE  UNCHANGED db
    BY <1>2 DEF EditSourceFile
<1>3. ASSUME NEW q \in Proc, Step(q), ~UpdateSourceSyncMetadata(q), ~MergeSourcePayload(q),
             ~ReplaceSourcePayload(q), ~PruneEvidenceBlobs(q), ~PurgeTurns(q), ~DeleteProject(q)
      PROVE  UNCHANGED db
    BY <1>3 DEF Step, ProbeSource, CheckStored, BeginSourceWrite, Materialize,
                IntegrityMismatch, UnlinkEvidenceBlobFiles, SelectTurns, DeletionFails, Crash
<1> QED
    BY <1>1, <1>2, <1>3 DEF Next

LEMMA OwnersInit == Init => OwnersHaveRows
BY DEF Init, OwnersHaveRows, Owned

LEMMA OwnersStep == TypeInv /\ OwnersHaveRows /\ [Next]_vars => OwnersHaveRows'
<1> SUFFICES ASSUME TypeInv, OwnersHaveRows, [Next]_vars PROVE OwnersHaveRows'
    OBVIOUS
<1> USE DEF OwnersHaveRows
<1>1. CASE UNCHANGED db
    BY <1>1 DEF db
<1>1a. ASSUME NEW q \in Proc, UpdateSourceSyncMetadata(q) PROVE OwnersHaveRows'
    BY <1>1a DEF UpdateSourceSyncMetadata
<1>2. ASSUME NEW q \in Proc, MergeSourcePayload(q) PROVE OwnersHaveRows'
    <2> DEFINE written == rows \cup ShasIn(payload[q])
    <2>1. EvidenceIn(payload[q], {"parsed"}) \subseteq EvidenceIn(payload[q], WithBlob)
        BY ParsedHasEvidence
    <2>2. Owned(EvidenceIn(payload[q], WithBlob), {}, TurnsOf(payload[q])) \subseteq written
        BY DEF ShasIn, Owned
    <2>3. Owned(captures', spans', turns') \subseteq written
        BY <1>2, <2>1, <2>2 DEF MergeSourcePayload, Owned
    <2>4. rows' = written \/ rows' = written \ (written \ LiveShas')
        BY <1>2 DEF MergeSourcePayload, Leftover
    <2> HIDE DEF written
    <2> QED
        BY <2>3, <2>4 DEF LiveShas, Live
<1>3. ASSUME NEW q \in Proc, ReplaceSourcePayload(q) PROVE OwnersHaveRows'
    <2> DEFINE pl == payload[q]
               retired == Retired(pl)
               keptTurns == {t \in turns : ~(t.src \in retired \cup {pl.src})}
               keptCaptures == {e \in captures : e.src \notin retired}
               keptSpans == {e \in spans : e.src \notin retired}
               retiredLedger == [i \in LedgerId |->
                   IF i[1] \in retired /\ ledger[i] # NoLedger
                   THEN [ledger[i] EXCEPT !.axis = "source_absent"] ELSE ledger[i]]
               pruned == IF retired = {} THEN {}
                         ELSE rows \ Live(keptCaptures, keptSpans, keptTurns, retiredLedger)
               written == (rows \ pruned) \cup ShasIn(pl)
    <2>1. /\ captures' = keptCaptures \cup EvidenceIn(pl, WithBlob)
          /\ spans' \subseteq keptSpans \cup EvidenceIn(pl, {"parsed"})
          /\ turns' = keptTurns \cup TurnsOf(pl)
        BY <1>3 DEF ReplaceSourcePayload
    <2>2. rows' = written \/ rows' = written \ (written \ LiveShas')
        BY <1>3 DEF ReplaceSourcePayload, Leftover
    <2>3. Owned(keptCaptures, keptSpans, keptTurns) \subseteq rows \ pruned
        <3>1. Owned(keptCaptures, keptSpans, keptTurns) \subseteq rows
            BY DEF Owned
        <3> HIDE DEF keptCaptures, keptSpans, keptTurns
        <3> QED
            BY <3>1 DEF Live
    <2>4. Owned(EvidenceIn(pl, WithBlob), EvidenceIn(pl, {"parsed"}), TurnsOf(pl))
              \subseteq ShasIn(pl)
        BY ParsedHasEvidence DEF ShasIn, Owned
    <2> HIDE DEF keptCaptures, keptSpans, keptTurns, retired, pruned, pl
    <2>5. Owned(captures', spans', turns') \subseteq written
        BY <2>1, <2>3, <2>4 DEF Owned
    <2> HIDE DEF written
    <2> QED
        BY <2>2, <2>5 DEF LiveShas, Live
<1>4. ASSUME NEW q \in Proc, PruneEvidenceBlobs(q) PROVE OwnersHaveRows'
    BY <1>4 DEF PruneEvidenceBlobs, LiveShas, Live
<1>5. ASSUME NEW q \in Proc, NEW orphans, NEW doomed, Cascade(q, orphans, Without(doomed))
      PROVE  OwnersHaveRows'
    <2>1. /\ captures' = Spared(captures, orphans) /\ spans' = Spared(spans, orphans)
          /\ turns' \subseteq turns
          /\ \/ rows' = rows
             \/ rows' = rows \ (rows \ Live(captures', spans', turns', ledger))
        BY <1>5 DEF Cascade, Without
    <2>2. Owned(captures', spans', turns') \subseteq rows
        BY <2>1 DEF Owned, Spared
    <2> QED
        BY <2>1, <2>2 DEF Live
<1> QED
    BY <1>1, <1>1a, <1>2, <1>3, <1>4, <1>5, DatabaseSteps DEF PurgeTurns, DeleteProject

\* OwnersHaveRows for every instance: whatever is pruned, replaced, retired or
\* deleted, the addresses held by captures, spans and turns stay in evidence_blobs.
THEOREM OwnersAlwaysHaveRows == Spec => []OwnersHaveRows
BY TypeInit, TypeStep, OwnersInit, OwnersStep, PTL DEF Spec

----------------------------------------------------------------------------
(* Captures and turns.                                                     *)

\* CapturesAreRetained for every instance: the only steps that drop a capture
\* are an explicit deletion of turns and the retirement of a source identity.
THEOREM CapturesAlwaysRetained == Spec => CapturesAreRetained
<1> DEFINE Kept == \A e \in captures :
                      \/ e \in captures'
                      \/ e.src \in sources /\ e.src \notin sources'
                      \/ \E q \in Proc : PurgeTurns(q) \/ DeleteProject(q)
<1>1. ASSUME Next PROVE Kept
    <2>1. CASE \/ UNCHANGED db
               \/ \E q \in Proc : PruneEvidenceBlobs(q) \/ UpdateSourceSyncMetadata(q)
        BY <2>1 DEF db, PruneEvidenceBlobs, UpdateSourceSyncMetadata
    <2>2. ASSUME NEW q \in Proc, MergeSourcePayload(q) PROVE Kept
        BY <2>2 DEF MergeSourcePayload
    <2>3. ASSUME NEW q \in Proc, ReplaceSourcePayload(q) PROVE Kept
        BY <2>3 DEF ReplaceSourcePayload, Retired
    <2>4. ASSUME NEW q \in Proc, PurgeTurns(q) \/ DeleteProject(q) PROVE Kept
        BY <2>4
    <2> QED
        BY <1>1, <2>1, <2>2, <2>3, <2>4, DatabaseSteps
<1>2. [Next]_vars => [Kept]_vars
    BY <1>1
<1> QED
    BY <1>2, PTL DEF Spec, CapturesAreRetained

\* Where no process deletes projects, the source blob of every turn stays captured:
\* the cascade of a purge decides inside its transaction.  (performDeleteProject
\* decides before BEGIN, and there it fails.)
TurnsAreCaptured == \A t \in turns : EvidenceOf(BlobOf(t)) # {}
ChosenOps == \A q \in Proc : pc[q] = "selected" => choice[q].op \in Runs[q]
TurnInv == TurnsAreCaptured /\ ChosenOps

LEMMA TurnInit == Init => TurnInv
BY DEF Init, TurnInv, TurnsAreCaptured, ChosenOps

LEMMA ChosenStep == TypeInv /\ ChosenOps /\ [Next]_vars => ChosenOps'
<1> SUFFICES ASSUME TypeInv, ChosenOps, [Next]_vars,
                    NEW r \in Proc, pc'[r] = "selected"
             PROVE  choice'[r].op \in Runs[r]
    BY DEF ChosenOps
<1> USE DEF TypeInv, TypeOK, ChosenOps
<1>1. CASE UNCHANGED <<pc, choice>>
    BY <1>1
<1>2. ASSUME NEW q \in Proc, NEW s \in Source, NEW op \in {"sync", "upload"},
             NEW complete \in BOOLEAN, NEW outcome \in [Path -> Outcome],
             ProbeSource(q, s, op, outcome, complete)
      PROVE  choice'[r].op \in Runs[r]
    BY <1>2 DEF ProbeSource
<1>2a. ASSUME NEW q \in Proc, CheckStored(q) PROVE choice'[r].op \in Runs[r]
    BY <1>2a DEF CheckStored
<1>3. ASSUME NEW q \in Proc, NEW readable, BeginSourceWrite(q, readable)
      PROVE  choice'[r].op \in Runs[r]
    BY <1>3 DEF BeginSourceWrite
<1>4. ASSUME NEW q \in Proc, Materialize(q) PROVE choice'[r].op \in Runs[r]
    BY <1>4 DEF Materialize
<1>5. ASSUME NEW q \in Proc, NEW written \in SUBSET todo[q], IntegrityMismatch(q, written)
      PROVE  choice'[r].op \in Runs[r]
    BY <1>5 DEF IntegrityMismatch
<1>6. ASSUME NEW q \in Proc, \/ UpdateSourceSyncMetadata(q)
                             \/ MergeSourcePayload(q) \/ ReplaceSourcePayload(q)
      PROVE  choice'[r].op \in Runs[r]
    <2>1. /\ choice' = choice
          /\ pc'[r] = "selected" => pc[r] = "selected"
        BY <1>6 DEF UpdateSourceSyncMetadata, MergeSourcePayload, ReplaceSourcePayload,
                    AfterWrite, Unlinking
    <2> QED
        BY <2>1
<1>7. ASSUME NEW q \in Proc, NEW failed \in SUBSET unlinks[q],
             UnlinkEvidenceBlobFiles(q, failed)
      PROVE  choice'[r].op \in Runs[r]
    BY <1>7 DEF UnlinkEvidenceBlobFiles
<1>8. ASSUME NEW q \in Proc, PruneEvidenceBlobs(q) PROVE choice'[r].op \in Runs[r]
    BY <1>8 DEF PruneEvidenceBlobs
<1>9. ASSUME NEW q \in Proc, NEW op \in Deletion, NEW doomed \in SUBSET turns,
             SelectTurns(q, op, doomed)
      PROVE  choice'[r].op \in Runs[r]
    BY <1>9 DEF SelectTurns
<1>10. ASSUME NEW q \in Proc, PurgeTurns(q) \/ DeleteProject(q)
       PROVE  choice'[r].op \in Runs[r]
    BY <1>10 DEF PurgeTurns, DeleteProject, Cascade, Unlinking
<1>11. ASSUME NEW q \in Proc, DeletionFails(q) PROVE choice'[r].op \in Runs[r]
    BY <1>11 DEF DeletionFails
<1>12. ASSUME NEW q \in Proc, NEW written \in SUBSET todo[q], NEW torn \in SUBSET todo[q],
              Crash(q, written, torn)
       PROVE  choice'[r].op \in Runs[r]
    BY <1>12 DEF Crash
<1> QED
    <2>1. CASE UNCHANGED vars \/ \E p \in Path, c \in Content \cup {Missing} : EditSourceFile(p, c)
        BY <1>1, <2>1 DEF vars, procs, EditSourceFile
    <2> QED
        BY <2>1, <1>2, <1>2a, <1>3, <1>4, <1>5, <1>6, <1>7, <1>8, <1>9, <1>10, <1>11, <1>12
        DEF Next, Step

LEMMA TurnStep ==
    ASSUME \A q \in Proc : "delete_project" \notin Runs[q]
    PROVE  TypeInv /\ TurnInv /\ [Next]_vars => TurnInv'
<1> SUFFICES ASSUME TypeInv, TurnInv, [Next]_vars PROVE TurnsAreCaptured'
    BY ChosenStep DEF TurnInv
<1> USE DEF TurnsAreCaptured, EvidenceOf
<1>1. CASE \/ UNCHANGED db
           \/ \E q \in Proc : PruneEvidenceBlobs(q) \/ UpdateSourceSyncMetadata(q)
    BY <1>1 DEF db, TurnInv, PruneEvidenceBlobs, UpdateSourceSyncMetadata
<1>2. ASSUME NEW pl, NEW t \in TurnsOf(pl)
      PROVE  \E e \in EvidenceIn(pl, WithBlob) : BlobOf(e) = BlobOf(t)
    <2>1. PICK p \in With(pl, {"parsed"}) : \E n \in TurnsIn[pl.content[p]] :
             t = [src |-> pl.src, path |-> p, n |-> n, content |-> pl.content[p]]
        BY DEF TurnsOf
    <2>2. EvidenceAt(pl, p) \in EvidenceIn(pl, WithBlob)
        BY <2>1 DEF EvidenceIn, With, WithBlob
    <2> QED
        BY <2>1, <2>2 DEF EvidenceAt, BlobOf
<1>3. ASSUME NEW q \in Proc, MergeSourcePayload(q) PROVE TurnsAreCaptured'
    <2>1. /\ captures' = captures \cup EvidenceIn(payload[q], WithBlob)
          /\ turns' \subseteq turns \cup TurnsOf(payload[q])
        BY <1>3 DEF MergeSourcePayload
    <2> QED
        BY <1>2, <2>1 DEF TurnInv, EvidenceOf
<1>4. ASSUME NEW q \in Proc, ReplaceSourcePayload(q) PROVE TurnsAreCaptured'
    <2> DEFINE pl == payload[q]
    <2>1. /\ captures' = {e \in captures : e.src \notin Retired(pl)}
                           \cup EvidenceIn(pl, WithBlob)
          /\ turns' = {t \in turns : ~(t.src \in Retired(pl) \cup {pl.src})} \cup TurnsOf(pl)
        BY <1>4 DEF ReplaceSourcePayload
    <2>2. \A x, y : BlobOf(x) = BlobOf(y) => x.src = y.src
        BY DEF BlobOf
    <2> HIDE DEF pl
    <2> QED
        BY <1>2, <2>1, <2>2 DEF TurnInv, EvidenceOf
<1>5. ASSUME NEW q \in Proc, PurgeTurns(q) PROVE TurnsAreCaptured'
    <2> DEFINE doomed == choice[q].doomed
               kept == Without(doomed)
               orphans == {BlobOf(t) : t \in doomed} \ {BlobOf(t) : t \in kept}
    <2>1. turns' = kept /\ captures' = Spared(captures, orphans)
        BY <1>5 DEF PurgeTurns, Cascade
    <2>2. kept \subseteq turns /\ \A t \in kept : BlobOf(t) \notin orphans
        BY DEF Without
    <2> HIDE DEF kept, orphans
    <2> QED
        BY <2>1, <2>2 DEF TurnInv, EvidenceOf, Spared
<1>6. ASSUME NEW q \in Proc, DeleteProject(q) PROVE FALSE
    BY <1>6 DEF DeleteProject, TurnInv, ChosenOps
<1> QED
    BY <1>1, <1>3, <1>4, <1>5, <1>6, DatabaseSteps

\* TurnsKeepTheirEvidence without project deletions, for every instance.
THEOREM PurgesKeepEvidence ==
    ASSUME \A q \in Proc : "delete_project" \notin Runs[q]
    PROVE  Spec => []TurnsKeepTheirEvidence
<1>1. TypeInv /\ FileInv /\ OwnersHaveRows /\ TurnInv => TurnsKeepTheirEvidence
    BY DEF FileInv, RowsHaveFiles, OwnersHaveRows, Owned, TurnInv, TurnsAreCaptured,
           TurnsKeepTheirEvidence, EvidenceOf, TypeInv, TypeOK
<1> QED
    BY TypeInit, TypeStep, FileInit, FileStep, OwnersInit, OwnersStep, TurnInit, TurnStep,
       <1>1, PTL DEF Spec

----------------------------------------------------------------------------
(* Files that are reused.                                                  *)

\* Every captured_blobs row has a capture.  A later sync skips a file, unread, when
\* its content is in captured_blobs.
CapturedHaveCaptures == \A b \in captured : EvidenceOf(b) # {}

LEMMA BlobsHaveEvidence ==
    ASSUME NEW pl, NEW O \in SUBSET WithBlob, NEW b \in BlobsIn(pl, O)
    PROVE  \E e \in EvidenceIn(pl, WithBlob) : BlobOf(e) = b
<1>1. PICK p \in With(pl, O) : b = [src |-> pl.src, path |-> p, content |-> pl.content[p]]
    BY DEF BlobsIn
<1>2. EvidenceAt(pl, p) \in EvidenceIn(pl, WithBlob)
    BY DEF EvidenceIn, With
<1> QED
    BY <1>1, <1>2 DEF EvidenceAt, BlobOf

LEMMA CapturedStep == CapturedHaveCaptures /\ [Next]_vars => CapturedHaveCaptures'
<1> SUFFICES ASSUME CapturedHaveCaptures, [Next]_vars PROVE CapturedHaveCaptures'
    OBVIOUS
<1> USE DEF CapturedHaveCaptures, EvidenceOf
<1>1. CASE UNCHANGED db
    BY <1>1 DEF db
<1>2. ASSUME NEW q \in Proc, UpdateSourceSyncMetadata(q) \/ PruneEvidenceBlobs(q)
      PROVE  CapturedHaveCaptures'
    BY <1>2 DEF UpdateSourceSyncMetadata, PruneEvidenceBlobs
<1>3. ASSUME NEW q \in Proc, MergeSourcePayload(q) PROVE CapturedHaveCaptures'
    <2> DEFINE pl == payload[q]
    <2>1. /\ captured' \subseteq captured \cup BlobsIn(pl, {"parsed", "parse_error"})
          /\ captures' = captures \cup EvidenceIn(pl, WithBlob)
        BY <1>3 DEF MergeSourcePayload
    <2>2. {"parsed", "parse_error"} \in SUBSET WithBlob
        BY DEF WithBlob
    <2> HIDE DEF pl
    <2> QED
        BY <2>1, <2>2, BlobsHaveEvidence DEF EvidenceOf
<1>4. ASSUME NEW q \in Proc, ReplaceSourcePayload(q) PROVE CapturedHaveCaptures'
    <2> DEFINE pl == payload[q]
    <2>1. /\ captured' = {b \in captured : ~(b.src \in Retired(pl) \cup {pl.src})}
                           \cup BlobsIn(pl, WithBlob)
          /\ captures' = {e \in captures : e.src \notin Retired(pl)}
                           \cup EvidenceIn(pl, WithBlob)
        BY <1>4 DEF ReplaceSourcePayload
    <2>2. \A e : BlobOf(e).src = e.src
        BY DEF BlobOf
    <2> HIDE DEF pl
    <2> QED
        BY <2>1, <2>2, BlobsHaveEvidence DEF EvidenceOf
<1>5. ASSUME NEW q \in Proc, NEW orphans, NEW kept, Cascade(q, orphans, kept)
      PROVE  CapturedHaveCaptures'
    BY <1>5 DEF Cascade, Spared, EvidenceOf
<1> QED
    BY <1>1, <1>2, <1>3, <1>4, <1>5, DatabaseSteps DEF PurgeTurns, DeleteProject

\* The blob of every captured_blobs row is captured, and all that was captured of
\* it (its bytes or a snapshot of its records) has its row and its complete file.
CapturedKeepTheirEvidence ==
    \A b \in captured :
        /\ EvidenceOf(b) # {}
        /\ \A e \in EvidenceOf(b) : EvidenceSha(e) \in rows /\ file[EvidenceSha(e)] = "full"

\* CapturedKeepTheirEvidence for every instance: what a sync may reuse without
\* reading it, a captured_blobs row, which is written and deleted beside the
\* tables of the evidence store, never loses the evidence behind it.
THEOREM ReusedFilesHaveEvidence == Spec => []CapturedKeepTheirEvidence
<1>1. Init => CapturedHaveCaptures
    BY DEF Init, CapturedHaveCaptures
<1>2. FileInv /\ OwnersHaveRows /\ CapturedHaveCaptures => CapturedKeepTheirEvidence
    BY DEF FileInv, RowsHaveFiles, OwnersHaveRows, Owned, CapturedHaveCaptures,
           CapturedKeepTheirEvidence, EvidenceOf
<1> QED
    BY TypeInit, TypeStep, FileInit, FileStep, OwnersInit, OwnersStep, CapturedStep,
       <1>1, <1>2, PTL DEF Spec

----------------------------------------------------------------------------
(* Files that are there.                                                   *)

CurrentStays ==
    \A a \in rows : a \in CurrentLedger(ledger) \cap CurrentLedger(ledger') => a \in rows'

\* What a replacement prunes beside the payload it brings: a retired ledger row is
\* current neither before the prune nor after the write.
LEMMA RetiringKeepsCurrent ==
    ASSUME NEW q \in Proc, ReplaceSourcePayload(q), TypeInv,
           NEW a \in rows, a \in CurrentLedger(ledger')
    PROVE  a \in rows'
<1> DEFINE pl == payload[q]
           retired == Retired(pl)
           keptTurns == {t \in turns : ~(t.src \in retired \cup {pl.src})}
           keptCaptures == {e \in captures : e.src \notin retired}
           keptSpans == {e \in spans : e.src \notin retired}
           retiredLedger == [i \in LedgerId |->
               IF i[1] \in retired /\ ledger[i] # NoLedger
               THEN [ledger[i] EXCEPT !.axis = "source_absent"] ELSE ledger[i]]
           before == [i \in LedgerId |->
               IF i[1] = pl.src /\ ledger[i] # NoLedger /\ i[2] \notin With(pl, WithBlob)
               THEN [ledger[i] EXCEPT !.axis = "source_absent"] ELSE retiredLedger[i]]
           pruned == IF retired = {} THEN {}
                     ELSE rows \ Live(keptCaptures, keptSpans, keptTurns, retiredLedger)
           written == (rows \ pruned) \cup ShasIn(pl)
<1>1. ledger' = LedgerAfter(pl, before)
    BY DEF ReplaceSourcePayload
<1>2. rows' = written \/ rows' = written \ (written \ LiveShas')
    BY DEF ReplaceSourcePayload, Leftover
<1>3. PICK i \in LedgerId : ledger'[i].axis = "current" /\ a = ledger'[i].sha
    BY DEF CurrentLedger
<1>4. a \in written
    <2>1. CASE /\ i[1] = pl.src
               /\ \/ i[2] \in With(pl, {"parsed"})
                  \/ i[2] \in With(pl, WithBlob) /\ before[i] = NoLedger
        <3>1. ledger'[i] = [sha |-> EvidenceSha(EvidenceAt(pl, i[2])), axis |-> "current"]
            BY <1>1, <2>1 DEF LedgerAfter
        <3>2. EvidenceAt(pl, i[2]) \in EvidenceIn(pl, WithBlob)
            BY <2>1 DEF EvidenceIn, With, WithBlob
        <3> QED
            BY <1>3, <3>1, <3>2 DEF ShasIn
    <2>2. CASE ~(/\ i[1] = pl.src
                 /\ \/ i[2] \in With(pl, {"parsed"})
                    \/ i[2] \in With(pl, WithBlob) /\ before[i] = NoLedger)
        <3>1. ledger'[i] = before[i]
            BY <1>1, <2>2 DEF LedgerAfter
        <3>2. /\ ledger[i] \in Ledger \cup {NoLedger}
              /\ NoLedger.axis # "current"
            BY DEF TypeInv, TypeOK, NoLedger
        <3>3. before[i] = retiredLedger[i]
            BY <1>3, <3>1, <3>2 DEF Ledger
        <3>4. a \in CurrentLedger(retiredLedger)
            BY <1>3, <3>1, <3>3 DEF CurrentLedger
        <3> HIDE DEF retiredLedger, keptCaptures, keptSpans, keptTurns, retired, pl
        <3>5. a \notin pruned
            BY <3>4 DEF Live
        <3> QED
            BY <3>5
    <2> QED
        BY <2>1, <2>2
<1> HIDE DEF written
<1> QED
    BY <1>2, <1>4 DEF LiveShas, Live

\* CurrentEvidenceStays for every instance: no prune, replacement, retirement or
\* deletion takes the evidence of a file that the ledger goes on calling current.
THEOREM CurrentEvidenceAlwaysStays == Spec => CurrentEvidenceStays
<1>1. ASSUME TypeInv, Next PROVE CurrentStays
    <2>1. CASE UNCHANGED db
        BY <2>1 DEF db, CurrentStays
    <2>2. ASSUME NEW q \in Proc, UpdateSourceSyncMetadata(q) PROVE CurrentStays
        BY <2>2 DEF UpdateSourceSyncMetadata, CurrentStays
    <2>3. ASSUME NEW q \in Proc, MergeSourcePayload(q) PROVE CurrentStays
        <3> DEFINE written == rows \cup ShasIn(payload[q])
        <3>1. rows' = written \/ rows' = written \ (written \ LiveShas')
            BY <2>3 DEF MergeSourcePayload, Leftover
        <3>2. rows \subseteq written
            OBVIOUS
        <3> HIDE DEF written
        <3> QED
            BY <3>1, <3>2 DEF CurrentStays, LiveShas, Live
    <2>4. ASSUME NEW q \in Proc, ReplaceSourcePayload(q) PROVE CurrentStays
        BY <1>1, <2>4, RetiringKeepsCurrent DEF CurrentStays
    <2>5. ASSUME NEW q \in Proc, PruneEvidenceBlobs(q) PROVE CurrentStays
        BY <2>5 DEF PruneEvidenceBlobs, CurrentStays, LiveShas, Live
    <2>6. ASSUME NEW q \in Proc, NEW orphans, NEW kept, Cascade(q, orphans, kept)
          PROVE  CurrentStays
        BY <2>6 DEF Cascade, CurrentStays, Live
    <2> QED
        BY <1>1, <2>1, <2>2, <2>3, <2>4, <2>5, <2>6, DatabaseSteps DEF PurgeTurns, DeleteProject
<1>2. TypeInv /\ [Next]_vars => [CurrentStays]_vars
    BY <1>1
<1> QED
    BY TypeInit, TypeStep, <1>2, PTL DEF Spec, CurrentEvidenceStays, CurrentStays

----------------------------------------------------------------------------
(* The deferred prune.                                                     *)

\* A sync between its probe and its final prune.
Owes(q) ==
    \/ pc[q] \in {"synced", "unlinking_sync"}
    \/ pc[q] \in {"decided"} \cup Writing /\ payload[q].op = "sync"

NothingTorn == \A a \in Sha : file[a] # "torn"

\* Before the first crash no file is torn, and a row that nothing refers to has
\* a sync at work that is still going to prune.
LeftoversAreOwed == rows \subseteq LiveShas \/ \E q \in Proc : Owes(q)
OweInv == crashes = 0 => NothingTorn /\ LeftoversAreOwed

NoDeletion == \A q \in Proc : Runs[q] \cap Deletion = {}

LEMMA NobodySelects ==
    ASSUME NoDeletion, TypeInv, ChosenOps, NEW q \in Proc
    PROVE  pc[q] # "selected"
BY DEF NoDeletion, ChosenOps, TypeInv, WorkIsCarried, Choice

\* A step that leaves the tables alone and takes no debt from a sync.
LEMMA StillOwed ==
    ASSUME LeftoversAreOwed, UNCHANGED db, \A r \in Proc : Owes(r) => Owes(r)'
    PROVE  LeftoversAreOwed'
<1>1. rows' = rows /\ LiveShas' = LiveShas
    BY DEF db, LiveShas
<1> QED
    BY <1>1 DEF LeftoversAreOwed

LEMMA TornStep ==
    ASSUME TypeInv, NothingTorn, [Next]_vars,
           \A q \in Proc : \A written, torn : ~Crash(q, written, torn)
    PROVE  NothingTorn'
<1> USE DEF NothingTorn, TypeInv, TypeOK
<1>1. CASE file' = file
    BY <1>1
<1>2. ASSUME NEW q \in Proc, Materialize(q) PROVE NothingTorn'
    BY <1>2 DEF Materialize
<1>3. ASSUME NEW q \in Proc, NEW failed, UnlinkEvidenceBlobFiles(q, failed)
      PROVE  NothingTorn'
    BY <1>3 DEF UnlinkEvidenceBlobFiles
<1>4. ASSUME NEW q \in Proc, NEW written, IntegrityMismatch(q, written) PROVE FALSE
    <2>1. todo[q] \subseteq Sha
        OBVIOUS
    <2> QED
        BY <1>4, <2>1 DEF IntegrityMismatch
<1>5. CASE UNCHANGED vars \/ \E p \in Path, c \in Content \cup {Missing} : EditSourceFile(p, c)
    BY <1>5, <1>1 DEF vars, EditSourceFile
<1>6. ASSUME NEW q \in Proc, Step(q), file' # file
      PROVE  \/ Materialize(q)
             \/ \E written : IntegrityMismatch(q, written)
             \/ \E failed : UnlinkEvidenceBlobFiles(q, failed)
    BY <1>6 DEF Step, ProbeSource, CheckStored, BeginSourceWrite, UpdateSourceSyncMetadata,
                MergeSourcePayload, ReplaceSourcePayload, AfterWrite, PruneEvidenceBlobs,
                SelectTurns, PurgeTurns, DeleteProject, Cascade, DeletionFails
<1> QED
    BY <1>1, <1>2, <1>3, <1>4, <1>5, <1>6 DEF Next

LEMMA OweInit == Init => OweInv
BY DEF Init, OweInv, NothingTorn, LeftoversAreOwed

LEMMA OweStep ==
    ASSUME NoDeletion
    PROVE  TypeInv /\ ChosenOps /\ OweInv /\ [Next]_vars => OweInv'
<1> SUFFICES ASSUME TypeInv, ChosenOps, OweInv, [Next]_vars, crashes' = 0
             PROVE  NothingTorn' /\ LeftoversAreOwed'
    BY DEF OweInv
<1>0. /\ \A q \in Proc : \A written, torn : ~Crash(q, written, torn)
      /\ crashes \in Nat
    BY DEF Crash, TypeInv, TypeOK
<1>1. crashes = 0
    <2>1. ASSUME NEW q \in Proc, Step(q) PROVE crashes' = crashes
        BY <1>0, <2>1
        DEF Step, ProbeSource, CheckStored, BeginSourceWrite, Materialize, IntegrityMismatch,
            UpdateSourceSyncMetadata, MergeSourcePayload, ReplaceSourcePayload, AfterWrite,
            UnlinkEvidenceBlobFiles, PruneEvidenceBlobs, SelectTurns, PurgeTurns, DeleteProject,
            Cascade, DeletionFails
    <2> QED
        BY <2>1 DEF Next, EditSourceFile, vars
<1>2. NothingTorn /\ LeftoversAreOwed
    BY <1>1 DEF OweInv
<1>3. NothingTorn'
    BY <1>0, <1>2, TornStep
<1> HIDE DEF NoDeletion
<1>4. ASSUME NEW q \in Proc, pc[q] = "selected" PROVE FALSE
    BY <1>4, NobodySelects
<1>5. DOMAIN pc = Proc /\ DOMAIN payload = Proc
    BY DEF TypeInv, TypeOK
<1>6. ASSUME UNCHANGED vars PROVE LeftoversAreOwed'
    BY <1>2, <1>6, StillOwed DEF vars, procs, Owes
<1>7. ASSUME NEW p \in Path, NEW c \in Content \cup {Missing}, EditSourceFile(p, c)
      PROVE  LeftoversAreOwed'
    BY <1>2, <1>7, StillOwed DEF EditSourceFile, procs, Owes
<1>8. ASSUME NEW q \in Proc, NEW s \in Source, NEW op \in {"sync", "upload"},
             NEW complete \in BOOLEAN, NEW outcome \in [Path -> Outcome],
             ProbeSource(q, s, op, outcome, complete)
      PROVE  LeftoversAreOwed'
    <2>1. \A r \in Proc : Owes(r) => Owes(r)'
        BY <1>5, <1>8 DEF ProbeSource, Owes, Writing
    <2> QED
        BY <1>2, <1>8, <2>1, StillOwed DEF ProbeSource
<1>9. ASSUME NEW q \in Proc, CheckStored(q) PROVE LeftoversAreOwed'
    <2>1. \A r \in Proc : Owes(r) => Owes(r)'
        BY <1>5, <1>9 DEF CheckStored, Owes, Writing
    <2> QED
        BY <1>2, <1>9, <2>1, StillOwed DEF CheckStored
<1>10. ASSUME NEW q \in Proc, NEW readable \in SUBSET Path, BeginSourceWrite(q, readable)
       PROVE  LeftoversAreOwed'
    <2>1. Materialized(payload[q], readable).op = payload[q].op
        BY <1>10 DEF BeginSourceWrite, Materialized, TypeInv, WorkIsCarried, Payload
    <2>2. \A r \in Proc : Owes(r) => Owes(r)'
        BY <1>5, <1>10, <2>1 DEF BeginSourceWrite, Owes, Writing
    <2> QED
        BY <1>2, <1>10, <2>2, StillOwed DEF BeginSourceWrite
<1>10a. ASSUME NEW q \in Proc, Materialize(q) PROVE LeftoversAreOwed'
    <2>1. \A r \in Proc : Owes(r) => Owes(r)'
        BY <1>5, <1>10a DEF Materialize, Owes, Writing
    <2> QED
        BY <1>2, <1>10a, <2>1, StillOwed DEF Materialize
<1>11. ASSUME NEW q \in Proc, NEW written, IntegrityMismatch(q, written) PROVE FALSE
    <2>1. todo[q] \subseteq Sha
        BY DEF TypeInv, TypeOK
    <2> QED
        BY <1>2, <1>11, <2>1 DEF IntegrityMismatch, NothingTorn
<1>12. ASSUME NEW q \in Proc, NEW dropped, AfterWrite(q, payload[q], dropped),
              payload[q].op = "sync"
       PROVE  LeftoversAreOwed'
    <2>1. pc'[q] \in {"synced", "unlinking_sync"}
        BY <1>5, <1>12 DEF AfterWrite, Unlinking
    <2> QED
        BY <2>1 DEF Owes, LeftoversAreOwed
<1>13. ASSUME NEW q \in Proc, UpdateSourceSyncMetadata(q) PROVE LeftoversAreOwed'
    BY <1>12, <1>13 DEF UpdateSourceSyncMetadata, MetadataOnly
<1>14. ASSUME NEW q \in Proc, NEW written,
              rows' = written \ Leftover(payload[q], written), payload[q].op = "upload"
       PROVE  LeftoversAreOwed'
    <2>1. rows' \subseteq LiveShas'
        BY <1>14 DEF Leftover
    <2> QED
        BY <2>1 DEF LeftoversAreOwed
<1>15. ASSUME NEW q \in Proc, MergeSourcePayload(q) \/ ReplaceSourcePayload(q)
       PROVE  LeftoversAreOwed'
    <2>1. payload[q].op \in {"sync", "upload"}
        BY <1>15 DEF MergeSourcePayload, ReplaceSourcePayload, TypeInv, WorkIsCarried, Writing,
                     Payload
    <2>2. CASE MergeSourcePayload(q)
        BY <2>1, <2>2, <1>12, <1>14 DEF MergeSourcePayload
    <2>3. CASE ReplaceSourcePayload(q)
        BY <2>1, <2>3, <1>12, <1>14 DEF ReplaceSourcePayload
    <2> QED
        BY <1>15, <2>2, <2>3
<1>16. ASSUME NEW q \in Proc, NEW failed, UnlinkEvidenceBlobFiles(q, failed)
       PROVE  LeftoversAreOwed'
    <2>1. \A r \in Proc : Owes(r) => Owes(r)'
        BY <1>5, <1>16 DEF UnlinkEvidenceBlobFiles, Owes, Writing
    <2> QED
        BY <1>2, <1>16, <2>1, StillOwed DEF UnlinkEvidenceBlobFiles
<1>17. ASSUME NEW q \in Proc, PruneEvidenceBlobs(q) PROVE LeftoversAreOwed'
    <2>1. LiveShas' = LiveShas /\ rows' = rows \cap LiveShas
        BY <1>17 DEF PruneEvidenceBlobs, LiveShas
    <2> QED
        BY <2>1 DEF LeftoversAreOwed
<1>18. ASSUME NEW q \in Proc, NEW op, NEW doomed, SelectTurns(q, op, doomed) PROVE FALSE
    BY <1>18 DEF SelectTurns, NoDeletion
<1>19. ASSUME NEW q \in Proc, PurgeTurns(q) \/ DeleteProject(q) \/ DeletionFails(q)
       PROVE  FALSE
    BY <1>4, <1>19 DEF PurgeTurns, DeleteProject, DeletionFails
<1>20. LeftoversAreOwed'
    BY <1>0, <1>6, <1>7, <1>8, <1>9, <1>10, <1>10a, <1>11, <1>13, <1>15, <1>16, <1>17, <1>18, <1>19
    DEF Next, Step
<1> QED
    BY <1>3, <1>20

\* DeferredPruneIsPaid for every instance whose processes delete nothing: any
\* number of syncs and uploads that overlap, under any host names.  A purge that
\* frees no blob prunes nothing (storage.ts 1470), hence the hypothesis.
THEOREM DeferredPruneAlwaysPaid ==
    ASSUME NoDeletion
    PROVE  Spec => []DeferredPruneIsPaid
<1>1. OweInv => DeferredPruneIsPaid
    BY DEF OweInv, DeferredPruneIsPaid, LeftoversAreOwed, Owes, Writing
<1>2. Init => ChosenOps
    BY DEF Init, ChosenOps
<1> QED
    BY TypeInit, TypeStep, <1>2, ChosenStep, OweInit, OweStep, <1>1, PTL DEF Spec

----------------------------------------------------------------------------
(* The ledger where nothing is deleted and no host is renamed.             *)

OneIdentity == \A r, s \in Source : SlotOf[r] = SlotOf[s] => r = s

\* What was captured of path i[2] of source i[1], under address a.
CapturedAs(i, a, cs) == \E e \in cs : e.src = i[1] /\ e.path = i[2] /\ EvidenceSha(e) = a

\* Every ledger row, current or absent, names a capture.
LedgersAreCaptured ==
    \A i \in LedgerId : ledger[i] # NoLedger => CapturedAs(i, ledger[i].sha, captures)

LEMMA NothingRetired ==
    ASSUME OneIdentity, NEW pl \in Payload
    PROVE  Retired(pl) = {}
BY DEF OneIdentity, Retired, Peers, Payload

\* The ledger after a write names what was captured before or what it captures.
LEMMA LedgerWrites ==
    ASSUME NEW pl, NEW l, NEW i \in LedgerId
    PROVE  \/ LedgerAfter(pl, l)[i] = l[i]
           \/ CapturedAs(i, LedgerAfter(pl, l)[i].sha, EvidenceIn(pl, WithBlob))
<1>1. CASE /\ i[1] = pl.src
           /\ \/ i[2] \in With(pl, {"parsed"})
              \/ i[2] \in With(pl, WithBlob) /\ l[i] = NoLedger
    <2>1. EvidenceAt(pl, i[2]) \in EvidenceIn(pl, WithBlob)
        BY <1>1 DEF EvidenceIn, With, WithBlob
    <2>2. LedgerAfter(pl, l)[i] = [sha |-> EvidenceSha(EvidenceAt(pl, i[2])), axis |-> "current"]
        BY <1>1 DEF LedgerAfter
    <2>3. EvidenceAt(pl, i[2]).src = i[1] /\ EvidenceAt(pl, i[2]).path = i[2]
        BY <1>1 DEF EvidenceAt
    <2> QED
        BY <2>1, <2>2, <2>3 DEF CapturedAs
<1> QED
    BY <1>1 DEF LedgerAfter

\* Marking a file present or absent leaves the evidence its row names.
LEMMA ReconcileKeepsSha ==
    ASSUME ledger \in [LedgerId -> Ledger \cup {NoLedger}], NEW pl, NEW i \in LedgerId
    PROVE  LedgerBefore(pl)[i] # NoLedger =>
               ledger[i] # NoLedger /\ LedgerBefore(pl)[i].sha = ledger[i].sha
BY DEF LedgerBefore, Reconciled, Ledger

LEMMA LedgerStep ==
    ASSUME NoDeletion, OneIdentity
    PROVE  TypeInv /\ ChosenOps /\ LedgersAreCaptured /\ [Next]_vars => LedgersAreCaptured'
<1> SUFFICES ASSUME TypeInv, ChosenOps, LedgersAreCaptured, [Next]_vars,
                    NEW i \in LedgerId, ledger'[i] # NoLedger
             PROVE  CapturedAs(i, ledger'[i].sha, captures')
    BY DEF LedgersAreCaptured
<1> DEFINE Goal == CapturedAs(i, ledger'[i].sha, captures')
<1>0. /\ ledger \in [LedgerId -> Ledger \cup {NoLedger}]
      /\ ledger[i] # NoLedger => CapturedAs(i, ledger[i].sha, captures)
      /\ \A a : CapturedAs(i, a, captures) /\ captures \subseteq captures' =>
                   CapturedAs(i, a, captures')
    BY DEF TypeInv, TypeOK, LedgersAreCaptured, CapturedAs
<1>1. ASSUME UNCHANGED <<ledger, captures>> PROVE Goal
    BY <1>0, <1>1
<1>2. ASSUME NEW q \in Proc, UpdateSourceSyncMetadata(q) PROVE Goal
    BY <1>0, <1>2, ReconcileKeepsSha DEF UpdateSourceSyncMetadata
<1>3. ASSUME NEW q \in Proc, MergeSourcePayload(q) PROVE Goal
    <2> DEFINE pl == payload[q]
    <2>1. /\ ledger' = LedgerAfter(pl, LedgerBefore(pl))
          /\ captures' = captures \cup EvidenceIn(pl, WithBlob)
        BY <1>3 DEF MergeSourcePayload
    <2> HIDE DEF pl
    <2>2. \/ ledger'[i] = LedgerBefore(pl)[i]
          \/ Goal
        BY <2>1, LedgerWrites DEF CapturedAs
    <2> QED
        BY <1>0, <2>1, <2>2, ReconcileKeepsSha
<1>4. ASSUME NEW q \in Proc, ReplaceSourcePayload(q) PROVE Goal
    <2> DEFINE pl == payload[q]
               retiredLedger == [j \in LedgerId |->
                   IF j[1] \in Retired(pl) /\ ledger[j] # NoLedger
                   THEN [ledger[j] EXCEPT !.axis = "source_absent"] ELSE ledger[j]]
               before == [j \in LedgerId |->
                   IF j[1] = pl.src /\ ledger[j] # NoLedger /\ j[2] \notin With(pl, WithBlob)
                   THEN [ledger[j] EXCEPT !.axis = "source_absent"] ELSE retiredLedger[j]]
    <2>1. pl \in Payload
        BY <1>4 DEF ReplaceSourcePayload, TypeInv, WorkIsCarried, Writing
    <2>2. Retired(pl) = {}
        BY <2>1, NothingRetired
    <2>3. /\ ledger' = LedgerAfter(pl, before)
          /\ captures' = {e \in captures : e.src \notin Retired(pl)} \cup EvidenceIn(pl, WithBlob)
        BY <1>4 DEF ReplaceSourcePayload
    <2>4. before[i] # NoLedger =>
              ledger[i] # NoLedger /\ before[i].sha = ledger[i].sha
        BY <1>0, <2>2 DEF Ledger
    <2> HIDE DEF pl, before
    <2>5. \/ ledger'[i] = before[i]
          \/ Goal
        BY <2>3, LedgerWrites DEF CapturedAs
    <2> QED
        BY <1>0, <2>2, <2>3, <2>4, <2>5
<1>5. ASSUME NEW q \in Proc, PruneEvidenceBlobs(q) PROVE Goal
    BY <1>1, <1>5 DEF PruneEvidenceBlobs
<1>6. ASSUME NEW q \in Proc, PurgeTurns(q) \/ DeleteProject(q) PROVE FALSE
    BY <1>6, NobodySelects DEF PurgeTurns, DeleteProject
<1>7. CASE UNCHANGED db
    BY <1>1, <1>7 DEF db
<1> QED
    BY <1>2, <1>3, <1>4, <1>5, <1>6, <1>7, DatabaseSteps

\* What the ledger calls current is in evidence_blobs, and its file is complete.
CurrentFilesAreStored ==
    \A a \in CurrentLedger(ledger) : a \in rows /\ file[a] = "full"

\* Where nothing is deleted and every slot is seen under one host name, a file that
\* comes back, fails to parse or is skipped is never called current without the
\* evidence its row names, be that bytes or a snapshot.  (After a purge a ledger row
\* may outlive the evidence it names: a file that returns makes it current again.)
THEOREM CurrentFilesHaveEvidence ==
    ASSUME NoDeletion, OneIdentity
    PROVE  Spec => []CurrentFilesAreStored
<1>1. TypeInv /\ FileInv /\ OwnersHaveRows /\ LedgersAreCaptured => CurrentFilesAreStored
    <2> SUFFICES ASSUME TypeInv, FileInv, OwnersHaveRows, LedgersAreCaptured,
                        NEW i \in LedgerId, ledger[i].axis = "current"
                 PROVE  ledger[i].sha \in rows /\ file[ledger[i].sha] = "full"
        BY DEF CurrentFilesAreStored, CurrentLedger
    <2>1. ledger[i] # NoLedger
        BY DEF NoLedger
    <2>2. PICK e \in captures : EvidenceSha(e) = ledger[i].sha
        BY <2>1 DEF LedgersAreCaptured, CapturedAs
    <2>3. ledger[i].sha \in rows
        BY <2>2 DEF OwnersHaveRows, Owned
    <2> QED
        BY <2>3 DEF FileInv, RowsHaveFiles
<1>2. Init => ChosenOps /\ LedgersAreCaptured
    BY DEF Init, ChosenOps, LedgersAreCaptured
<1> QED
    BY TypeInit, TypeStep, FileInit, FileStep, OwnersInit, OwnersStep, ChosenStep, LedgerStep,
       <1>1, <1>2, PTL DEF Spec
=============================================================================
