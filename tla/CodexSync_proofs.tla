-------------------------- MODULE CodexSync_proofs --------------------------
(***************************************************************************)
(* Proofs about CodexSync, for any number of files and of syncs that       *)
(* overlap: types, that the stat comparison by which a sync skips a file   *)
(* never lies, and, where no file is read in a stream, that a session      *)
(* always shows exactly one capture.                                       *)
(***************************************************************************)
EXTENDS CodexSync, FiniteSetTheorems, TLAPS

Reading == [ok : BOOLEAN, first : 0 .. MaxEdits, at : Content, stat : 0 .. MaxEdits,
            stable : BOOLEAN, parsed : SUBSET Content]

----------------------------------------------------------------------------
(* What the helpers return.                                                *)

\* The tail is one of the blobs.
LEMMA TailIn ==
    ASSUME NEW S
    PROVE  Tail(S) \subseteq S
  <1>1. Longest(S) \subseteq S
    BY DEF Longest
  <1>2. Longest(S) # {} => (CHOOSE b \in Longest(S) : TRUE) \in Longest(S)
    OBVIOUS
  <1> QED BY <1>1, <1>2 DEF Tail

LEMMA PiecesAreIn ==
    ASSUME NEW S \in SUBSET Blob
    PROVE  Piecewise(S) \in SUBSET Piece
  BY DEF Piecewise, Blob

LEMMA ParsedPieces ==
    ASSUME NEW r \in Reading, NEW base \in 0 .. MaxLen, NEW by \in Versions
    PROVE  Parsed(r, base, by) \in SUBSET Piece
  BY DEF Parsed, Reading, Content, Piece

LEMMA BlobOfReading ==
    ASSUME NEW r \in Reading, NEW pieces \in SUBSET Piece
    PROVE  /\ BlobOf(r, pieces) \in Blob
           /\ BlobOf(r, pieces).stat = r.stat
           /\ BlobOf(r, pieces).stable = r.stable
           /\ BlobOf(r, pieces).content = r.at
  <1>1. (\E c \in r.parsed : c.torn) \in BOOLEAN
    OBVIOUS
  <1> QED BY <1>1 DEF BlobOf, Reading, Blob

\* An append starts where a stored blob ends.
LEMMA AppendBase ==
    ASSUME NEW prev \in Prev, NEW r \in Reading, CanAppend(prev, r)
    PROVE  (CHOOSE t \in Tail(prev.blobs) : TRUE).content.len \in 0 .. MaxLen
  <1>1. PICK t \in Tail(prev.blobs) : TRUE
    BY DEF CanAppend
  <1>2. (CHOOSE u \in Tail(prev.blobs) : TRUE) \in Tail(prev.blobs)
    BY <1>1
  <1>3. (CHOOSE u \in Tail(prev.blobs) : TRUE) \in Blob
    BY <1>2, TailIn DEF Prev
  <1>4. \A b \in Blob : b.content.len \in 1 .. MaxLen
    BY DEF Blob, Content
  <1>5. 1 .. MaxLen \subseteq 0 .. MaxLen
    BY CodexSyncAssumption
  <1> QED BY <1>3, <1>4, <1>5

\* The rows of a probe are typed, and each is a row that was loaded or holds
\* the stat, the stability and the bytes of the reading.
LEMMA ProbeResult ==
    ASSUME NEW prev \in Prev, NEW r \in Reading, NEW by \in Versions
    PROVE  /\ Probe(prev, r, by) \in Result
           /\ \A b \in Probe(prev, r, by).rows :
                 \/ b \in prev.blobs
                 \/ b.stat = r.stat /\ b.stable = r.stable /\ b.content = r.at
  <1> DEFINE Is(b) == b.stat = r.stat /\ b.stable = r.stable /\ b.content = r.at
  <1>1. Nothing \in Result /\ Nothing.rows = {}
    BY DEF Nothing, Result
  <1>2. {} \in SUBSET Piece
    OBVIOUS
  <1>3. [rows |-> {BlobOf(r, {})}, ok |-> FALSE, same |-> TRUE] \in Result
    BY <1>2, BlobOfReading DEF Result
  <1>4. Is(BlobOf(r, {}))
    BY <1>2, BlobOfReading
  <1>5. ASSUME CanAppend(prev, r)
        PROVE  /\ Append(prev, r, by) \in Result
               /\ \A b \in Append(prev, r, by).rows : b \in prev.blobs \/ Is(b)
    <2> DEFINE base == (CHOOSE t \in Tail(prev.blobs) : TRUE).content.len
               new == BlobOf(r, Parsed(r, base, by))
    <2>1. Parsed(r, base, by) \in SUBSET Piece
      BY <1>5, AppendBase, ParsedPieces
    <2>2. new \in Blob /\ Is(new)
      BY <2>1, BlobOfReading
    <2>3. prev.blobs \in SUBSET Blob
      BY DEF Prev
    <2>4. new.bad \in BOOLEAN
      BY <2>2 DEF Blob
    <2>5. {b \in prev.blobs : b.pieces # {}} \cup {new} \in SUBSET Blob
      BY <2>2, <2>3
    <2>6. Append(prev, r, by) = [rows |-> {b \in prev.blobs : b.pieces # {}} \cup {new},
                                 ok |-> ~new.bad, same |-> FALSE]
      BY DEF Append
    <2> HIDE DEF new, base
    <2>7. Append(prev, r, by) \in Result
      BY <2>4, <2>5, <2>6 DEF Result
    <2>8. Append(prev, r, by).rows = {b \in prev.blobs : b.pieces # {}} \cup {new}
      BY <2>6
    <2> QED BY <2>2, <2>7, <2>8
  <1>6. /\ Parse(r, by) \in Result
        /\ \A b \in Parse(r, by).rows : Is(b)
    <2> DEFINE new == BlobOf(r, Parsed(r, 0, by))
    <2>1. 0 \in 0 .. MaxLen
      BY CodexSyncAssumption
    <2>2. Parsed(r, 0, by) \in SUBSET Piece
      BY <2>1, ParsedPieces
    <2>3. new \in Blob /\ Is(new)
      BY <2>2, BlobOfReading
    <2>4. new.bad \in BOOLEAN
      BY <2>3 DEF Blob
    <2>5. Parse(r, by) = [rows |-> {new}, ok |-> ~new.bad /\ new.pieces # {}, same |-> FALSE]
      BY DEF Parse
    <2> HIDE DEF new
    <2>6. Parse(r, by) \in Result
      BY <2>3, <2>4, <2>5 DEF Result
    <2>7. Parse(r, by).rows = {new}
      BY <2>5
    <2> QED BY <2>3, <2>6, <2>7
  <1> QED BY <1>1, <1>3, <1>4, <1>5, <1>6 DEF Probe

\* Rows after a write are typed; each was there with the same stat and bytes,
\* or has those of a row that is written.
LEMMA WrittenRows ==
    ASSUME NEW S \in SUBSET Blob, NEW res \in Result
    PROVE  /\ Written(S, res) \in SUBSET Blob
           /\ \A b \in Written(S, res) :
                 \E d \in S \cup res.rows :
                    b.stat = d.stat /\ b.stable = d.stable /\ b.content = d.content
  <1>1. res.rows \in SUBSET Blob
    BY DEF Result
  <1>2. \A n \in res.rows : \A x \in Backfilled(S, n) :
            /\ x \in Blob
            /\ \E d \in S \cup res.rows :
                  x.stat = d.stat /\ x.stable = d.stable /\ x.content = d.content
    <2> TAKE n \in res.rows
    <2> TAKE x \in Backfilled(S, n)
    <2>0. PICK b \in S : x = IF b.content = n.content /\ ~b.stable /\ n.stable
                            THEN [b EXCEPT !.stat = n.stat, !.stable = TRUE] ELSE b
      BY DEF Backfilled
    <2>1. n \in Blob /\ b \in Blob
      BY <1>1
    <2>2. CASE b.content = n.content /\ ~b.stable /\ n.stable
      <3>1. x \in Blob /\ x.stat = n.stat /\ x.stable = TRUE /\ x.content = n.content
        BY <2>0, <2>1, <2>2 DEF Blob
      <3>2. n.stable = TRUE
        BY <2>1, <2>2 DEF Blob
      <3> QED BY <3>1, <3>2
    <2>3. CASE ~(b.content = n.content /\ ~b.stable /\ n.stable)
      BY <2>0, <2>1, <2>3
    <2> QED BY <2>2, <2>3
  <1>3. CASE res.ok
    BY <1>1, <1>3 DEF Written
  <1>4. CASE ~res.ok /\ res.same
    BY <1>2, <1>4 DEF Written
  <1>5. CASE ~res.ok /\ ~res.same
    BY <1>1, <1>5 DEF Written, Upserted
  <1> QED BY <1>3, <1>4, <1>5

LEMMA ProbeResultAt ==
    ASSUME NEW y \in Sync, NEW reading \in [Path -> Reading], NEW p \in Path,
           NEW res, res = IF p \in y.batch THEN Probe(y.prev[p], reading[p], y.parser)
                          ELSE Nothing
    PROVE  /\ res \in Result
           /\ \A b \in res.rows :
                 \/ b \in y.prev[p].blobs
                 \/ /\ b.stat = reading[p].stat /\ b.stable = reading[p].stable
                    /\ b.content = reading[p].at
  <1>1. Nothing \in Result /\ Nothing.rows = {}
    BY DEF Nothing, Result
  <1>2. y.prev[p] \in Prev /\ reading[p] \in Reading /\ y.parser \in Versions
    BY DEF Sync
  <1> QED BY <1>1, <1>2, ProbeResult

----------------------------------------------------------------------------
(* The inductive invariant: whatever a blob says of a stat, wherever a     *)
(* blob is kept, is true or is out of date for good.                       *)

Told(p, b) ==
    /\ b.stat <= edits
    /\ b.stable /\ b.stat = file[p].stat => b.content = file[p].content

Carried(y, p) == y.tails[p] \cup y.prev[p].blobs \cup y.result[p].rows

WorldOK ==
    /\ file \in [Path -> [there : BOOLEAN, content : Content, stat : 0 .. MaxEdits]]
    /\ edits \in 0 .. MaxEdits
    /\ troubles \in 0 .. MaxTroubles
    /\ parser \in Versions
    /\ \A p \in Path : file[p].stat <= edits

StoreOK ==
    /\ stage \in Versions \cup {0}
    /\ blobs \in [Path -> SUBSET Blob]
    /\ shown \in [Path -> SUBSET Piece]
    /\ axis \in [Path -> {"none", "current", "source_absent"}]
    /\ \A p \in Path : \A b \in blobs[p] : Told(p, b)

SyncOK ==
    /\ sync \in [Proc -> Sync]
    /\ \A s \in Proc : \A p \in Path : \A b \in Carried(sync[s], p) : Told(p, b)

Inv == WorldOK /\ StoreOK /\ SyncOK

\* A step leaves the files alone or gives one of them a new stat.
Moves ==
    \/ UNCHANGED <<file, edits>>
    \/ \E p \in Path, there \in BOOLEAN, c \in Content : Become(p, there, c)

\* A new stat is larger than every stat told so far.
LEMMA ToldStays ==
    ASSUME WorldOK, Moves, NEW q \in Path, NEW b \in Blob, Told(q, b)
    PROVE  Told(q, b)'
  <1>1. CASE UNCHANGED <<file, edits>>
    BY <1>1 DEF Told
  <1>2. ASSUME NEW p \in Path, NEW there \in BOOLEAN, NEW c \in Content, Become(p, there, c)
        PROVE  Told(q, b)'
    <2>1. edits' = edits + 1 /\ b.stat \in Nat /\ edits \in Nat /\ b.stat <= edits
      BY <1>2, CodexSyncAssumption DEF Become, WorldOK, Told, Blob
    <2>2. CASE p = q
      <3>1. file'[q].stat = edits + 1
        BY <1>2, <2>2 DEF Become, WorldOK
      <3> QED BY <2>1, <3>1 DEF Told
    <2>3. CASE p # q
      <3>1. file'[q] = file[q]
        BY <1>2, <2>3 DEF Become, WorldOK
      <3> QED BY <2>1, <3>1 DEF Told
    <2> QED BY <2>2, <2>3
  <1> QED BY <1>1, <1>2 DEF Moves

LEMMA WorldMoves ==
    ASSUME WorldOK, Moves, troubles' \in 0 .. MaxTroubles, parser' \in Versions
    PROVE  WorldOK'
  <1>1. CASE UNCHANGED <<file, edits>>
    BY <1>1 DEF WorldOK
  <1>2. ASSUME NEW p \in Path, NEW there \in BOOLEAN, NEW c \in Content, Become(p, there, c)
        PROVE  WorldOK'
    <2>1. edits' = edits + 1 /\ edits \in Nat /\ edits' \in 0 .. MaxEdits
      BY <1>2, CodexSyncAssumption DEF Become, WorldOK
    <2>2. file' = [file EXCEPT ![p] = [there |-> there, content |-> c, stat |-> edits']]
      BY <1>2, <2>1 DEF Become
    <2>3. [there |-> there, content |-> c, stat |-> edits']
              \in [there : BOOLEAN, content : Content, stat : 0 .. MaxEdits]
      BY <2>1
    <2>4. file' \in [Path -> [there : BOOLEAN, content : Content, stat : 0 .. MaxEdits]]
      BY <2>2, <2>3 DEF WorldOK
    <2>5. \A q \in Path : file'[q].stat <= edits'
      <3> TAKE q \in Path
      <3>1. file[q].stat <= edits /\ file[q].stat \in Nat
        BY CodexSyncAssumption DEF WorldOK
      <3>2. CASE q = p
        BY <2>1, <2>2, <3>2 DEF WorldOK
      <3>3. CASE q # p
        BY <2>1, <2>2, <3>1, <3>3 DEF WorldOK
      <3> QED BY <3>2, <3>3
    <2> QED BY <2>1, <2>4, <2>5 DEF WorldOK
  <1> QED BY <1>1, <1>2 DEF Moves

LEMMA StoreKept ==
    ASSUME WorldOK, StoreOK, Moves, UNCHANGED <<blobs, shown>>,
           stage' \in Versions \cup {0},
           axis' \in [Path -> {"none", "current", "source_absent"}]
    PROVE  StoreOK'
  <1>1. \A p \in Path : \A b \in blobs[p] : Told(p, b)'
    BY ToldStays DEF StoreOK
  <1> QED BY <1>1 DEF StoreOK

LEMMA CarriedBlobs ==
    ASSUME NEW y \in Sync, NEW p \in Path
    PROVE  Carried(y, p) \subseteq Blob
  <1>1. y.tails[p] \in SUBSET Blob
    BY DEF Sync
  <1>2. y.prev[p].blobs \in SUBSET Blob
    BY DEF Sync, Prev
  <1>3. y.result[p].rows \in SUBSET Blob
    BY DEF Sync, Result
  <1> QED BY <1>1, <1>2, <1>3 DEF Carried

LEMMA SyncKept ==
    ASSUME WorldOK, SyncOK, Moves, UNCHANGED sync
    PROVE  SyncOK'
  <1>1. \A s \in Proc : \A p \in Path : \A b \in Carried(sync[s], p) : Told(p, b)'
    BY ToldStays, CarriedBlobs DEF SyncOK
  <1> QED BY <1>1 DEF SyncOK, Carried

LEMMA SyncMoves ==
    ASSUME WorldOK, SyncOK, Moves, NEW s \in Proc, NEW y \in Sync,
           sync' = [sync EXCEPT ![s] = y],
           \A p \in Path : \A b \in Carried(y, p) : Told(p, b)'
    PROVE  SyncOK'
  <1>1. \A t \in Proc : \A p \in Path : \A b \in Carried(sync[t], p) : Told(p, b)'
    BY ToldStays, CarriedBlobs DEF SyncOK
  <1>2. sync' \in [Proc -> Sync]
    BY DEF SyncOK
  <1>3. \A t \in Proc : sync'[t] = IF t = s THEN y ELSE sync[t]
    BY DEF SyncOK
  <1>4. \A t \in Proc : \A p \in Path : \A b \in Carried(sync'[t], p) : Told(p, b)'
    <2> TAKE t \in Proc
    <2>1. CASE t = s
      BY <1>3, <2>1
    <2>2. CASE t # s
      BY <1>1, <1>3, <2>2
    <2> QED BY <2>1, <2>2
  <1> QED BY <1>2, <1>4 DEF SyncOK, Carried

LEMMA WriteKeeps ==
    ASSUME WorldOK, StoreOK, Moves, NEW files, NEW result \in [Path -> Result],
           \A p \in Path : \A b \in result[p].rows : Told(p, b)',
           WriteRows(files, result), stage' \in Versions \cup {0}
    PROVE  StoreOK'
  <1>1. \A p \in Path : blobs[p] \in SUBSET Blob /\ result[p] \in Result
    BY DEF StoreOK
  <1>2. blobs' = [p \in Path |-> Written(blobs[p], result[p])]
    BY DEF WriteRows
  <1>3. blobs' \in [Path -> SUBSET Blob]
    BY <1>1, <1>2, WrittenRows
  <1>4. \A p \in Path : result[p].rows \in SUBSET Blob
    BY <1>1 DEF Result
  <1>5. shown' \in [Path -> SUBSET Piece]
    <2>1. \A p \in Path : shown[p] \in SUBSET Piece
      BY DEF StoreOK
    <2>2. \A p \in Path : Piecewise(result[p].rows) \in SUBSET Piece
      BY <1>4, PiecesAreIn
    <2>3. shown' = [p \in Path |-> IF result[p].ok THEN Piecewise(result[p].rows) ELSE shown[p]]
      BY DEF WriteRows
    <2> QED BY <2>1, <2>2, <2>3
  <1>6. axis' \in [Path -> {"none", "current", "source_absent"}]
    BY DEF WriteRows, Reconciled
  <1>7. \A p \in Path : \A b \in blobs'[p] : Told(p, b)'
    <2> TAKE p \in Path
    <2> TAKE b \in blobs'[p]
    <2>1. b \in Written(blobs[p], result[p])
      BY <1>2
    <2>2. PICK d \in blobs[p] \cup result[p].rows :
              b.stat = d.stat /\ b.stable = d.stable /\ b.content = d.content
      BY <1>1, <2>1, WrittenRows
    <2>3. Told(p, d)'
      <3>1. CASE d \in blobs[p]
        BY <1>1, <3>1, ToldStays DEF StoreOK
      <3> QED BY <2>2, <3>1
    <2> QED BY <2>2, <2>3 DEF Told
  <1> QED BY <1>3, <1>5, <1>6, <1>7 DEF StoreOK

----------------------------------------------------------------------------
(* Readings.                                                               *)

\* What is read is the present content, or has a stat that is past or is not
\* recorded as stable.
Faithful(p, r) ==
    /\ r.stat <= edits'
    /\ r.stable /\ r.stat = file'[p].stat => r.at = file'[p].content

LEMMA QuietReading ==
    ASSUME WorldOK, NEW p \in Path
    PROVE  /\ Quiet(p) \in Reading
           /\ Quiet(p).stat = file[p].stat /\ Quiet(p).at = file[p].content
           /\ Unreadable(p) \in Reading
           /\ Unreadable(p).stat = file[p].stat /\ Unreadable(p).at = file[p].content
  BY DEF WorldOK, Quiet, Unreadable, Reading

LEMMA RereadReading ==
    ASSUME WorldOK, NEW p \in Path, NEW cs \in SUBSET Content
    PROVE  /\ Reread(p, cs) \in Reading
           /\ Reread(p, cs).stat = file[p].stat /\ Reread(p, cs).at = file[p].content
  BY DEF WorldOK, Quiet, Reread, Reading

LEMMA OvertakenReading ==
    ASSUME WorldOK, NEW p \in Path, NEW c \in Content, NEW at \in Content, edits < MaxEdits
    PROVE  /\ Overtaken(p, c, at) \in Reading
           /\ Overtaken(p, c, at).stat = edits + 1 /\ Overtaken(p, c, at).stable = FALSE
  <1>1. edits + 1 \in 0 .. MaxEdits
    BY CodexSyncAssumption DEF WorldOK
  <1>2. {IF Large(file[p].content) THEN c ELSE at} \in SUBSET Content
    OBVIOUS
  <1> QED BY <1>1, <1>2 DEF WorldOK, Quiet, Overtaken, Reading

\* Whatever is left alone while it is read is read faithfully.
LEMMA FaithfulAtRest ==
    ASSUME WorldOK, Moves, NEW p \in Path, file'[p] = file[p],
           NEW r \in Reading, r.stat = file[p].stat, r.at = file[p].content
    PROVE  Faithful(p, r)
  <1>1. file[p].stat <= edits /\ file[p].stat \in Nat /\ edits \in Nat
    BY CodexSyncAssumption DEF WorldOK
  <1>2. edits' = edits \/ edits' = edits + 1
    BY DEF Moves, Become
  <1> QED BY <1>1, <1>2 DEF Faithful

----------------------------------------------------------------------------
(* Steps of a sync.                                                        *)

LEMMA NothingIsTyped ==
    /\ Nothing \in Result /\ Nothing.rows = {}
    /\ NoResult \in [Path -> Result]
    /\ NoPrev \in Prev /\ NoPrev.blobs = {}
    /\ NoPrevs \in [Path -> Prev]
    /\ Idle \in Sync
    /\ \A p \in Path : Carried(Idle, p) = {}
  <1>1. Nothing \in Result /\ Nothing.rows = {}
    BY DEF Nothing, Result
  <1>2. NoResult \in [Path -> Result] /\ \A p \in Path : NoResult[p].rows = {}
    BY <1>1 DEF NoResult
  <1>3. NoPrev \in Prev /\ NoPrev.blobs = {}
    BY DEF NoPrev, Prev
  <1>4. NoPrevs \in [Path -> Prev] /\ \A p \in Path : NoPrevs[p].blobs = {}
    BY <1>3 DEF NoPrevs
  <1>5. 1 \in Versions
    BY CodexSyncAssumption DEF Versions
  <1>6. Idle \in Sync
    BY <1>2, <1>4, <1>5 DEF Idle, Sync, Phases
  <1>7. \A p \in Path : Carried(Idle, p) = {}
    BY <1>2, <1>4 DEF Idle, Carried
  <1> QED BY <1>1, <1>2, <1>3, <1>4, <1>6, <1>7

LEMMA DoneKeepsTails ==
    ASSUME NEW y \in Sync, NEW pending \in BOOLEAN
    PROVE  /\ Done(y, pending) \in Sync
           /\ \A p \in Path : Carried(Done(y, pending), p) \subseteq Carried(y, p)
  <1>1. Done(y, pending) \in Sync
    BY NothingIsTyped DEF Done, Sync, Phases
  <1>2. /\ Done(y, pending).tails = y.tails
        /\ Done(y, pending).prev = NoPrevs
        /\ Done(y, pending).result = NoResult
    BY DEF Done, Sync
  <1>3. \A p \in Path : NoPrevs[p].blobs = {} /\ NoResult[p].rows = {}
    BY NothingIsTyped DEF NoPrevs, NoResult
  <1> QED BY <1>1, <1>2, <1>3 DEF Carried

\* Reading a batch, and storing what was read when it is read for that.
LEMMA ReadKeeps ==
    ASSUME WorldOK, StoreOK, SyncOK, Moves, NEW s \in Proc,
           NEW reading \in [Path -> Reading], \A p \in Path : Faithful(p, reading[p]),
           Read(s, reading)
    PROVE  StoreOK' /\ SyncOK'
  <1> DEFINE y == sync[s]
  <1>1. y \in Sync
    BY DEF SyncOK
  <1>2. PICK result \in {[p \in Path |-> IF p \in y.batch
                                         THEN Probe(y.prev[p], reading[p], y.parser)
                                         ELSE Nothing]} :
            \/ Merge(s, result)
            \/ ProbeBatch(s, result, \E p \in y.batch : ~reading[p].ok)
    BY DEF Read
  <1>3. \A p \in Path :
            /\ result[p] \in Result
            /\ \A b \in result[p].rows :
                  \/ b \in y.prev[p].blobs
                  \/ /\ b.stat = reading[p].stat /\ b.stable = reading[p].stable
                     /\ b.content = reading[p].at
    <2> TAKE p \in Path
    <2>1. result[p] = IF p \in y.batch THEN Probe(y.prev[p], reading[p], y.parser) ELSE Nothing
      BY <1>2
    <2> QED BY <1>1, <2>1, ProbeResultAt
  <1>4. result \in [Path -> Result]
    BY <1>2, <1>3
  <1>5. \A p \in Path : \A b \in Carried(y, p) : Told(p, b)'
    BY <1>1, ToldStays, CarriedBlobs DEF SyncOK
  <1>6. \A p \in Path : \A b \in result[p].rows : Told(p, b)'
    <2> TAKE p \in Path
    <2> TAKE b \in result[p].rows
    <2>1. CASE b \in y.prev[p].blobs
      BY <1>5, <2>1 DEF Carried
    <2>2. CASE /\ b.stat = reading[p].stat /\ b.stable = reading[p].stable
               /\ b.content = reading[p].at
      BY <2>2 DEF Faithful, Told
    <2> QED BY <1>3, <2>1, <2>2
  <1>7. \A pending \in BOOLEAN :
            /\ Done(y, pending) \in Sync
            /\ \A p \in Path : \A b \in Carried(Done(y, pending), p) : Told(p, b)'
    BY <1>1, <1>5, DoneKeepsTails
  <1>8. CASE Merge(s, result)
    <2>1. WriteRows(y.files, result)
      BY <1>8 DEF Merge
    <2>2. stage' \in Versions \cup {0}
      BY <1>1, <1>8 DEF Merge, StageAfter, Sync
    <2>3. StoreOK'
      BY <1>4, <1>6, <2>1, <2>2, WriteKeeps
    <2>4. sync' = [sync EXCEPT ![s] = Done(y, FALSE)]
      BY <1>8 DEF Merge
    <2>5. SyncOK'
      BY <1>7, <2>4, SyncMoves
    <2> QED BY <2>3, <2>5
  <1>9. CASE ProbeBatch(s, result, \E p \in y.batch : ~reading[p].ok)
    <2> DEFINE late == [y EXCEPT !.phase = "late", !.result = result]
    <2>1. StoreOK'
      <3>1. UNCHANGED <<stage, blobs, shown, axis>>
        BY <1>9 DEF ProbeBatch, store
      <3> QED BY <3>1, StoreKept DEF StoreOK
    <2>2. late \in Sync
      BY <1>1, <1>4 DEF Sync, Phases
    <2>3. late.tails = y.tails /\ late.prev = y.prev /\ late.result = result
      BY <1>1 DEF Sync
    <2>4. \A p \in Path : \A b \in Carried(late, p) : Told(p, b)'
      BY <1>5, <1>6, <2>3 DEF Carried
    <2>5. \/ sync' = [sync EXCEPT ![s] = Done(y, TRUE)]
          \/ sync' = [sync EXCEPT ![s] = late]
      BY <1>9 DEF ProbeBatch
    <2> HIDE DEF late
    <2>6. SyncOK'
      <3>1. CASE sync' = [sync EXCEPT ![s] = Done(y, TRUE)]
        BY <1>7, <3>1, SyncMoves
      <3>2. CASE sync' = [sync EXCEPT ![s] = late]
        BY <2>2, <2>4, <3>2, SyncMoves
      <3> QED BY <2>5, <3>1, <3>2
    <2> QED BY <2>1, <2>6
  <1> QED BY <1>2, <1>8, <1>9

LEMMA StartKeeps ==
    ASSUME Inv, NEW s \in Proc, Start(s)
    PROVE  Inv'
  <1>1. PICK limit \in Thresholds : sync' = [sync EXCEPT ![s] = [Idle EXCEPT
            !.phase = IF Present = {} THEN "merge" ELSE "batch",
            !.files = Present,
            !.todo = Present,
            !.tails = [p \in Path |-> Tail(blobs[p])],
            !.stage = stage,
            !.parser = parser,
            !.thin = Cardinality(UNION {{p} \X blobs[p] : p \in Path}) > limit]]
    BY DEF Start
  <1> DEFINE y == [Idle EXCEPT
            !.phase = IF Present = {} THEN "merge" ELSE "batch",
            !.files = Present,
            !.todo = Present,
            !.tails = [p \in Path |-> Tail(blobs[p])],
            !.stage = stage,
            !.parser = parser,
            !.thin = Cardinality(UNION {{p} \X blobs[p] : p \in Path}) > limit]
  <1>2. Moves /\ UNCHANGED <<world, store>>
    BY DEF Start, Moves, world
  <1>3. Present \in SUBSET Path
    BY DEF Present
  <1>4. [p \in Path |-> Tail(blobs[p])] \in [Path -> SUBSET Blob]
    BY TailIn DEF Inv, StoreOK
  <1>5. (Cardinality(UNION {{p} \X blobs[p] : p \in Path}) > limit) \in BOOLEAN
    OBVIOUS
  <1>6. stage \in Versions \cup {0} /\ parser \in Versions
    BY DEF Inv, WorldOK, StoreOK
  <1>7. y \in Sync
    BY <1>3, <1>4, <1>5, <1>6, NothingIsTyped DEF Sync, Phases
  <1>8. y.tails = [p \in Path |-> Tail(blobs[p])] /\ y.prev = Idle.prev /\ y.result = Idle.result
    BY NothingIsTyped DEF Sync
  <1> HIDE DEF y
  <1>9. \A p \in Path : \A b \in Carried(y, p) : Told(p, b)'
    <2> TAKE p \in Path
    <2> TAKE b \in Carried(y, p)
    <2>1. Idle.prev[p].blobs = {} /\ Idle.result[p].rows = {}
      BY NothingIsTyped DEF Carried
    <2>2. b \in blobs[p]
      BY <1>8, <2>1, TailIn DEF Carried
    <2>3. b \in Blob /\ Told(p, b)
      BY <2>2 DEF Inv, StoreOK
    <2> QED BY <1>2, <2>3, ToldStays DEF Inv
  <1>10. sync' = [sync EXCEPT ![s] = y]
    BY <1>1 DEF y
  <1>11. SyncOK'
    BY <1>2, <1>7, <1>9, <1>10, SyncMoves DEF Inv
  <1>12. WorldOK'
    BY <1>2, WorldMoves DEF Inv, WorldOK, world
  <1>13. StoreOK'
    BY <1>2, StoreKept DEF Inv, StoreOK, store
  <1> QED BY <1>11, <1>12, <1>13 DEF Inv

\* What a batch is compared with was loaded when the sync began or just now.
LEMMA PreviousIn ==
    ASSUME Inv, NEW y \in Sync, NEW p \in Path
    PROVE  /\ Previous(y, p) \in Prev
           /\ Previous(y, p).blobs \subseteq blobs[p] \cup y.tails[p]
  <1>1. blobs[p] \in SUBSET Blob /\ y.tails[p] \in SUBSET Blob
    BY DEF Inv, StoreOK, Sync
  <1> QED BY <1>1, NothingIsTyped DEF Previous, Prev

LEMMA LoadKeeps ==
    ASSUME Inv, NEW s \in Proc, Load(s)
    PROVE  Inv'
  <1> DEFINE y == sync[s]
             prevs(B) == [p \in Path |-> IF p \in B THEN Previous(y, p) ELSE NoPrev]
             z(ph, B) == [y EXCEPT !.phase = ph, !.batch = B, !.prev = prevs(B)]
  <1>1. y \in Sync
    BY DEF Inv, SyncOK
  <1>2. PICK B \in (SUBSET y.todo) \ {{}}, ph \in {"probe", "merge"} :
            sync' = [sync EXCEPT ![s].phase = ph, ![s].batch = B, ![s].prev = prevs(B)]
    BY DEF Load
  <1>3. sync' = [sync EXCEPT ![s] = z(ph, B)]
    BY <1>1, <1>2 DEF Inv, SyncOK, Sync
  <1>4. Moves /\ UNCHANGED <<world, store>>
    BY DEF Load, Moves, world
  <1>5. B \in SUBSET Path /\ ph \in Phases
    BY <1>1 DEF Sync, Phases
  <1>6. prevs(B) \in [Path -> Prev]
    BY <1>1, PreviousIn, NothingIsTyped
  <1>7. z(ph, B) \in Sync
    BY <1>1, <1>5, <1>6 DEF Sync
  <1>8. z(ph, B).tails = y.tails /\ z(ph, B).prev = prevs(B) /\ z(ph, B).result = y.result
    BY <1>1 DEF Sync
  <1>9. \A p \in Path : \A b \in Carried(y, p) : Told(p, b)'
    BY <1>1, <1>4, ToldStays, CarriedBlobs DEF Inv, SyncOK
  <1>10. \A p \in Path : \A b \in blobs[p] : Told(p, b)'
    BY <1>4, ToldStays DEF Inv, StoreOK
  <1>11. \A p \in Path : prevs(B)[p].blobs \subseteq blobs[p] \cup y.tails[p]
    BY <1>1, PreviousIn, NothingIsTyped
  <1> HIDE DEF z, prevs
  <1>12. \A p \in Path : \A b \in Carried(z(ph, B), p) : Told(p, b)'
    BY <1>8, <1>9, <1>10, <1>11 DEF Carried
  <1>13. SyncOK'
    BY <1>3, <1>4, <1>7, <1>12, SyncMoves DEF Inv
  <1>14. WorldOK'
    BY <1>4, WorldMoves DEF Inv, WorldOK, world
  <1>15. StoreOK'
    BY <1>4, StoreKept DEF Inv, StoreOK, store
  <1> QED BY <1>13, <1>14, <1>15 DEF Inv

LEMMA LateMergeKeeps ==
    ASSUME Inv, NEW s \in Proc, LateMerge(s)
    PROVE  Inv'
  <1> DEFINE y == sync[s]
  <1>1. y \in Sync
    BY DEF Inv, SyncOK
  <1>2. Moves /\ UNCHANGED world
    BY DEF LateMerge, Moves, world
  <1>3. \A p \in Path : \A b \in Carried(y, p) : Told(p, b)'
    BY <1>1, <1>2, ToldStays, CarriedBlobs DEF Inv, SyncOK
  <1>4. y.result \in [Path -> Result] /\ y.parser \in Versions
    BY <1>1 DEF Sync
  <1>5. WriteRows(y.files, y.result) /\ stage' = y.parser
    BY DEF LateMerge
  <1>6. \A p \in Path : \A b \in y.result[p].rows : Told(p, b)'
    BY <1>3 DEF Carried
  <1>7. StoreOK'
    BY <1>2, <1>4, <1>5, <1>6, WriteKeeps DEF Inv
  <1>8. sync' = [sync EXCEPT ![s] = Done(y, FALSE)]
    BY DEF LateMerge
  <1>9. SyncOK'
    BY <1>1, <1>2, <1>3, <1>8, DoneKeepsTails, SyncMoves DEF Inv
  <1>10. WorldOK'
    BY <1>2, WorldMoves DEF Inv, WorldOK, world
  <1> QED BY <1>7, <1>9, <1>10 DEF Inv

\* A sync that ends or dies forgets what it loaded.
LEMMA IdleKeeps ==
    ASSUME Inv, Moves, NEW s \in Proc, sync' = [sync EXCEPT ![s] = Idle]
    PROVE  SyncOK'
  BY NothingIsTyped, SyncMoves DEF Inv

LEMMA PruneKeeps ==
    ASSUME Inv, NEW s \in Proc, Prune(s)
    PROVE  Inv'
  <1>1. Moves /\ UNCHANGED <<world, blobs, shown>>
    BY DEF Prune, Moves, world
  <1>2. sync[s] \in Sync
    BY DEF Inv, SyncOK
  <1>3. axis' \in [Path -> {"none", "current", "source_absent"}]
    BY DEF Prune, Reconciled
  <1>4. stage' \in Versions \cup {0}
    BY <1>2 DEF Prune, Sync, Inv, StoreOK
  <1>5. StoreOK'
    BY <1>1, <1>3, <1>4, StoreKept DEF Inv
  <1>6. SyncOK'
    BY <1>1, IdleKeeps DEF Prune
  <1>7. WorldOK'
    BY <1>1, WorldMoves DEF Inv, WorldOK, world
  <1> QED BY <1>5, <1>6, <1>7 DEF Inv

LEMMA ReadQuietlyKeeps ==
    ASSUME Inv, NEW s \in Proc, ReadQuietly(s)
    PROVE  Inv'
  <1>1. Moves /\ UNCHANGED world
    BY DEF ReadQuietly, Moves, world
  <1> DEFINE reading == [p \in Path |-> Quiet(p)]
  <1>2. reading \in [Path -> Reading]
    BY QuietReading DEF Inv
  <1>3. \A p \in Path : Faithful(p, reading[p])
    <2> TAKE p \in Path
    <2>1. file'[p] = file[p]
      BY <1>1 DEF world
    <2> QED BY <1>1, <2>1, QuietReading, FaithfulAtRest DEF Inv
  <1>4. Read(s, reading)
    BY DEF ReadQuietly
  <1> HIDE DEF reading
  <1>5. StoreOK' /\ SyncOK'
    BY <1>1, <1>2, <1>3, <1>4, ReadKeeps DEF Inv
  <1>6. WorldOK'
    BY <1>1, WorldMoves DEF Inv, WorldOK, world
  <1> QED BY <1>5, <1>6 DEF Inv

\* The file that changes is read before the change, with the new stat but not
\* as stable, or with the old stat, which is past.
LEMMA ReadDuringEditKeeps ==
    ASSUME Inv, NEW s \in Proc, ReadDuringEdit(s)
    PROVE  Inv'
  <1>1. PICK p \in Path, c \in Content :
            /\ Become(p, TRUE, c)
            /\ \E r \in {Overtaken(p, c, at) : at \in {file[p].content, c}} \cup
                        (IF Large(file[p].content) THEN {Reread(p, {c})} ELSE {}) :
                  Read(s, [q \in Path |-> IF q = p THEN r ELSE Quiet(q)])
    BY DEF ReadDuringEdit, Present, Changes
  <1>2. PICK r \in {Overtaken(p, c, at) : at \in {file[p].content, c}} \cup
                    (IF Large(file[p].content) THEN {Reread(p, {c})} ELSE {}) :
            Read(s, [q \in Path |-> IF q = p THEN r ELSE Quiet(q)])
    BY <1>1
  <1> DEFINE reading == [q \in Path |-> IF q = p THEN r ELSE Quiet(q)]
  <1>3. Moves
    BY <1>1 DEF Moves
  <1>4. file[p].content \in Content /\ edits < MaxEdits /\ WorldOK
    BY <1>1 DEF Become, Inv, WorldOK
  <1>5. edits' = edits + 1 /\ file'[p].stat = edits + 1
    BY <1>1, <1>4 DEF Become, WorldOK
  <1>6. r \in Reading /\ Faithful(p, r)
    <2>1. ASSUME NEW at \in {file[p].content, c}, r = Overtaken(p, c, at)
          PROVE  r \in Reading /\ Faithful(p, r)
      <3>1. at \in Content
        BY <1>4
      <3>2. r \in Reading /\ r.stat = edits + 1 /\ r.stable = FALSE
        BY <1>4, <2>1, <3>1, OvertakenReading
      <3>3. edits + 1 \in Nat
        BY CodexSyncAssumption, <1>4 DEF WorldOK
      <3> QED BY <1>5, <3>2, <3>3 DEF Faithful
    <2>2. ASSUME r = Reread(p, {c})
          PROVE  r \in Reading /\ Faithful(p, r)
      <3>1. r \in Reading /\ r.stat = file[p].stat
        BY <1>4, <2>2, RereadReading
      <3>2. file[p].stat <= edits /\ file[p].stat \in Nat /\ edits \in Nat
        BY CodexSyncAssumption, <1>4 DEF WorldOK
      <3> QED BY <1>5, <3>1, <3>2 DEF Faithful
    <2> QED BY <1>2, <2>1, <2>2
  <1>7. \A q \in Path : reading[q] \in Reading /\ Faithful(q, reading[q])
    <2> TAKE q \in Path
    <2>1. CASE q = p
      BY <1>6, <2>1
    <2>2. CASE q # p
      <3>1. file'[q] = file[q]
        BY <1>1, <1>4, <2>2 DEF Become, WorldOK
      <3>2. reading[q] = Quiet(q)
        BY <2>2
      <3> QED BY <1>3, <1>4, <3>1, <3>2, QuietReading, FaithfulAtRest
    <2> QED BY <2>1, <2>2
  <1>8. reading \in [Path -> Reading]
    BY <1>7
  <1>9. Read(s, reading)
    BY <1>2
  <1> HIDE DEF reading
  <1>10. StoreOK' /\ SyncOK'
    BY <1>3, <1>7, <1>8, <1>9, ReadKeeps DEF Inv
  <1>11. UNCHANGED <<troubles, parser>>
    BY DEF ReadDuringEdit
  <1>12. WorldOK'
    BY <1>3, <1>11, WorldMoves DEF Inv, WorldOK
  <1> QED BY <1>10, <1>12 DEF Inv

LEMMA TroubleTyped ==
    ASSUME WorldOK, Trouble
    PROVE  troubles' \in 0 .. MaxTroubles
  BY CodexSyncAssumption DEF WorldOK, Trouble

LEMMA ReadFailsKeeps ==
    ASSUME Inv, NEW s \in Proc, ReadFails(s)
    PROVE  Inv'
  <1>1. PICK p \in Path :
            \E r \in {Unreadable(p)} \cup (IF Large(file[p].content) THEN {Reread(p, {})} ELSE {}) :
                Read(s, [q \in Path |-> IF q = p THEN r ELSE Quiet(q)])
    BY DEF ReadFails, Present
  <1>2. PICK r \in {Unreadable(p)} \cup (IF Large(file[p].content) THEN {Reread(p, {})} ELSE {}) :
            Read(s, [q \in Path |-> IF q = p THEN r ELSE Quiet(q)])
    BY <1>1
  <1> DEFINE reading == [q \in Path |-> IF q = p THEN r ELSE Quiet(q)]
  <1>3. Moves /\ UNCHANGED <<file, edits, parser>>
    BY DEF ReadFails, Moves
  <1>4. r \in Reading /\ r.stat = file[p].stat /\ r.at = file[p].content
    BY <1>2, QuietReading, RereadReading DEF Inv
  <1>5. \A q \in Path : reading[q] \in Reading /\ Faithful(q, reading[q])
    <2> TAKE q \in Path
    <2>1. file'[q] = file[q]
      BY <1>3
    <2>2. /\ reading[q] \in Reading
          /\ reading[q].stat = file[q].stat /\ reading[q].at = file[q].content
      BY <1>4, QuietReading DEF Inv
    <2> QED BY <1>3, <2>1, <2>2, FaithfulAtRest DEF Inv
  <1>6. reading \in [Path -> Reading]
    BY <1>5
  <1>7. Read(s, reading)
    BY <1>2
  <1> HIDE DEF reading
  <1>8. StoreOK' /\ SyncOK'
    BY <1>3, <1>5, <1>6, <1>7, ReadKeeps DEF Inv
  <1>9. WorldOK'
    BY <1>3, TroubleTyped, WorldMoves DEF Inv, WorldOK, ReadFails
  <1> QED BY <1>8, <1>9 DEF Inv

----------------------------------------------------------------------------
(* All steps.                                                              *)

LEMMA Initially == Init => Inv
  <1> SUFFICES ASSUME Init PROVE Inv
    OBVIOUS
  <1>1. 0 \in 0 .. MaxEdits /\ 0 \in 0 .. MaxTroubles /\ 1 \in Versions
    BY CodexSyncAssumption DEF Versions
  <1>2. [gen |-> 1, len |-> 1, torn |-> FALSE] \in Content
    BY CodexSyncAssumption DEF Content
  <1>3. WorldOK
    BY <1>1, <1>2 DEF Init, WorldOK
  <1>4. StoreOK
    BY DEF Init, StoreOK
  <1>5. SyncOK
    BY NothingIsTyped DEF Init, SyncOK
  <1> QED BY <1>3, <1>4, <1>5 DEF Inv

LEMMA Preserved == Inv /\ [Next]_vars => Inv'
  <1> SUFFICES ASSUME Inv, [Next]_vars PROVE Inv'
    OBVIOUS
  <1>1. ASSUME NEW s \in Proc, Step(s)
        PROVE  Inv'
    BY <1>1, StartKeeps, LoadKeeps, ReadQuietlyKeeps, LateMergeKeeps, PruneKeeps DEF Step
  <1>2. ASSUME NEW s \in Proc, Crash(s)
        PROVE  Inv'
    <2>1. Moves /\ UNCHANGED <<file, edits, parser, store>>
      BY <1>2 DEF Crash, Moves
    <2>2. SyncOK'
      BY <1>2, <2>1, IdleKeeps DEF Crash
    <2>3. StoreOK'
      BY <2>1, StoreKept DEF Inv, StoreOK, store
    <2>4. WorldOK'
      BY <1>2, <2>1, TroubleTyped, WorldMoves DEF Inv, WorldOK, Crash
    <2> QED BY <2>2, <2>3, <2>4 DEF Inv
  <1>3. ASSUME NEW p \in Path, Edit(p) \/ Remove(p)
        PROVE  Inv'
    <2>1. Moves
      <3>1. CASE Edit(p)
        BY <3>1 DEF Edit, Changes, Moves
      <3>2. CASE Remove(p)
        BY <3>2 DEF Remove, Moves, Inv, WorldOK
      <3> QED BY <1>3, <3>1, <3>2
    <2>2. UNCHANGED <<troubles, parser, store, sync>>
      BY <1>3 DEF Edit, Remove
    <2>3. StoreOK' /\ SyncOK'
      BY <2>1, <2>2, StoreKept, SyncKept DEF Inv, StoreOK, store
    <2>4. WorldOK'
      BY <2>1, <2>2, WorldMoves DEF Inv, WorldOK
    <2> QED BY <2>3, <2>4 DEF Inv
  <1>4. CASE Upgrade
    <2>1. Moves /\ UNCHANGED <<file, edits, troubles, store, sync>>
      BY <1>4 DEF Upgrade, Moves
    <2>2. parser' \in Versions
      BY <1>4, CodexSyncAssumption DEF Upgrade, Versions, Inv, WorldOK
    <2>3. StoreOK' /\ SyncOK'
      BY <2>1, StoreKept, SyncKept DEF Inv, StoreOK, store
    <2>4. WorldOK'
      BY <2>1, <2>2, WorldMoves DEF Inv, WorldOK
    <2> QED BY <2>3, <2>4 DEF Inv
  <1>5. CASE UNCHANGED vars
    <2>1. Moves /\ UNCHANGED <<troubles, parser, store, sync>>
      BY <1>5 DEF vars, world, Moves
    <2>2. StoreOK' /\ SyncOK'
      BY <2>1, StoreKept, SyncKept DEF Inv, StoreOK, store
    <2>3. WorldOK'
      BY <2>1, WorldMoves DEF Inv, WorldOK
    <2> QED BY <2>2, <2>3 DEF Inv
  <1> QED BY <1>1, <1>2, <1>3, <1>4, <1>5, ReadDuringEditKeeps, ReadFailsKeeps DEF Next

\* Rows, loaded copies and results are well typed in every reachable state,
\* for any number of files and of syncs that overlap.
THEOREM TypeCorrect == Spec => []TypeOK
  <1>1. Inv => TypeOK
    BY DEF Inv, WorldOK, StoreOK, SyncOK, TypeOK
  <1> QED BY <1>1, Initially, Preserved, PTL DEF Spec

\* A sync may skip a file whose stat is the stored one: wherever files change,
\* are misread or vanish, and whatever syncs overlap or die, no stored blob has
\* the present stat of its file as stable and other bytes.
THEOREM StatsAlwaysTellContent == Spec => []StatsTellContent
  <1>1. Inv => StatsTellContent
    BY TailIn DEF Inv, StoreOK, Told, StatsTellContent
  <1> QED BY <1>1, Initially, Preserved, PTL DEF Spec

----------------------------------------------------------------------------
(* What a session shows, where no file is so long that it is read in a     *)
(* stream: then what is parsed is what was captured.                       *)

NoStreams == MaxLen < LargeLen

\* The pieces ps make up c; MakesUp says it with cardinalities.
Covers(ps, c) ==
    /\ \A x \in ps : x.gen = c.gen /\ x.hi <= c.len
    /\ \A i \in 1 .. c.len : \E x \in ps : {z \in ps : z.lo < i /\ i <= z.hi} = {x}

\* Blobs that have no bad line between them have the pieces of the longest: on
\* such blobs an append may build.
Whole(S) == (\A b \in S : ~b.bad) => \A t \in Longest(S) : Covers(Piecewise(S), t.content)

\* Rows that may replace what is shown.
Full(S) == Whole(S) /\ \E b \in S : ~b.content.torn /\ Covers(Piecewise(S), b.content)

\* What a probe found, now or in another transaction long ago.
Good(res) ==
    /\ res.ok => Full(res.rows)
    /\ ~res.ok /\ ~res.same => res.rows = {} \/ \E b \in res.rows : b.bad
    /\ res.same => \E n \in res.rows : res.rows = {n}

ShowsOf(S, ps) == ps # {} => \E b \in S : ~b.content.torn /\ Covers(ps, b.content)

WholeStore == \A p \in Path : Whole(blobs[p]) /\ ShowsOf(blobs[p], shown[p])

WholeWork(y) ==
    \A p \in Path : (y.prev[p].heavy => Whole(y.prev[p].blobs)) /\ Good(y.result[p])

WholeSyncs == \A s \in Proc : WholeWork(sync[s])

WholeInv == WholeStore /\ WholeSyncs

\* A reading whose parse saw the captured bytes.
Straight(r) == r.parsed = {r.at}

LEMMA CoversMakesUp ==
    ASSUME NEW ps, NEW c, Covers(ps, c)
    PROVE  MakesUp(ps, c)
  <1>1. \A i \in 1 .. c.len : Cardinality({z \in ps : z.lo < i /\ i <= z.hi}) = 1
    BY FS_Singleton DEF Covers
  <1> QED BY <1>1 DEF Covers, MakesUp

\* The first capture of a file is one piece.
LEMMA ParseGood ==
    ASSUME NEW r \in Reading, Straight(r), NEW by \in Versions
    PROVE  Good(Parse(r, by))
  <1> DEFINE x == [gen |-> r.at.gen, lo |-> 0, hi |-> r.at.len, by |-> by]
             new == BlobOf(r, Parsed(r, 0, by))
  <1>1. r.at \in Content /\ r.at.len \in Nat /\ r.at.torn \in BOOLEAN
    BY CodexSyncAssumption DEF Reading, Content
  <1>2. Parsed(r, 0, by) = {x}
    BY DEF Straight, Parsed
  <1>3. new.pieces = {x} /\ new.content = r.at /\ (r.at.torn => new.bad)
    BY <1>2 DEF BlobOf, Straight
  <1>4. Parse(r, by) = [rows |-> {new}, ok |-> ~new.bad /\ new.pieces # {}, same |-> FALSE]
    BY DEF Parse
  <1>5. Covers({x}, r.at)
    <2>1. \A i \in 1 .. r.at.len : {z \in {x} : z.lo < i /\ i <= z.hi} = {x}
      BY <1>1
    <2> HIDE DEF x
    <2>2. x.gen = r.at.gen /\ x.hi <= r.at.len
      BY <1>1 DEF x
    <2> QED BY <2>1, <2>2 DEF Covers
  <1> HIDE DEF new, x
  <1>6. Piecewise({new}) = {x}
    BY <1>3 DEF Piecewise
  <1>7. Whole({new})
    BY <1>3, <1>5, <1>6 DEF Whole, Longest
  <1>8. ~new.bad => Full({new})
    BY <1>3, <1>5, <1>6, <1>7 DEF Full
  <1>9. new.pieces # {} /\ new.bad \in BOOLEAN
    BY <1>3 DEF BlobOf, new
  <1>10. /\ Parse(r, by).rows = {new} /\ Parse(r, by).same = FALSE
         /\ Parse(r, by).ok = (~new.bad /\ new.pieces # {})
    BY <1>4
  <1>11. Parse(r, by).ok => Full({new})
    BY <1>8, <1>10
  <1>12. ~Parse(r, by).ok => new.bad
    BY <1>9, <1>10
  <1> QED BY <1>10, <1>11, <1>12 DEF Good

\* An append covers what the longest stored blob leaves open.
LEMMA AppendCovers ==
    ASSUME NEW S \in SUBSET Blob, NEW t \in Longest(S), NEW c \in Content,
           Covers(Piecewise(S), t.content), c.gen = t.content.gen, c.len > t.content.len,
           NEW x, x.gen = c.gen, x.lo = t.content.len, x.hi = c.len
    PROVE  Covers(Piecewise(S) \cup {x}, c)
  <1>1. t \in Blob
    BY DEF Longest
  <1>2. t.content.len \in Nat /\ c.len \in Nat
    BY <1>1, CodexSyncAssumption DEF Blob, Content
  <1>3. Piecewise(S) \in SUBSET Piece
    BY PiecesAreIn
  <1>4. \A z \in Piecewise(S) : z.hi \in Nat /\ z.lo \in Nat /\ z.hi <= t.content.len
                                /\ z.gen = c.gen
    BY <1>3, CodexSyncAssumption DEF Piece, Covers
  <1> DEFINE P == Piecewise(S)
             At(i) == {z \in P \cup {x} : z.lo < i /\ i <= z.hi}
  <1>5. ASSUME NEW i \in 1 .. c.len
        PROVE  \E z \in P \cup {x} : At(i) = {z}
    <2>1. CASE i <= t.content.len
      <3>1. i \in 1 .. t.content.len
        BY <1>2, <2>1
      <3>2. PICK w \in P : {z \in P : z.lo < i /\ i <= z.hi} = {w}
        BY <3>1 DEF Covers
      <3>3. ~(x.lo < i)
        BY <1>2, <2>1
      <3>4. At(i) = {w}
        BY <3>2, <3>3
      <3> QED BY <3>4
    <2>2. CASE ~(i <= t.content.len)
      <3>1. \A z \in P : ~(i <= z.hi)
        BY <1>2, <1>4, <2>2
      <3>2. x.lo < i /\ i <= x.hi
        BY <1>2, <2>2
      <3>3. At(i) = {x}
        BY <3>1, <3>2
      <3> QED BY <3>3
    <2> QED BY <2>1, <2>2
  <1>6. \A z \in P \cup {x} : z.gen = c.gen /\ z.hi <= c.len
    BY <1>2, <1>4
  <1> HIDE DEF P
  <1>7. Covers(P \cup {x}, c)
    BY <1>5, <1>6 DEF Covers
  <1> QED BY <1>7 DEF P

LEMMA AppendGood ==
    ASSUME NEW prev \in Prev, NEW r \in Reading, Straight(r), NEW by \in Versions,
           Whole(prev.blobs), CanAppend(prev, r)
    PROVE  Good(Append(prev, r, by))
  <1> DEFINE S == prev.blobs
             u == CHOOSE t \in Tail(S) : TRUE
             x == [gen |-> r.at.gen, lo |-> u.content.len, hi |-> r.at.len, by |-> by]
             new == BlobOf(r, Parsed(r, u.content.len, by))
             rows == {b \in S : b.pieces # {}} \cup {new}
  <1>1. S \in SUBSET Blob /\ r.at \in Content
    BY DEF Prev, Reading
  <1>2. PICK t \in Tail(S) :
            /\ r.at.len > t.content.len
            /\ r.at.gen = t.content.gen
            /\ ~t.content.torn
            /\ \A b \in S : ~b.bad
    BY DEF CanAppend, Straight
  <1>3. \A w \in Tail(S) : w \in Longest(S)
    BY DEF Tail
  <1>4. u \in Tail(S)
    BY <1>2
  <1>5. u \in Longest(S) /\ t \in Longest(S) /\ Longest(S) \subseteq S
    BY <1>3, <1>4, <1>2 DEF Longest
  <1>6. \A b \in S : b.content.len \in Nat
    BY <1>1, CodexSyncAssumption DEF Blob, Content
  <1>7. u.content.len = t.content.len
    <2> HIDE DEF u, S
    <2>1. u.content.len <= t.content.len /\ t.content.len <= u.content.len
      BY <1>5 DEF Longest
    <2>2. u.content.len \in Nat /\ t.content.len \in Nat
      BY <1>5, <1>6
    <2> QED BY <2>1, <2>2
  <1>8. Covers(Piecewise(S), t.content)
    BY <1>2, <1>5 DEF Whole
  <1>9. Parsed(r, u.content.len, by) = {x}
    BY DEF Straight, Parsed
  <1>10. new.pieces = {x} /\ new.content = r.at /\ (r.at.torn => new.bad)
    BY <1>9 DEF BlobOf, Straight
  <1>11. x.gen = r.at.gen /\ x.lo = t.content.len /\ x.hi = r.at.len
    BY <1>7
  <1>12. Append(prev, r, by) = [rows |-> rows, ok |-> ~new.bad, same |-> FALSE]
    BY DEF Append
  <1> HIDE DEF new, x, u
  <1>13. Piecewise(rows) = Piecewise(S) \cup {x}
    BY <1>10 DEF Piecewise
  <1>14. Covers(Piecewise(rows), r.at)
    BY <1>1, <1>2, <1>5, <1>8, <1>11, <1>13, AppendCovers
  <1>15. \A b \in Longest(rows) : b = new
    <2>1. r.at.len \in Nat
      BY <1>1, CodexSyncAssumption DEF Content
    <2>2. \A b \in S : b.content.len <= t.content.len
      BY <1>5 DEF Longest
    <2>3. \A b \in S : ~(new.content.len <= b.content.len)
      BY <1>2, <1>5, <1>6, <1>10, <2>1, <2>2
    <2>4. new \in rows
      OBVIOUS
    <2> QED BY <2>3, <2>4 DEF Longest
  <1>16. Whole(rows)
    BY <1>10, <1>14, <1>15 DEF Whole
  <1>17. ~new.bad => Full(rows)
    BY <1>10, <1>14, <1>16 DEF Full
  <1>18. new \in rows
    OBVIOUS
  <1>19. new.bad \in BOOLEAN
    BY DEF BlobOf, new
  <1> HIDE DEF rows
  <1>20. /\ Append(prev, r, by).rows = rows /\ Append(prev, r, by).same = FALSE
         /\ Append(prev, r, by).ok = ~new.bad
    BY <1>12
  <1>21. Append(prev, r, by).ok => Full(rows)
    BY <1>17, <1>20
  <1>22. ~Append(prev, r, by).ok => new.bad
    BY <1>19, <1>20
  <1> QED BY <1>18, <1>20, <1>21, <1>22 DEF Good

LEMMA ProbeGood ==
    ASSUME NEW prev \in Prev, NEW r \in Reading, Straight(r), NEW by \in Versions,
           prev.heavy => Whole(prev.blobs)
    PROVE  Good(Probe(prev, r, by))
  <1>1. Good(Nothing)
    BY DEF Good, Nothing
  <1>2. Good([rows |-> {BlobOf(r, {})}, ok |-> FALSE, same |-> TRUE])
    BY DEF Good
  <1>3. CanAppend(prev, r) => Good(Append(prev, r, by))
    BY AppendGood DEF CanAppend
  <1>4. Good(Parse(r, by))
    BY ParseGood
  <1> QED BY <1>1, <1>2, <1>3, <1>4 DEF Probe

----------------------------------------------------------------------------
(* Writing keeps it.                                                       *)

\* Completing the stat of a stored blob changes nothing that is shown.
LEMMA BackfillKeeps ==
    ASSUME NEW S \in SUBSET Blob, NEW n, NEW ps, Whole(S), ShowsOf(S, ps)
    PROVE  Whole(Backfilled(S, n)) /\ ShowsOf(Backfilled(S, n), ps)
  <1> DEFINE f(b) == IF b.content = n.content /\ ~b.stable /\ n.stable
                     THEN [b EXCEPT !.stat = n.stat, !.stable = TRUE] ELSE b
             T == Backfilled(S, n)
  <1>1. T = {f(b) : b \in S}
    BY DEF Backfilled
  <1>2. \A b \in S : f(b).content = b.content /\ f(b).pieces = b.pieces /\ f(b).bad = b.bad
    BY DEF Blob
  <1> HIDE DEF f, T
  <1>3. Piecewise(T) = Piecewise(S)
    BY <1>1, <1>2 DEF Piecewise
  <1>4. \A t \in Longest(T) : \E b \in Longest(S) : b.content = t.content
    BY <1>1, <1>2 DEF Longest
  <1>5. (\A b \in T : ~b.bad) => \A b \in S : ~b.bad
    BY <1>1, <1>2
  <1>6. Whole(T)
    BY <1>3, <1>4, <1>5 DEF Whole
  <1>7. ShowsOf(T, ps)
    BY <1>1, <1>2 DEF ShowsOf
  <1> QED BY <1>6, <1>7 DEF T

LEMMA WrittenWhole ==
    ASSUME NEW S \in SUBSET Blob, NEW res \in Result, NEW ps, Good(res), Whole(S), ShowsOf(S, ps)
    PROVE  /\ Whole(Written(S, res))
           /\ ShowsOf(Written(S, res), IF res.ok THEN Piecewise(res.rows) ELSE ps)
  <1>1. CASE res.ok
    BY <1>1 DEF Written, Good, Full, ShowsOf
  <1>2. CASE ~res.ok /\ res.same
    <2>1. PICK n \in res.rows : res.rows = {n}
      BY <1>2 DEF Good
    <2>2. Written(S, res) = Backfilled(S, n)
      BY <1>2, <2>1 DEF Written
    <2> QED BY <1>2, <2>2, BackfillKeeps
  <1>3. CASE ~res.ok /\ ~res.same
    <2>1. Written(S, res) = Upserted(S, res.rows)
      BY <1>3 DEF Written
    <2>2. CASE res.rows = {}
      <3>1. Upserted(S, res.rows) = S
        BY <2>2 DEF Upserted
      <3> QED BY <1>3, <2>1, <3>1
    <2>3. CASE \E b \in res.rows : b.bad
      <3>1. Whole(Upserted(S, res.rows))
        BY <2>3 DEF Whole, Upserted
      <3>2. \A b \in S : \E d \in Upserted(S, res.rows) : d.content = b.content
        BY DEF Upserted
      <3>3. ShowsOf(Upserted(S, res.rows), ps)
        BY <3>2 DEF ShowsOf
      <3> QED BY <1>3, <2>1, <3>1, <3>3
    <2> QED BY <1>3, <2>2, <2>3 DEF Good
  <1> QED BY <1>1, <1>2, <1>3

LEMMA WriteWhole ==
    ASSUME StoreOK, WholeStore, NEW files, NEW result \in [Path -> Result],
           \A p \in Path : Good(result[p]), WriteRows(files, result)
    PROVE  WholeStore'
  <1> SUFFICES ASSUME NEW p \in Path
               PROVE  Whole(blobs'[p]) /\ ShowsOf(blobs'[p], shown'[p])
    BY DEF WholeStore
  <1>1. blobs[p] \in SUBSET Blob /\ result[p] \in Result
    BY DEF StoreOK
  <1>2. /\ blobs'[p] = Written(blobs[p], result[p])
        /\ shown'[p] = IF result[p].ok THEN Piecewise(result[p].rows) ELSE shown[p]
    BY DEF WriteRows
  <1> QED BY <1>1, <1>2, WrittenWhole DEF WholeStore

LEMMA IdleWhole == WholeWork(Idle)
  <1>1. Good(Nothing)
    BY DEF Good, Nothing
  <1>2. \A p \in Path : Idle.prev[p] = NoPrev /\ Idle.result[p] = Nothing
    BY DEF Idle, NoPrevs, NoResult
  <1> QED BY <1>1, <1>2 DEF WholeWork, NoPrev

LEMMA DoneWhole ==
    ASSUME NEW y \in Sync, NEW pending \in BOOLEAN
    PROVE  WholeWork(Done(y, pending))
  <1>1. Done(y, pending).prev = Idle.prev /\ Done(y, pending).result = Idle.result
    BY DEF Done, Sync, Idle
  <1> QED BY <1>1, IdleWhole DEF WholeWork

\* One process goes on.
LEMMA WorkMoves ==
    ASSUME SyncOK, WholeSyncs, NEW s \in Proc, NEW y, WholeWork(y),
           sync' = [sync EXCEPT ![s] = y]
    PROVE  WholeSyncs'
  <1>1. \A t \in Proc : sync'[t] = IF t = s THEN y ELSE sync[t]
    BY DEF SyncOK
  <1>2. \A t \in Proc : WholeWork(sync'[t])
    BY <1>1 DEF WholeSyncs
  <1> QED BY <1>2 DEF WholeSyncs, WholeWork

LEMMA ReadWhole ==
    ASSUME Inv, WholeInv, NEW s \in Proc, NEW reading \in [Path -> Reading],
           \A p \in Path : Straight(reading[p]), Read(s, reading)
    PROVE  WholeInv'
  <1> DEFINE y == sync[s]
  <1>1. y \in Sync /\ WholeWork(y)
    BY DEF Inv, SyncOK, WholeInv, WholeSyncs
  <1>2. PICK result \in {[p \in Path |-> IF p \in y.batch
                                         THEN Probe(y.prev[p], reading[p], y.parser)
                                         ELSE Nothing]} :
            \/ Merge(s, result)
            \/ ProbeBatch(s, result, \E p \in y.batch : ~reading[p].ok)
    BY DEF Read
  <1>3. \A p \in Path : result[p] \in Result /\ Good(result[p])
    <2> TAKE p \in Path
    <2>1. result[p] = IF p \in y.batch THEN Probe(y.prev[p], reading[p], y.parser) ELSE Nothing
      BY <1>2
    <2>2. y.prev[p] \in Prev /\ reading[p] \in Reading /\ y.parser \in Versions
      BY <1>1 DEF Sync
    <2>3. y.prev[p].heavy => Whole(y.prev[p].blobs)
      BY <1>1 DEF WholeWork
    <2>4. Good(Nothing)
      BY DEF Good, Nothing
    <2> HIDE DEF y
    <2>5. Good(result[p])
      BY <2>1, <2>2, <2>3, <2>4, ProbeGood
    <2>6. result[p] \in Result
      BY <1>1, <2>1, ProbeResultAt
    <2> QED BY <2>5, <2>6
  <1>4. result \in [Path -> Result]
    BY <1>2, <1>3
  <1>5. CASE Merge(s, result)
    <2>1. WholeStore'
      BY <1>3, <1>4, <1>5, WriteWhole DEF Merge, Inv, WholeInv
    <2>2. sync' = [sync EXCEPT ![s] = Done(y, FALSE)]
      BY <1>5 DEF Merge
    <2>3. WholeSyncs'
      BY <1>1, <2>2, DoneWhole, WorkMoves DEF Inv, WholeInv
    <2> QED BY <2>1, <2>3 DEF WholeInv
  <1>6. CASE ProbeBatch(s, result, \E p \in y.batch : ~reading[p].ok)
    <2> DEFINE late == [y EXCEPT !.phase = "late", !.result = result]
    <2>1. WholeStore'
      BY <1>6 DEF ProbeBatch, store, WholeInv, WholeStore
    <2>2. late.prev = y.prev /\ late.result = result
      BY <1>1 DEF Sync
    <2>3. \/ sync' = [sync EXCEPT ![s] = Done(y, TRUE)]
          \/ sync' = [sync EXCEPT ![s] = late]
      BY <1>6 DEF ProbeBatch
    <2> HIDE DEF late, y
    <2>4. WholeWork(late)
      BY <1>1, <1>3, <2>2 DEF WholeWork
    <2>5. WholeWork(Done(y, TRUE))
      BY <1>1, DoneWhole
    <2>6. WholeSyncs'
      BY <2>3, <2>4, <2>5, WorkMoves DEF Inv, WholeInv
    <2> QED BY <2>1, <2>6 DEF WholeInv
  <1> QED BY <1>2, <1>5, <1>6

LEMMA StartWhole ==
    ASSUME Inv, WholeInv, NEW s \in Proc, Start(s)
    PROVE  WholeInv'
  <1>1. PICK y : /\ sync' = [sync EXCEPT ![s] = y]
                 /\ y.prev = Idle.prev /\ y.result = Idle.result
    <2>1. PICK limit \in Thresholds : sync' = [sync EXCEPT ![s] = [Idle EXCEPT
            !.phase = IF Present = {} THEN "merge" ELSE "batch",
            !.files = Present,
            !.todo = Present,
            !.tails = [p \in Path |-> Tail(blobs[p])],
            !.stage = stage,
            !.parser = parser,
            !.thin = Cardinality(UNION {{p} \X blobs[p] : p \in Path}) > limit]]
      BY DEF Start
    <2> DEFINE z == [Idle EXCEPT
            !.phase = IF Present = {} THEN "merge" ELSE "batch",
            !.files = Present,
            !.todo = Present,
            !.tails = [p \in Path |-> Tail(blobs[p])],
            !.stage = stage,
            !.parser = parser,
            !.thin = Cardinality(UNION {{p} \X blobs[p] : p \in Path}) > limit]
    <2>2. z.prev = Idle.prev /\ z.result = Idle.result
      BY NothingIsTyped DEF Sync
    <2>3. sync' = [sync EXCEPT ![s] = z]
      BY <2>1
    <2> HIDE DEF z
    <2> QED BY <2>2, <2>3
  <1>2. WholeWork(y)
    BY <1>1, IdleWhole DEF WholeWork
  <1>3. WholeSyncs'
    BY <1>1, <1>2, WorkMoves DEF Inv, WholeInv
  <1>4. WholeStore'
    BY DEF Start, store, WholeInv, WholeStore
  <1> QED BY <1>3, <1>4 DEF WholeInv

LEMMA LoadWhole ==
    ASSUME Inv, WholeInv, NEW s \in Proc, Load(s)
    PROVE  WholeInv'
  <1> DEFINE y == sync[s]
             prevs(B) == [p \in Path |-> IF p \in B THEN Previous(y, p) ELSE NoPrev]
             z(ph, B) == [y EXCEPT !.phase = ph, !.batch = B, !.prev = prevs(B)]
  <1>1. y \in Sync /\ WholeWork(y)
    BY DEF Inv, SyncOK, WholeInv, WholeSyncs
  <1>2. PICK B \in (SUBSET y.todo) \ {{}}, ph \in {"probe", "merge"} :
            sync' = [sync EXCEPT ![s].phase = ph, ![s].batch = B, ![s].prev = prevs(B)]
    BY DEF Load
  <1>3. sync' = [sync EXCEPT ![s] = z(ph, B)]
    BY <1>1, <1>2 DEF Inv, SyncOK, Sync
  <1>4. \A p \in Path : prevs(B)[p].heavy => prevs(B)[p].blobs = blobs[p]
    BY DEF Previous, NoPrev
  <1>5. z(ph, B).prev = prevs(B) /\ z(ph, B).result = y.result
    BY <1>1 DEF Sync
  <1> HIDE DEF z, prevs, y
  <1>6. WholeWork(z(ph, B))
    BY <1>1, <1>4, <1>5 DEF WholeWork, WholeInv, WholeStore
  <1>7. WholeSyncs'
    BY <1>3, <1>6, WorkMoves DEF Inv, WholeInv
  <1>8. WholeStore'
    BY DEF Load, store, WholeInv, WholeStore
  <1> QED BY <1>7, <1>8 DEF WholeInv

LEMMA LateWhole ==
    ASSUME Inv, WholeInv, NEW s \in Proc, LateMerge(s)
    PROVE  WholeInv'
  <1> DEFINE y == sync[s]
  <1>1. y \in Sync /\ WholeWork(y)
    BY DEF Inv, SyncOK, WholeInv, WholeSyncs
  <1>2. WriteRows(y.files, y.result) /\ sync' = [sync EXCEPT ![s] = Done(y, FALSE)]
    BY DEF LateMerge
  <1>3. y.result \in [Path -> Result] /\ \A p \in Path : Good(y.result[p])
    BY <1>1 DEF Sync, WholeWork
  <1> HIDE DEF y
  <1>4. WholeStore'
    BY <1>2, <1>3, WriteWhole DEF Inv, WholeInv
  <1>5. WholeSyncs'
    BY <1>1, <1>2, DoneWhole, WorkMoves DEF Inv, WholeInv
  <1> QED BY <1>4, <1>5 DEF WholeInv

\* Readings are straight as long as no file is large.
LEMMA ReadingsStraight ==
    ASSUME NoStreams, Inv, NEW s \in Proc,
           ReadQuietly(s) \/ ReadDuringEdit(s) \/ ReadFails(s)
    PROVE  \E reading \in [Path -> Reading] :
              (\A p \in Path : Straight(reading[p])) /\ Read(s, reading)
  <1>0. WorldOK
    BY DEF Inv
  <1>1. \A p \in Path : ~Large(file[p].content)
    BY CodexSyncAssumption DEF NoStreams, Large, Inv, WorldOK, Content
  <1>2. \A p \in Path : Quiet(p) \in Reading /\ Straight(Quiet(p))
    BY <1>0, QuietReading DEF Quiet, Straight
  <1>3. ASSUME NEW p \in Path, NEW r \in Reading, Straight(r),
               Read(s, [q \in Path |-> IF q = p THEN r ELSE Quiet(q)])
        PROVE  \E reading \in [Path -> Reading] :
                  (\A q \in Path : Straight(reading[q])) /\ Read(s, reading)
    <2> DEFINE reading == [q \in Path |-> IF q = p THEN r ELSE Quiet(q)]
    <2>1. reading \in [Path -> Reading] /\ \A q \in Path : Straight(reading[q])
      BY <1>2, <1>3
    <2>2. Read(s, reading)
      BY <1>3
    <2> HIDE DEF reading
    <2> QED BY <2>1, <2>2
  <1>4. CASE ReadQuietly(s)
    <2> DEFINE reading == [p \in Path |-> Quiet(p)]
    <2>1. reading \in [Path -> Reading] /\ \A q \in Path : Straight(reading[q])
      BY <1>2
    <2>2. Read(s, reading)
      BY <1>4 DEF ReadQuietly
    <2> HIDE DEF reading
    <2> QED BY <2>1, <2>2
  <1>5. CASE ReadDuringEdit(s)
    <2>1. PICK p \in Path, c \in Content :
            /\ Become(p, TRUE, c)
            /\ \E r \in {Overtaken(p, c, at) : at \in {file[p].content, c}} \cup
                        (IF Large(file[p].content) THEN {Reread(p, {c})} ELSE {}) :
                  Read(s, [q \in Path |-> IF q = p THEN r ELSE Quiet(q)])
      BY <1>5 DEF ReadDuringEdit, Present, Changes
    <2>2. PICK at \in {file[p].content, c} :
              Read(s, [q \in Path |-> IF q = p THEN Overtaken(p, c, at) ELSE Quiet(q)])
      BY <1>1, <2>1
    <2>3. at \in Content /\ edits < MaxEdits
      BY <1>0, <2>1 DEF WorldOK, Become
    <2>4. Overtaken(p, c, at) \in Reading
      BY <1>0, <2>3, OvertakenReading
    <2>5. Straight(Overtaken(p, c, at))
      BY <1>1 DEF Overtaken, Quiet, Straight
    <2> QED BY <1>3, <2>2, <2>4, <2>5
  <1>6. CASE ReadFails(s)
    <2>1. PICK p \in Path :
            \E r \in {Unreadable(p)} \cup (IF Large(file[p].content) THEN {Reread(p, {})} ELSE {}) :
                Read(s, [q \in Path |-> IF q = p THEN r ELSE Quiet(q)])
      BY <1>6 DEF ReadFails, Present
    <2>2. Read(s, [q \in Path |-> IF q = p THEN Unreadable(p) ELSE Quiet(q)])
      BY <1>1, <2>1
    <2>3. Unreadable(p) \in Reading /\ Straight(Unreadable(p))
      BY <1>0, QuietReading DEF Unreadable, Quiet, Straight
    <2> QED BY <1>3, <2>2, <2>3
  <1> QED BY <1>4, <1>5, <1>6

LEMMA WholeStep ==
    ASSUME NoStreams
    PROVE  Inv /\ WholeInv /\ [Next]_vars => WholeInv'
  <1> SUFFICES ASSUME Inv, WholeInv, [Next]_vars PROVE WholeInv'
    OBVIOUS
  <1>1. ASSUME UNCHANGED <<blobs, shown, sync>> PROVE WholeInv'
    BY <1>1 DEF WholeInv, WholeStore, WholeSyncs, WholeWork
  <1>2. ASSUME NEW s \in Proc, sync' = [sync EXCEPT ![s] = Idle], UNCHANGED <<blobs, shown>>
        PROVE  WholeInv'
    <2>1. WholeSyncs'
      BY <1>2, IdleWhole, WorkMoves DEF Inv, WholeInv
    <2>2. WholeStore'
      BY <1>2 DEF WholeInv, WholeStore
    <2> QED BY <2>1, <2>2 DEF WholeInv
  <1>3. ASSUME NEW s \in Proc, ReadQuietly(s) \/ ReadDuringEdit(s) \/ ReadFails(s)
        PROVE  WholeInv'
    BY <1>3, ReadingsStraight, ReadWhole
  <1>4. ASSUME NEW s \in Proc, Prune(s) \/ Crash(s) PROVE WholeInv'
    BY <1>2, <1>4 DEF Prune, Crash, store
  <1>5. CASE UNCHANGED vars \/ Upgrade \/ \E p \in Path : Edit(p) \/ Remove(p)
    BY <1>1, <1>5 DEF vars, store, Upgrade, Edit, Remove
  <1> QED BY <1>3, <1>4, <1>5, StartWhole, LoadWhole, LateWhole DEF Next, Step

LEMMA WholeInitially == Init => WholeInv
  <1> SUFFICES ASSUME Init PROVE WholeInv
    OBVIOUS
  <1>1. Whole({}) /\ ShowsOf({}, {})
    BY DEF Whole, Longest, ShowsOf
  <1>2. WholeStore
    BY <1>1 DEF Init, WholeStore
  <1>3. WholeSyncs
    BY IdleWhole DEF Init, WholeSyncs
  <1> QED BY <1>2, <1>3 DEF WholeInv

\* ShownIsOneCapture for any number of files, changes, failures and syncs that
\* overlap, where no file is read in a stream.  (One that is may grow between its
\* two reads: the run codex_large.)
THEOREM ShownIsAlwaysOneCapture ==
    ASSUME NoStreams
    PROVE  Spec => []ShownIsOneCapture
  <1>1. WholeInv => ShownIsOneCapture
    BY CoversMakesUp DEF WholeInv, WholeStore, ShowsOf, ShownIsOneCapture
  <1> QED BY <1>1, Initially, Preserved, WholeInitially, WholeStep, PTL DEF Spec
=============================================================================
