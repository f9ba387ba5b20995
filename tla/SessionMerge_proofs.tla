------------------------- MODULE SessionMerge_proofs -------------------------
(***************************************************************************)
(* The parser rows of a source hang together, each row is there once, and  *)
(* a certified source holds no row of an older parser for a file that is   *)
(* there: for any number of files, sessions, messages, edits and parsers.  *)
(*                                                                         *)
(* The argument follows a sync: what the probe of one file finds, what an  *)
(* attempt makes of all files, what the merge plans and writes of it, and  *)
(* what is written beside it.                                              *)
(*                                                                         *)
(* Then, where every stored row of a file names one session, a message     *)
(* leaves the records only by a rewrite of its file: an attempt widens     *)
(* once at most and then accounts for every row of a session it touches.   *)
(*                                                                         *)
(* Last, where no two files hold the same session, the store implements    *)
(* the contract Retention: a merge and the sidecars go file by file, and   *)
(* the records, turns, spans and ledger of a file always agree.            *)
(***************************************************************************)
EXTENDS SessionMerge, FiniteSetTheorems, WellFoundedInduction, TLAPS

-----------------------------------------------------------------------------
(* Numbers and sizes *)

\* A set of naturals has a least member.
LEMMA NatMin ==
  ASSUME NEW T \in SUBSET Nat, T # {}
  PROVE  \E t \in T : \A u \in T : t <= u
  <1> DEFINE Less == OpToRel(<, Nat)
  <1>1. IsWellFoundedOn(Less, Nat)
    BY NatLessThanWellFounded
  <1> HIDE DEF Less
  <1>2. PICK t \in T : \A u \in T : <<u, t>> \notin Less
    BY <1>1, WFMin
  <1>3. \A u \in T : ~(u < t)
    BY <1>2 DEF Less, OpToRel
  <1> QED BY <1>2, <1>3

\* A bounded set of naturals has a greatest member.
LEMMA NatMax ==
  ASSUME NEW T \in SUBSET Nat, T # {}, NEW n \in Nat, \A t \in T : t <= n
  PROVE  \E t \in T : \A u \in T : u <= t
  <1> DEFINE D == {n - t : t \in T}
  <1>0. \A t \in T : n - t \in Nat
    OBVIOUS
  <1>1. D \in SUBSET Nat /\ D # {}
    BY <1>0
  <1>2. PICK d \in D : \A e \in D : d <= e
    <2> HIDE DEF D
    <2> QED BY <1>1, NatMin
  <1>3. PICK t \in T : d = n - t
    OBVIOUS
  <1>4. \A u \in T : n - t <= n - u
    BY <1>2, <1>3
  <1> QED BY <1>4

\* The sizes of the contents in S have a bound.
Bounded(S) == \E n \in Nat : \A c \in S : SizeOf[c] <= n

\* Of contents whose sizes are bounded one is largest: what selectTailBlob
\* and the ledger choose is there.
LEMMA LargestContent ==
  ASSUME NEW S \in SUBSET Content, S # {}, Bounded(S)
  PROVE  \E c \in S : \A d \in S : SizeOf[d] <= SizeOf[c]
  <1> DEFINE T == {SizeOf[c] : c \in S}
  <1>1. T \in SUBSET Nat /\ T # {}
    BY SessionMergeAssumption
  <1>2. PICK n \in Nat : \A t \in T : t <= n
    BY DEF Bounded
  <1>3. PICK t \in T : \A u \in T : u <= t
    <2> HIDE DEF T
    <2> QED BY <1>1, <1>2, NatMax
  <1>4. PICK c \in S : t = SizeOf[c]
    OBVIOUS
  <1> QED BY <1>3, <1>4

\* The files as the tools leave them.
FilesWritten ==
    \A p \in Path : /\ file[p].time # 0
                    /\ file[p].content # Gone => PathOf[file[p].content] = p

\* A path has finitely many sizes, so that its tail is a stored blob.
StoredBounded == \A p \in Path : Bounded(Stored(p))

\* The invariant of a source.
IInv == TypeOK /\ FilesWritten /\ StoredBounded /\ RowsHangTogether /\ OneRowPerId

\* The tail of a path is one of its stored blobs, and none is larger.
LEMMA TailStored ==
  ASSUME StoredBounded, NEW p \in Path, Stored(p) # {}
  PROVE  Tail(p) \in Stored(p) /\ \A d \in Stored(p) : SizeOf[d] <= SizeOf[Tail(p)]
  <1>1. Stored(p) \in SUBSET Content /\ Bounded(Stored(p))
    BY DEF Stored, StoredBounded
  <1>2. \E c \in Stored(p) : \A d \in Stored(p) : SizeOf[d] <= SizeOf[c]
    BY <1>1, LargestContent
  <1> QED BY <1>2 DEF Tail

\* The clock of the file system shows a time.
LEMMA EditsTyped ==
  ASSUME TypeOK, NEW p \in Path
  PROVE  Edits \in Times
  <1> DEFINE times == {file[q].time : q \in Path}
  <1>1. times \in SUBSET Nat /\ times # {} /\ MaxEdits + 1 \in Nat /\ \A t \in times : t <= MaxEdits + 1
    BY SessionMergeAssumption DEF TypeOK, Times
  <1>2. \E t \in times : \A u \in times : u <= t
    <2> HIDE DEF times
    <2> QED BY <1>1, NatMax
  <1>3. Edits \in times
    BY <1>2 DEF Edits
  <1> QED BY <1>3 DEF TypeOK

-----------------------------------------------------------------------------
(* What a probe finds in a file *)

\* A blob that is stored, or what its file holds now.
Storable(b) ==
    /\ b \in Content \X Times /\ b[2] # 0
    /\ captured[b[1]] # 0 \/ b[1] = file[PathOf[b[1]]].content

\* A record of what a file that could be read holds now.
Fresh(r, in) ==
    /\ PathOf[r.blob] \in in.files \ in.broken
    /\ r.blob = file[PathOf[r.blob]].content
    /\ r.by = parser

\* The session of a record is one its file had before, or the one it names now.
Attributed(r, found) ==
    \/ r.session \in SessionsOf(RecordsOf(PathOf[r.blob]))
    \/ /\ r.session = SessionOf[r.blob]
       /\ \A b \in found : PathOf[b] = PathOf[r.blob] => b = r.blob /\ b \in Bad

\* What the probe of the file at p may find.
FileFound(f, p, in) ==
    /\ \A b \in f.blobs : Storable(b) /\ PathOf[b[1]] = p
    /\ \A r \in f.records : /\ r \in Record /\ PathOf[r.blob] = p
                            /\ \E b \in f.blobs : b[1] = r.blob
                            /\ r \in records \/ Fresh(r, in)
                            /\ Attributed(r, f.audits)
    /\ \A r, q \in f.records : SameRecord(r, q) => r = q
    /\ \A b \in f.audits : b \in Content /\ PathOf[b] = p
    /\ f.skipped \subseteq {p} /\ f.failed \subseteq {p} \cap in.broken

\* A file that an inventory lists has a content of its path.
LEMMA FileThere ==
  ASSUME IInv, NEW in \in SyncInputs, NEW p \in in.files
  PROVE  /\ p \in Path /\ file[p].content \in Content /\ PathOf[file[p].content] = p
         /\ file[p].time \in Times /\ file[p].time # 0 /\ parser \in Versions
  <1>1. p \in Path /\ file[p].content # Gone
    BY DEF SyncInputs
  <1> QED BY <1>1 DEF IInv, TypeOK, FilesWritten

\* The blobs a payload keeps of the store are storable.
LEMMA StoredBlobs ==
  ASSUME IInv, NEW S, \A c \in S : c \in Content /\ captured[c] # 0
  PROVE  \A b \in Kept(S) : Storable(b) /\ b[1] \in S
  BY DEF Kept, Storable, IInv, TypeOK, StoredPayload

\* A payload that keeps blobs keeps each of them.
LEMMA KeptCovers == \A S : \A c \in S : \E b \in Kept(S) : b[1] = c
  <1> SUFFICES ASSUME NEW S, NEW c \in S PROVE \E b \in Kept(S) : b[1] = c
    OBVIOUS
  <1>1. <<c, captured[c]>> \in Kept(S) /\ <<c, captured[c]>>[1] = c
    BY DEF Kept
  <1> QED BY <1>1

\* A record is offered for reuse at its path, and only there.
LEMMA StoredRecords ==
  ASSUME IInv, NEW p
  PROVE  /\ \A r \in RecordsOf(p) : r \in records /\ r \in Record /\ r.blob \in Stored(p) /\ PathOf[r.blob] = p
         /\ \A c \in Stored(p) : c \in Content /\ captured[c] # 0 /\ PathOf[c] = p
         /\ \A r \in records : r.blob \in Content /\ captured[r.blob] # 0 /\ r \in RecordsOf(PathOf[r.blob])
  BY DEF IInv, TypeOK, StoredPayload, RowsHangTogether, RecordsOf, Stored, Record

\* A full parse finds a session for its records, or audits the line that is bad.
LEMMA ParseFound ==
  ASSUME IInv, NEW in \in SyncInputs, NEW p \in in.files \ in.broken
  PROVE  FileFound(Parse(p), p, in)
  <1> DEFINE c == file[p].content
  <1>1. /\ p \in Path /\ c \in Content /\ PathOf[c] = p
        /\ file[p].time \in Times /\ file[p].time # 0 /\ parser \in Versions
    BY FileThere
  <1>2. /\ Parse(p).blobs = {<<c, file[p].time>>} /\ Parse(p).audits = Bad \cap {c}
        /\ Parse(p).records = {[session |-> SessionOf[c], blob |-> c, msg |-> m, by |-> parser] : m \in MsgsOf[c]}
        /\ Parse(p).skipped = {} /\ Parse(p).failed = {}
    BY DEF Parse, Found
  <1> HIDE DEF c
  <1>3. \A b \in Parse(p).blobs : Storable(b) /\ PathOf[b[1]] = p
    BY <1>1, <1>2 DEF Storable, c
  <1>4. \A r \in Parse(p).records : /\ r \in Record /\ r.blob = c /\ r.by = parser
                                    /\ r.session = SessionOf[c]
    BY <1>1, <1>2, SessionMergeAssumption DEF Record, Msgs
  <1>5. \A r \in Parse(p).records : \E b \in Parse(p).blobs : b[1] = r.blob
    BY <1>2, <1>4
  <1>6. \A r \in Parse(p).records : Fresh(r, in) /\ Attributed(r, Parse(p).audits)
    BY <1>1, <1>2, <1>4 DEF Fresh, Attributed, c
  <1>7. \A r, q \in Parse(p).records : SameRecord(r, q) => r = q
    BY <1>2 DEF SameRecord
  <1>8. \A b \in Parse(p).audits : b \in Content /\ PathOf[b] = p
    BY <1>1, <1>2
  <1> QED BY <1>1, <1>2, <1>3, <1>4, <1>5, <1>6, <1>7, <1>8 DEF FileFound

\* What is set aside for an absent contributor is what is stored.
LEMMA RetainFound ==
  ASSUME IInv, NEW in, NEW p
  PROVE  FileFound(Retain(p), p, in)
  <1>1. /\ Retain(p).blobs = Kept(Stored(p)) /\ Retain(p).audits = audits \cap Stored(p)
        /\ Retain(p).records = RecordsOf(p) /\ Retain(p).skipped = {} /\ Retain(p).failed = {}
    BY DEF Retain, Found
  <1>2. \A b \in Kept(Stored(p)) : Storable(b) /\ PathOf[b[1]] = p
    BY StoredRecords, StoredBlobs
  <1>3. \A r \in RecordsOf(p) : /\ r \in Record /\ PathOf[r.blob] = p /\ r \in records
                                /\ \E b \in Kept(Stored(p)) : b[1] = r.blob
    <2>1. \A r \in RecordsOf(p) : r \in Record /\ PathOf[r.blob] = p /\ r \in records /\ r.blob \in Stored(p)
      BY StoredRecords
    <2>2. \A d \in Stored(p) : \E b \in Kept(Stored(p)) : b[1] = d
      BY KeptCovers
    <2> QED BY <2>1, <2>2
  <1>4. \A r \in RecordsOf(p) : Attributed(r, audits \cap Stored(p))
    BY <1>3 DEF Attributed, SessionsOf
  <1>5. \A r, q \in RecordsOf(p) : SameRecord(r, q) => r = q
    BY <1>3 DEF IInv, OneRowPerId
  <1>6. \A b \in audits \cap Stored(p) : b \in Content /\ PathOf[b] = p
    BY StoredRecords
  <1> QED BY <1>1, <1>2, <1>3, <1>4, <1>5, <1>6 DEF FileFound

\* A file that is reused offers its stored rows, or only its tail blob.
LEMMA ReuseFound ==
  ASSUME IInv, NEW in \in SyncInputs, NEW p \in in.files, NEW heavy, NEW skip \in BOOLEAN,
         Stored(p) # {}, Tail(p) = file[p].content
  PROVE  FileFound(Reuse(p, heavy, skip), p, in)
  <1> DEFINE c == file[p].content
             f == Reuse(p, heavy, skip)
  <1>1. /\ p \in Path /\ c \in Content /\ PathOf[c] = p
        /\ file[p].time \in Times /\ file[p].time # 0
    BY FileThere
  <1>2. Storable(<<c, file[p].time>>)
    BY <1>1 DEF Storable
  <1>3. CASE ~HasPrevious(p, heavy)
    <2>1. /\ f.blobs \subseteq {<<c, file[p].time>>} /\ f.records = {} /\ f.audits = {}
          /\ f.skipped = {p} /\ f.failed = {}
      BY <1>3 DEF Reuse, Found
    <2>2. \A b \in f.blobs : Storable(b) /\ PathOf[b[1]] = p
      BY <1>1, <1>2, <2>1
    <2> QED BY <2>1, <2>2 DEF FileFound
  <1>4. CASE HasPrevious(p, heavy)
    <2>1. /\ f.blobs = Kept(Stored(p) \ {Tail(p)}) \cup {<<c, file[p].time>>}
          /\ f.records = RecordsOf(p) /\ f.audits = audits \cap Stored(p)
          /\ f.skipped \subseteq {p} /\ f.failed = {}
      BY <1>4 DEF Reuse, Found
    <2>2. FileFound(Retain(p), p, in) /\ Retain(p).records = RecordsOf(p)
          /\ Retain(p).audits = audits \cap Stored(p)
      BY RetainFound DEF Retain, Found
    <2>3. \A b \in f.blobs : Storable(b) /\ PathOf[b[1]] = p
      <3>1. \A b \in Kept(Stored(p) \ {Tail(p)}) : Storable(b) /\ b[1] \in Stored(p)
        BY StoredRecords, StoredBlobs
      <3>2. \A d \in Stored(p) : PathOf[d] = p
        BY StoredRecords
      <3>3. PathOf[<<c, file[p].time>>[1]] = p
        BY <1>1
      <3> QED BY <1>2, <2>1, <3>1, <3>2, <3>3
    <2>4. \A r \in f.records : \E b \in f.blobs : b[1] = r.blob
      <3> SUFFICES ASSUME NEW r \in f.records PROVE \E b \in f.blobs : b[1] = r.blob
        OBVIOUS
      <3>1. r.blob \in Stored(p)
        BY <2>1, StoredRecords
      <3>2. CASE r.blob = Tail(p)
        <4>1. <<c, file[p].time>> \in f.blobs /\ <<c, file[p].time>>[1] = r.blob
          BY <2>1, <3>2
        <4> QED BY <4>1
      <3>3. CASE r.blob # Tail(p)
        <4>1. \E b \in Kept(Stored(p) \ {Tail(p)}) : b[1] = r.blob
          BY <3>1, <3>3, KeptCovers
        <4> QED BY <2>1, <4>1
      <3> QED BY <3>2, <3>3
    <2> QED BY <2>1, <2>2, <2>3, <2>4 DEF FileFound
  <1> QED BY <1>3, <1>4

\* Appended lines are of a blob that is not stored, in a session that is.
LEMMA AppendFound ==
  ASSUME IInv, NEW in \in SyncInputs, NEW p \in in.files \ in.broken, NEW heavy, CanAppend(p, heavy)
  PROVE  FileFound(Append(p), p, in)
  <1> DEFINE c == file[p].content
             prev == RecordsOf(p)
             s == CHOOSE x \in SessionsOf(prev) : TRUE
             new == {[session |-> s, blob |-> c, msg |-> m, by |-> parser] : m \in MsgsOf[c] \ MsgsOf[Tail(p)]}
             f == Append(p)
  <1>1. /\ p \in Path /\ c \in Content /\ PathOf[c] = p
        /\ file[p].time \in Times /\ file[p].time # 0 /\ parser \in Versions
    BY FileThere
  <1>2. prev # {} /\ SizeOf[c] > SizeOf[Tail(p)]
    BY DEF CanAppend, HasPrevious
  <1>3. /\ f.blobs = Kept({r.blob : r \in prev}) \cup {<<c, file[p].time>>}
        /\ f.records = prev \cup new /\ f.audits = Bad \cap {c} /\ f.skipped = {} /\ f.failed = {}
    BY DEF Append, Found
  <1>4. s \in SessionsOf(prev)
    BY <1>2 DEF SessionsOf
  <1>5. s \in Session
    BY <1>4, StoredRecords DEF SessionsOf, Record
  <1>6. c \notin Stored(p)
    <2>1. Stored(p) # {}
      BY <1>2, StoredRecords
    <2>2. \A d \in Stored(p) : SizeOf[d] <= SizeOf[Tail(p)] /\ Tail(p) \in Stored(p)
      BY <1>1, <2>1, TailStored DEF IInv
    <2>3. SizeOf[c] \in Nat /\ SizeOf[Tail(p)] \in Nat
      BY <1>1, <2>1, <2>2, StoredRecords, SessionMergeAssumption
    <2> QED BY <1>2, <2>2, <2>3
  <1> HIDE DEF s
  <1>7. \A r \in new : r \in Record /\ r.session = s /\ r.blob = c /\ r.by = parser
    BY <1>1, <1>5, SessionMergeAssumption DEF Record, Msgs
  <1>8. \A r, q \in new : SameRecord(r, q) => r = q
    BY DEF SameRecord
  <1> HIDE DEF new
  <1>9. \A r \in prev : r \in records /\ r \in Record /\ r.blob \in Stored(p) /\ PathOf[r.blob] = p
    BY StoredRecords
  <1>10. \A b \in f.blobs : Storable(b) /\ PathOf[b[1]] = p
    <2>1. \A b \in Kept({r.blob : r \in prev}) : Storable(b) /\ b[1] \in {r.blob : r \in prev}
      BY <1>9, StoredRecords, StoredBlobs
    <2>2. Storable(<<c, file[p].time>>)
      BY <1>1 DEF Storable
    <2> QED BY <1>1, <1>3, <1>9, <2>1, <2>2
  <1>11. \A r \in f.records : \E b \in f.blobs : b[1] = r.blob
    <2>1. \A r \in prev : \E b \in Kept({q.blob : q \in prev}) : b[1] = r.blob
      BY KeptCovers
    <2>2. \A r \in new : <<c, file[p].time>>[1] = r.blob
      BY <1>7
    <2> QED BY <1>3, <2>1, <2>2
  <1>12. \A r \in f.records : r \in Record /\ PathOf[r.blob] = p /\ (r \in records \/ Fresh(r, in))
    BY <1>1, <1>3, <1>7, <1>9 DEF Fresh
  <1>13. \A r \in f.records : Attributed(r, f.audits)
    <2>1. \A r \in f.records : PathOf[r.blob] = p /\ r.session \in SessionsOf(prev)
      BY <1>1, <1>3, <1>4, <1>7, <1>9 DEF SessionsOf
    <2> QED BY <2>1 DEF Attributed
  <1>14. \A r, q \in f.records : SameRecord(r, q) => r = q
    <2>1. \A r \in prev, q \in new : r.blob # q.blob
      BY <1>6, <1>7, <1>9
    <2>2. \A r, q \in prev : SameRecord(r, q) => r = q
      BY <1>9 DEF IInv, OneRowPerId
    <2> QED BY <1>3, <1>8, <2>1, <2>2 DEF SameRecord
  <1>15. \A b \in f.audits : b \in Content /\ PathOf[b] = p
    BY <1>1, <1>3
  <1> QED BY <1>3, <1>10, <1>11, <1>12, <1>13, <1>14, <1>15 DEF FileFound

\* The probe of one file, whichever way it goes.
LEMMA ProbeFileFound ==
  ASSUME IInv, NEW in \in SyncInputs, NEW p \in in.files, NEW heavy
  PROVE  FileFound(ProbeFile(p, heavy, in.broken, in.old), p, in)
  <1> DEFINE reuse == ProfileMatches /\ Stored(p) # {} /\ Tail(p) = file[p].content
  <1>1. CASE p \in in.broken
    BY <1>1 DEF ProbeFile, Found, FileFound
  <1>2. CASE p \notin in.broken /\ reuse
    BY <1>2, ReuseFound DEF ProbeFile, SyncInputs, StatsMatch
  <1>3. CASE p \notin in.broken /\ ~reuse /\ CanAppend(p, heavy)
    BY <1>3, AppendFound DEF ProbeFile
  <1>4. CASE p \notin in.broken /\ ~reuse /\ ~CanAppend(p, heavy)
    BY <1>4, ParseFound DEF ProbeFile
  <1> QED BY <1>1, <1>2, <1>3, <1>4


-----------------------------------------------------------------------------
(* What a sync finds in all files *)

\* The payload of one file or of all is found as its rows say.
PayloadFound(found, in) ==
    /\ \A b \in found.blobs : Storable(b)
    /\ \A r \in found.records : /\ r \in Record
                                /\ r.blob \in BlobIds(found)
                                /\ r \in records \/ Fresh(r, in)
                                /\ Attributed(r, found.audits)
    /\ \A r, q \in found.records : SameRecord(r, q) => r = q
    /\ found.audits \subseteq Content
    /\ found.failed \subseteq in.broken

\* The probe of all files: the findings of two files do not meet.
LEMMA ProbeFound ==
  ASSUME IInv, NEW in \in SyncInputs, NEW heavy, NEW kept, kept \cap in.files = {}
  PROVE  PayloadFound(Probe(in, heavy, kept), in)
  <1> DEFINE Entry(p) == IF p \in in.files THEN ProbeFile(p, heavy, in.broken, in.old) ELSE Retain(p)
             F == {Entry(p) : p \in in.files \cup kept}
             found == Probe(in, heavy, kept)
  <1>1. F = {ProbeFile(p, heavy, in.broken, in.old) : p \in in.files} \cup {Retain(p) : p \in kept}
    OBVIOUS
  <1>2. /\ found.blobs = UNION {f.blobs : f \in F} /\ found.records = UNION {f.records : f \in F}
        /\ found.audits = UNION {f.audits : f \in F} /\ found.failed = UNION {f.failed : f \in F}
    BY <1>1 DEF Probe, Join, Found
  <1>3. \A p \in in.files \cup kept : FileFound(Entry(p), p, in)
    BY ProbeFileFound, RetainFound
  <1> HIDE DEF Entry
  <1>4. \A b \in found.blobs : Storable(b)
    BY <1>2, <1>3 DEF FileFound
  <1>5. \A r \in found.records : \E p \in in.files \cup kept : r \in Entry(p).records /\ PathOf[r.blob] = p
    BY <1>2, <1>3 DEF FileFound
  <1>6. \A r \in found.records : r \in Record /\ (r \in records \/ Fresh(r, in))
    BY <1>3, <1>5 DEF FileFound
  <1>7. \A r \in found.records : r.blob \in BlobIds(found)
    <2>1. \A r \in found.records : \E b \in found.blobs : b[1] = r.blob
      BY <1>2, <1>3, <1>5 DEF FileFound
    <2> QED BY <2>1 DEF BlobIds
  <1>8. \A b \in found.audits : b \in Content /\ b \in Entry(PathOf[b]).audits
    BY <1>2, <1>3 DEF FileFound
  <1>9. \A r \in found.records : Attributed(r, found.audits)
    BY <1>3, <1>5, <1>8 DEF FileFound, Attributed
  <1>10. \A r, q \in found.records : SameRecord(r, q) => r = q
    BY <1>3, <1>5 DEF FileFound, SameRecord
  <1>11. found.failed \subseteq in.broken
    BY <1>2, <1>3 DEF FileFound
  <1> QED BY <1>4, <1>6, <1>7, <1>8, <1>9, <1>10, <1>11 DEF PayloadFound

\* When the parser is another one every file that can be read is parsed.
Reparsed(found, in) ==
    /\ found.skipped = {}
    /\ \A r \in found.records : Fresh(r, in)
    /\ \A p \in in.files : p \in found.failed \/ p \in PathsOf(BlobIds(found))

\* No probe under another parser reuses anything.
LEMMA ProbeReparses ==
  ASSUME IInv, NEW in \in SyncInputs, NEW heavy, ~ProfileMatches
  PROVE  Reparsed(Probe(in, heavy, {}), in)
  <1> DEFINE Entry(p) == ProbeFile(p, heavy, in.broken, in.old)
             F == {Entry(p) : p \in in.files}
             found == Probe(in, heavy, {})
  <1>1. /\ found.blobs = UNION {f.blobs : f \in F} /\ found.records = UNION {f.records : f \in F}
        /\ found.skipped = UNION {f.skipped : f \in F} /\ found.failed = UNION {f.failed : f \in F}
    BY DEF Probe, Join, Found
  <1>2. \A p \in in.files : Entry(p) = IF p \in in.broken THEN Found({}, {}, {}, {}, {p}) ELSE Parse(p)
    BY DEF ProbeFile, CanAppend, HasPrevious
  <1> HIDE DEF Entry
  <1>3. \A p \in in.files : Entry(p).skipped = {}
    BY <1>2 DEF Found, Parse
  <1>4. \A p \in in.files : \A r \in Entry(p).records : Fresh(r, in)
    BY <1>2, FileThere DEF Found, Parse, Fresh
  <1>5. \A p \in in.files : p \in Entry(p).failed \/ <<file[p].content, file[p].time>> \in Entry(p).blobs
    BY <1>2 DEF Found, Parse
  <1>6. ASSUME NEW p \in in.files
        PROVE  p \in found.failed \/ p \in PathsOf(BlobIds(found))
    <2>1. CASE p \in Entry(p).failed
      BY <1>1, <2>1
    <2>2. CASE <<file[p].content, file[p].time>> \in Entry(p).blobs
      <3>1. <<file[p].content, file[p].time>> \in found.blobs
        BY <1>1, <2>2
      <3>2. file[p].content \in BlobIds(found)
        BY <3>1 DEF BlobIds
      <3> QED BY <3>2, FileThere DEF PathsOf
    <2> QED BY <1>5, <2>1, <2>2
  <1> QED BY <1>1, <1>3, <1>4, <1>6 DEF Reparsed

-----------------------------------------------------------------------------
(* The widening of an attempt *)

\* An attempt is a record of its fields.
AttemptRecord(a) ==
    a = [heavy |-> a.heavy, retained |-> a.retained, unvisited |-> a.unvisited, done |-> a.done,
         preserved |-> a.preserved, refused |-> a.refused, payload |-> a.payload]

\* The payload of one of the probes, of no file set aside but those in kept.
FromProbe(payload, in, kept) ==
    \E heavy, some : payload = Probe(in, heavy, some) /\ some \subseteq kept

\* What every attempt satisfies, however often it was widened.
Widened(a, in) ==
    /\ AttemptRecord(a)
    /\ FromProbe(a.payload, in, a.retained)
    /\ a.retained \cap in.files = {}
    /\ a.retained \subseteq a.preserved /\ a.preserved \subseteq a.retained \cup a.payload.skipped
    /\ a.unvisited \cap in.files = {}
    /\ a.refused = a.unvisited \cup a.payload.failed
    /\ ~ProfileMatches => a.retained = {}

\* A probe is one of the probes.
LEMMA ProbeOf ==
  ASSUME NEW in, NEW heavy, NEW kept
  PROVE  FromProbe(Probe(in, heavy, kept), in, kept)
  BY DEF FromProbe

\* One more probe.
LEMMA AgainKeeps ==
  ASSUME NEW in, NEW a, Widened(a, in), NEW affected, NEW k
  PROVE  Widened(ProbeAgain(a, in, affected, k), in)
  <1> DEFINE retained == Retained(a, in, affected)
             unvisited == Unvisited(a, in, affected)
             heavy == Load(a, in, affected, k)
             again == Probe(in, heavy, retained)
             w == ProbeAgain(a, in, affected, k)
  <1>1. /\ retained \cap in.files = {} /\ unvisited \cap in.files = {}
        /\ ~ProfileMatches => retained = {}
    BY DEF Widened, Retained, Unvisited, Outside, Reusable
  <1>2. w = [heavy |-> heavy, retained |-> retained, unvisited |-> unvisited, done |-> FALSE,
             preserved |-> retained \cup again.skipped, refused |-> unvisited \cup again.failed,
             payload |-> again]
    BY DEF ProbeAgain
  <1>3. FromProbe(again, in, retained)
    BY ProbeOf
  <1> HIDE DEF heavy, retained, unvisited, again, w
  <1>4. Widened(w, in)
    BY <1>1, <1>2, <1>3 DEF Widened, AttemptRecord
  <1> QED BY <1>4 DEF w

\* No more probe.
LEMMA SettleKeeps ==
  ASSUME NEW in, NEW a, Widened(a, in), NEW affected
  PROVE  Widened(Settle(a, in, affected), in)
  <1> DEFINE retained == Retained(a, in, affected)
             unvisited == Unvisited(a, in, affected)
             w == Settle(a, in, affected)
  <1>1. /\ retained \cap in.files = {} /\ unvisited \cap in.files = {} /\ a.retained \subseteq retained
        /\ a.unvisited \subseteq unvisited /\ (~ProfileMatches => retained = {})
    BY DEF Widened, Retained, Unvisited, Outside, Reusable
  <1>2. w = [a EXCEPT !.retained = retained, !.unvisited = unvisited, !.done = TRUE,
                      !.preserved = @ \cup retained, !.refused = @ \cup unvisited]
    BY DEF Settle
  <1> HIDE DEF retained, unvisited, w
  <1>3. /\ w.retained = retained /\ w.unvisited = unvisited /\ w.preserved = a.preserved \cup retained
        /\ w.refused = a.refused \cup unvisited /\ w.payload = a.payload /\ AttemptRecord(w)
    BY <1>2 DEF Widened, AttemptRecord
  <1>4. FromProbe(a.payload, in, retained)
    BY <1>1 DEF Widened, FromProbe
  <1>5. Widened(w, in)
    BY <1>1, <1>3, <1>4 DEF Widened
  <1> QED BY <1>5 DEF w

\* One more expansion.
LEMMA WidenKeeps ==
  ASSUME NEW in, NEW a, Widened(a, in), NEW affected, NEW k
  PROVE  Widened(Widen(a, in, affected, k), in)
  BY AgainKeeps, SettleKeeps DEF Widen

\* What the merge may rely on.
AttemptFound(a, in) ==
    /\ PayloadFound(a.payload, in)
    /\ a.retained \cap in.files = {}
    /\ a.retained \subseteq a.preserved
    /\ a.unvisited \cap in.files = {}
    /\ a.refused = (a.unvisited \cup a.payload.failed) \cup PathsOf(a.payload.audits \cap BlobIds(a.payload))
    /\ ~ProfileMatches => a.preserved = {} /\ a.retained = {} /\ Reparsed(a.payload, in)

\* The attempt of a sync, whatever was stored and whatever the files hold.
LEMMA AttemptMade ==
  ASSUME IInv, NEW in \in SyncInputs
  PROVE  AttemptFound(Attempt(in), in)
  <1> DEFINE heavy == IF ProfileMatches /\ ~Thin
                      THEN {p \in in.files : p \in in.broken \/ ~StatsMatch(p)} ELSE {}
             first == Probe(in, heavy, {})
             affected == PathsOf(BlobIds(first)) \ first.skipped
             a0 == [heavy |-> heavy, retained |-> {}, unvisited |-> {}, done |-> FALSE,
                    preserved |-> first.skipped, refused |-> first.failed, payload |-> first]
             a == Widen(Widen(Widen(a0, in, affected, 1), in, affected, 2), in, affected, 3)
             w == Attempt(in)
  <1>1. w = [a EXCEPT !.refused = @ \cup PathsOf(a.payload.audits \cap BlobIds(a.payload))]
    BY DEF Attempt
  <1>2. Widened(a0, in)
    <2>1. FromProbe(first, in, {})
      BY ProbeOf
    <2> HIDE DEF first, heavy
    <2> QED BY <2>1 DEF Widened, AttemptRecord
  <1> HIDE DEF a0, affected
  <1>3. Widened(a, in)
    BY <1>2, WidenKeeps
  <1> HIDE DEF a
  <1>4. /\ w.payload = a.payload /\ w.retained = a.retained /\ w.preserved = a.preserved
        /\ w.unvisited = a.unvisited
        /\ w.refused = a.refused \cup PathsOf(a.payload.audits \cap BlobIds(a.payload))
    BY <1>1, <1>3 DEF Widened, AttemptRecord
  <1>5. PICK h, kept : a.payload = Probe(in, h, kept) /\ kept \subseteq a.retained
    BY <1>3 DEF Widened, FromProbe
  <1>6. PayloadFound(a.payload, in)
    <2>1. kept \cap in.files = {}
      BY <1>3, <1>5 DEF Widened
    <2> QED BY <1>5, <2>1, ProbeFound
  <1>7. ~ProfileMatches => a.preserved = {} /\ a.retained = {} /\ Reparsed(a.payload, in)
    <2> SUFFICES ASSUME ~ProfileMatches PROVE a.preserved = {} /\ a.retained = {} /\ Reparsed(a.payload, in)
      OBVIOUS
    <2>1. a.retained = {} /\ kept = {}
      BY <1>3, <1>5 DEF Widened
    <2>2. Reparsed(a.payload, in)
      BY <1>5, <2>1, ProbeReparses
    <2> QED BY <1>3, <2>1, <2>2 DEF Widened, Reparsed
  <1> QED BY <1>3, <1>4, <1>6, <1>7 DEF AttemptFound, Widened


-----------------------------------------------------------------------------
(* What the merge of the parser rows plans *)

\* Stored paths that a complete inventory did not find.
Absent(a, in) == IF in.complete THEN {p \in Path : Stored(p) # {}} \ Observed(a, in) ELSE {}

\* Paths whose rows the merge may not take away from a session.
Held(a, in) == a.refused \cup Absent(a, in)

\* What a plan keeps to.
Planned(p, a, in) ==
    /\ p.replace \subseteq PathsOf(BlobIds(a.payload)) /\ p.replace \cap Held(a, in) = {}
    /\ \A r \in records : PathOf[r.blob] \in p.replace => r.session \in p.changed
    /\ \A r \in records : PathOf[r.blob] \in Held(a, in) => r.session \in p.shared
    /\ \A s \in p.shared : \E r \in records : r.session = s /\ PathOf[r.blob] \in Held(a, in)
    /\ \A r \in a.payload.records :
          PathOf[r.blob] \notin p.preserve \cup a.refused => r.session \in p.changed

\* The plan replaces no path that is refused or absent, and every session with
\* a row at one of those is shared.
LEMMA PlanMade ==
  ASSUME IInv, NEW in \in SyncInputs, NEW a, AttemptFound(a, in)
  PROVE  Planned(Plan(a, in), a, in)
  <1> DEFINE found == PathsOf(BlobIds(a.payload))
             open == (found \ a.preserved) \ a.refused
             replace == {p \in open : SessionsAt(Current, {p}) \cap SessionsAt(Current, a.refused) = {}}
             preserve == a.preserved \cup (open \ replace)
             new == SessionsOf({r \in a.payload.records :
                       PathOf[r.blob] \notin a.preserved \cup a.refused \cup (open \ replace)})
             changed == SessionsAt(Current, replace) \cup new
             shared == SessionsAt(Current, Held(a, in))
             p == Plan(a, in)
  <1>1. p = [replace |-> replace, preserve |-> preserve, changed |-> changed, shared |-> shared]
    BY DEF Plan, Held, Absent
  <1>2. \A S : SessionsAt(Current, S) = SessionsOf({r \in records : captured[r.blob] # 0 /\ PathOf[r.blob] \in S})
    BY DEF SessionsAt, Current
  <1>3. \A S, r : r \in records /\ PathOf[r.blob] \in S => r.session \in SessionsAt(Current, S)
    BY <1>2, StoredRecords DEF SessionsOf
  <1>4. \A S : \A s \in SessionsAt(Current, S) : \E r \in records : r.session = s /\ PathOf[r.blob] \in S
    BY <1>2 DEF SessionsOf
  <1>5. open \cap a.retained = {}
    BY DEF AttemptFound
  <1>6. found \ a.retained \subseteq Observed(a, in)
    BY DEF Observed
  <1>7. replace \subseteq found /\ replace \cap Held(a, in) = {}
    BY <1>5, <1>6 DEF Held, Absent
  <1>8. \A r \in a.payload.records : PathOf[r.blob] \notin preserve \cup a.refused => r.session \in new
    BY DEF SessionsOf
  <1>9. /\ \A r \in records : PathOf[r.blob] \in replace => r.session \in changed
        /\ \A r \in records : PathOf[r.blob] \in Held(a, in) => r.session \in shared
        /\ \A s \in shared : \E r \in records : r.session = s /\ PathOf[r.blob] \in Held(a, in)
    BY <1>3, <1>4
  <1>10. p.replace = replace /\ p.preserve = preserve /\ p.changed = changed /\ p.shared = shared
    BY <1>1
  <1> HIDE DEF replace, preserve, new, shared, p
  <1>11. Planned(p, a, in)
    BY <1>7, <1>8, <1>9, <1>10 DEF Planned
  <1> QED BY <1>11 DEF p

\* A file that is refused although it was read has a line that does not parse.
LEMMA RefusedIsBad ==
  ASSUME IInv, NEW in \in SyncInputs, NEW a, AttemptFound(a, in),
         NEW r \in a.payload.records, PathOf[r.blob] \in a.refused
  PROVE  \/ r.session \in SessionsOf(RecordsOf(PathOf[r.blob]))
         \/ \E b \in Bad : SessionOf[b] = r.session
  <1>1. /\ r \in records \/ Fresh(r, in)
        /\ Attributed(r, a.payload.audits)
    BY DEF AttemptFound, PayloadFound
  <1>2. CASE r \in records
    BY <1>2, StoredRecords DEF SessionsOf
  <1>3. CASE Fresh(r, in) /\ r.session \notin SessionsOf(RecordsOf(PathOf[r.blob]))
    <2>1. PathOf[r.blob] \in PathsOf(a.payload.audits \cap BlobIds(a.payload))
      BY <1>3 DEF AttemptFound, PayloadFound, Fresh
    <2>2. PICK b \in a.payload.audits : PathOf[b] = PathOf[r.blob]
      BY <2>1 DEF PathsOf
    <2>3. b \in Bad /\ b = r.blob /\ r.session = SessionOf[r.blob]
      BY <1>1, <1>3, <2>2 DEF Attributed
    <2> QED BY <2>3
  <1> QED BY <1>1, <1>2, <1>3

-----------------------------------------------------------------------------
(* What the merge of the parser rows writes *)

\* Rows to be written are a record of the tables.
Rows(W) == W = [captured |-> W.captured, records |-> W.records, audits |-> W.audits,
                sessions |-> W.sessions, ledger |-> W.ledger, spans |-> W.spans, turns |-> W.turns]

\* What mergeSourcePayloadByOriginPath makes of the plan p.
Merged(W, a, p) ==
    /\ Rows(W)
    /\ W.records = {r \in {q \in records : ~Drops(p, Old(p), q)} :
                      ~\E q \in Incoming(a, p) : SameRecord(r, q)} \cup Incoming(a, p)
    /\ W.captured = [c \in Content |->
          IF c \in {b[1] : b \in BlobsWritten(a, p)}
          THEN (CHOOSE b \in BlobsWritten(a, p) : b[1] = c)[2]
          ELSE IF c \in Old(p) THEN 0 ELSE captured[c]]
    /\ W.audits \subseteq audits \cup a.payload.audits
    /\ W.sessions = [s \in Session |->
          IF s \in SessionsOf(a.payload.records) \cap p.changed THEN "current"
          ELSE IF s \in p.changed \ p.shared THEN "none" ELSE sessions[s]]
    /\ W.ledger = ledger /\ W.spans = spans /\ W.turns \subseteq turns

\* The rows of the merge, by table.
LEMMA MergeMade ==
  ASSUME NEW a, NEW in
  PROVE  Merged(MergeRows(a, in), a, Plan(a, in))
  <1> DEFINE p == Plan(a, in)
             W == MergeRows(a, in)
             recs == {r \in {q \in records : ~Drops(p, Old(p), q)} :
                      ~\E q \in Incoming(a, p) : SameRecord(r, q)} \cup Incoming(a, p)
             caps == [c \in Content |->
                 IF c \in {b[1] : b \in BlobsWritten(a, p)}
                 THEN (CHOOSE b \in BlobsWritten(a, p) : b[1] = c)[2]
                 ELSE IF c \in Old(p) THEN 0 ELSE captured[c]]
             auds == {b \in audits : SessionOf[b] \notin p.changed \ p.shared /\ b \notin Old(p)}
                           \cup {b \in a.payload.audits :
                                   b \in {d[1] : d \in BlobsWritten(a, p)} \/ SessionOf[b] \in p.changed}
             sess == [s \in Session |->
                 IF s \in SessionsOf(a.payload.records) \cap p.changed THEN "current"
                 ELSE IF s \in p.changed \ p.shared THEN "none" ELSE sessions[s]]
             ts == {t \in turns : t.session \notin p.changed \ p.shared}
  <1>1. W = [Current EXCEPT !.records = recs, !.captured = caps, !.audits = auds, !.sessions = sess, !.turns = ts]
    BY DEF MergeRows
  <1>2. auds \subseteq audits \cup a.payload.audits /\ ts \subseteq turns
    OBVIOUS
  <1> HIDE DEF W, recs, caps, auds, sess, ts
  <1>3. /\ W.records = recs /\ W.captured = caps /\ W.audits = auds /\ W.sessions = sess /\ W.turns = ts
        /\ W.ledger = ledger /\ W.spans = spans /\ Rows(W)
    BY <1>1 DEF Current, Rows
  <1> QED BY <1>2, <1>3 DEF Merged, W, recs, caps, sess

\* A blob that is written has a time, and is stored or in its file.
LEMMA WrittenBlob ==
  ASSUME NEW a, NEW in, AttemptFound(a, in), NEW p, NEW c \in {b[1] : b \in BlobsWritten(a, p)}
  PROVE  (CHOOSE b \in BlobsWritten(a, p) : b[1] = c)[2] \in Times \ {0}
         /\ c \in Content /\ (captured[c] # 0 \/ c = file[PathOf[c]].content)
  <1>1. \A b \in BlobsWritten(a, p) : Storable(b)
    BY DEF BlobsWritten, AttemptFound, PayloadFound
  <1>2. PICK d \in BlobsWritten(a, p) : d[1] = c
    OBVIOUS
  <1>3. (CHOOSE b \in BlobsWritten(a, p) : b[1] = c) \in BlobsWritten(a, p)
    BY <1>2
  <1> QED BY <1>1, <1>2, <1>3 DEF Storable

\* A record that is kept keeps its blob and its session, and a record that is
\* written comes with them.
LEMMA MergedRowsNameRows ==
  ASSUME IInv, NEW in \in SyncInputs, NEW a, AttemptFound(a, in), NEW p, Planned(p, a, in),
         NEW W, Merged(W, a, p), NEW r \in W.records
  PROVE  r \in Record /\ W.captured[r.blob] # 0 /\ W.sessions[r.session] # "none"
  <1> DEFINE written == {b[1] : b \in BlobsWritten(a, p)}
  <1>1. \A c \in Content : /\ c \in written => W.captured[c] # 0
                           /\ c \notin Old(p) /\ captured[c] # 0 => W.captured[c] # 0
    <2> SUFFICES ASSUME NEW c \in Content
                 PROVE  /\ c \in written => W.captured[c] # 0
                        /\ c \notin Old(p) /\ captured[c] # 0 => W.captured[c] # 0
      OBVIOUS
    <2>1. W.captured[c] = IF c \in written THEN (CHOOSE b \in BlobsWritten(a, p) : b[1] = c)[2]
                          ELSE IF c \in Old(p) THEN 0 ELSE captured[c]
      BY DEF Merged
    <2>2. c \in written => (CHOOSE b \in BlobsWritten(a, p) : b[1] = c)[2] # 0
      BY WrittenBlob
    <2> HIDE DEF written
    <2> QED BY <2>1, <2>2
  <1>2. \A s \in Session : /\ s \in SessionsOf(a.payload.records) \cap p.changed => W.sessions[s] # "none"
                           /\ s \notin p.changed \ p.shared /\ sessions[s] # "none" => W.sessions[s] # "none"
    BY DEF Merged
  <1>3. CASE r \in Incoming(a, p)
    <2>1. /\ r \in a.payload.records /\ r \in Record /\ r.blob \in BlobIds(a.payload)
          /\ r.session \in p.changed
      BY <1>3 DEF Incoming, AttemptFound, PayloadFound, Planned
    <2>2. PICK b \in a.payload.blobs : b[1] = r.blob
      BY <2>1 DEF BlobIds
    <2>3. b \in BlobsWritten(a, p)
      BY <1>3, <2>2 DEF BlobsWritten
    <2>4. r.blob \in written /\ r.blob \in Content /\ r.session \in Session
      BY <2>1, <2>2, <2>3 DEF Record
    <2>5. r.session \in SessionsOf(a.payload.records)
      BY <2>1 DEF SessionsOf
    <2> HIDE DEF written
    <2> QED BY <1>1, <1>2, <2>1, <2>4, <2>5
  <1>4. CASE r \in records /\ ~Drops(p, Old(p), r)
    <2>1. r \in Record /\ captured[r.blob] # 0 /\ sessions[r.session] # "none"
      BY <1>4 DEF IInv, TypeOK, StoredPayload, RowsHangTogether
    <2>2. r.blob \in Content /\ r.session \in Session
      BY <2>1 DEF Record
    <2>3. r.blob \notin Old(p)
      BY <1>4 DEF Drops, Planned, Old
    <2>4. r.session \notin p.changed \ p.shared
      BY <1>4 DEF Drops
    <2> QED BY <1>1, <1>2, <2>1, <2>2, <2>3, <2>4
  <1> QED BY <1>3, <1>4 DEF Merged

\* A session that is stored has a record, or its file does not parse.
LEMMA MergedSessionsHaveRows ==
  ASSUME IInv, NEW in \in SyncInputs, NEW a, AttemptFound(a, in), NEW p, Planned(p, a, in),
         NEW W, Merged(W, a, p), NEW s \in Session, W.sessions[s] # "none"
  PROVE  s \in SessionsOf(W.records) \/ \E b \in Bad : SessionOf[b] = s
  <1> DEFINE whole == p.changed \ p.shared
  <1>1. \A r \in Incoming(a, p) : r.session = s => s \in SessionsOf(W.records)
    BY DEF Merged, SessionsOf
  <1>2. \A r \in records : r.session = s /\ ~Drops(p, Old(p), r) => s \in SessionsOf(W.records)
    BY DEF Merged, SessionsOf, SameRecord
  <1>3. \A r \in records : r.session = s /\ PathOf[r.blob] \in Held(a, in) => s \in SessionsOf(W.records)
    BY <1>2 DEF Planned, Drops, Old
  <1>4. CASE s \in SessionsOf(a.payload.records) \cap p.changed
    <2>1. PICK r \in a.payload.records : r.session = s
      BY <1>4 DEF SessionsOf
    <2>2. CASE r \in Incoming(a, p)
      BY <1>1, <2>1, <2>2
    <2>3. CASE r \notin Incoming(a, p)
      <3>1. PathOf[r.blob] \in a.refused
        BY <1>4, <2>1, <2>3 DEF Incoming
      <3>2. \/ s \in SessionsOf(RecordsOf(PathOf[r.blob]))
            \/ \E b \in Bad : SessionOf[b] = s
        BY <2>1, <3>1, RefusedIsBad
      <3>3. ASSUME s \in SessionsOf(RecordsOf(PathOf[r.blob]))
            PROVE  s \in SessionsOf(W.records)
        <4>1. PICK q \in RecordsOf(PathOf[r.blob]) : q.session = s
          BY <3>3 DEF SessionsOf
        <4>2. q \in records /\ PathOf[q.blob] \in Held(a, in)
          BY <3>1, <4>1, StoredRecords DEF Held
        <4> QED BY <1>3, <4>1, <4>2
      <3> QED BY <3>2, <3>3
    <2> QED BY <2>2, <2>3
  <1>5. CASE s \notin SessionsOf(a.payload.records) \cap p.changed
    <2>1. s \notin whole /\ sessions[s] # "none"
      BY <1>5 DEF Merged
    <2>2. s \in SessionsOf(records) \/ \E b \in Bad : SessionOf[b] = s
      BY <2>1 DEF IInv, RowsHangTogether
    <2>3. ASSUME s \in SessionsOf(records)
          PROVE  s \in SessionsOf(W.records)
      <3>1. PICK r \in records : r.session = s
        BY <2>3 DEF SessionsOf
      <3>2. CASE s \notin p.changed
        BY <1>2, <3>1, <3>2 DEF Drops
      <3>3. CASE s \in p.shared
        BY <1>3, <3>3 DEF Planned
      <3> QED BY <2>1, <3>2, <3>3
    <2> QED BY <2>2, <2>3
  <1> QED BY <1>4, <1>5

\* What the merge of the parser rows leaves.
ParserRows(W) ==
    /\ W.captured \in [Content -> Times]
    /\ W.records \subseteq Record
    /\ W.audits \subseteq Content
    /\ W.sessions \in [Session -> Axis \cup {"none"}]
    /\ \A c \in Content : W.captured[c] # 0 => captured[c] # 0 \/ c = file[PathOf[c]].content
    /\ \A r \in W.records : W.captured[r.blob] # 0 /\ W.sessions[r.session] # "none"
    /\ \A s \in Session : W.sessions[s] # "none" =>
          s \in SessionsOf(W.records) \/ \E b \in Bad : SessionOf[b] = s
    /\ \A r, q \in W.records : SameRecord(r, q) => r = q

\* The parser rows hang together after the merge as they did before.
LEMMA MergedParserRows ==
  ASSUME IInv, NEW in \in SyncInputs, NEW a, AttemptFound(a, in), NEW p, Planned(p, a, in),
         NEW W, Merged(W, a, p)
  PROVE  ParserRows(W)
  <1> DEFINE written == {b[1] : b \in BlobsWritten(a, p)}
             time(c) == IF c \in written THEN (CHOOSE b \in BlobsWritten(a, p) : b[1] = c)[2]
                        ELSE IF c \in Old(p) THEN 0 ELSE captured[c]
  <1>1. W.captured = [c \in Content |-> time(c)]
    BY DEF Merged
  <1>2. \A c \in Content : time(c) \in Times
    <2> SUFFICES ASSUME NEW c \in Content PROVE time(c) \in Times
      OBVIOUS
    <2>1. c \in written => (CHOOSE b \in BlobsWritten(a, p) : b[1] = c)[2] \in Times
      BY WrittenBlob
    <2>2. captured[c] \in Times /\ 0 \in Times
      BY SessionMergeAssumption DEF IInv, TypeOK, StoredPayload, Times
    <2> HIDE DEF written
    <2> QED BY <2>1, <2>2
  <1>3. \A c \in Content : c \in written => captured[c] # 0 \/ c = file[PathOf[c]].content
    BY WrittenBlob
  <1>4. \A c \in Content : time(c) # 0 => captured[c] # 0 \/ c = file[PathOf[c]].content
    <2> HIDE DEF written
    <2> QED BY <1>3
  <1> HIDE DEF time
  <1>5. W.captured \in [Content -> Times]
    BY <1>1, <1>2
  <1>6. \A c \in Content : W.captured[c] # 0 => captured[c] # 0 \/ c = file[PathOf[c]].content
    BY <1>1, <1>4
  <1>7. W.audits \subseteq Content
    BY DEF Merged, AttemptFound, PayloadFound, IInv, TypeOK, StoredPayload
  <1>8. W.sessions \in [Session -> Axis \cup {"none"}]
    BY DEF Merged, Axis, IInv, TypeOK, StoredPayload
  <1>9. \A r, q \in W.records : SameRecord(r, q) => r = q
    <2>1. \A r, q \in Incoming(a, p) : SameRecord(r, q) => r = q
      BY DEF Incoming, AttemptFound, PayloadFound
    <2>2. \A r, q \in records : SameRecord(r, q) => r = q
      BY DEF IInv, OneRowPerId
    <2> QED BY <2>1, <2>2 DEF Merged, SameRecord
  <1>10. \A r \in W.records : r \in Record /\ W.captured[r.blob] # 0 /\ W.sessions[r.session] # "none"
    BY MergedRowsNameRows
  <1>11. \A s \in Session : W.sessions[s] # "none" =>
            s \in SessionsOf(W.records) \/ \E b \in Bad : SessionOf[b] = s
    BY MergedSessionsHaveRows
  <1> QED BY <1>5, <1>6, <1>7, <1>8, <1>9, <1>10, <1>11 DEF ParserRows


-----------------------------------------------------------------------------
(* The projection *)

\* Positions are numbers, and later messages have larger ones.
LEMMA BeforeGrows ==
  ASSUME NEW S \in SUBSET Nat, NEW u \in S, NEW v \in Nat
  PROVE  /\ Cardinality(Before(S, v)) \in Nat
         /\ u < v => Cardinality(Before(S, u)) < Cardinality(Before(S, v))
  <1>1. \A n \in Nat : IsFiniteSet(Before(S, n)) /\ Cardinality(Before(S, n)) \in Nat
    <2> SUFFICES ASSUME NEW n \in Nat
                 PROVE  IsFiniteSet(Before(S, n)) /\ Cardinality(Before(S, n)) \in Nat
      OBVIOUS
    <2>1. Before(S, n) \in SUBSET Nat /\ \A x \in Before(S, n) : x <= n
      <3>1. ASSUME NEW x \in Before(S, n)
            PROVE  x \in Nat /\ x <= n
        <4>1. x \in S /\ x < n
          BY DEF Before
        <4>2. x \in Nat
          BY <4>1
        <4> QED BY <4>1, <4>2
      <3> QED BY <3>1
    <2>2. IsFiniteSet(Before(S, n))
      BY <2>1, FS_BoundedSetOfNaturals
    <2> QED BY <2>2, FS_CardinalityType
  <1>2. ASSUME u < v
        PROVE  Cardinality(Before(S, u)) < Cardinality(Before(S, v))
    <2>1. Before(S, u) \in SUBSET Before(S, v) /\ Before(S, u) # Before(S, v)
      <3>1. u \in Before(S, v) /\ u \notin Before(S, u)
        BY <1>2 DEF Before
      <3>2. \A x \in Before(S, u) : x \in Before(S, v)
        BY <1>2 DEF Before
      <3> QED BY <3>1, <3>2
    <2>2. /\ Cardinality(Before(S, u)) <= Cardinality(Before(S, v))
          /\ Cardinality(Before(S, v)) = Cardinality(Before(S, u)) => Before(S, v) = Before(S, u)
      BY <1>1, <2>1, FS_Subset
    <2> QED BY <1>1, <2>1, <2>2
  <1> QED BY <1>1, <1>2

\* A turn has its position in its session for a name.
LEMMA ProjectionUnique ==
  ASSUME NEW rs \in SUBSET Record
  PROVE  /\ Project(rs) \subseteq Turn
         /\ \A t, u \in Project(rs) : SameTurn(t, u) => t = u
  <1> DEFINE MsgsIn(s) == {r.msg : r \in {q \in rs : q.session = s}}
             TurnMsgs(s, u) == {m \in MsgsIn(s) : m >= u /\ \A v \in Starts(MsgsIn(s)) : v > u => m < v}
             TurnBlobs(s, u) == {r.blob : r \in {q \in rs : q.session = s /\ q.msg \in TurnMsgs(s, u)}}
             Position(s, u) == Cardinality(Before(Starts(MsgsIn(s)), u))
             TurnFrom(s, u) == [session |-> s, n |-> Position(s, u), msgs |-> TurnMsgs(s, u),
                                blobs |-> TurnBlobs(s, u), axis |-> "current"]
  <1>1. Project(rs) = UNION {{TurnFrom(s, u) : u \in Starts(MsgsIn(s))} : s \in SessionsOf(rs)}
    BY DEF Project
  <1>2. \A s : MsgsIn(s) \subseteq Msgs /\ MsgsIn(s) \subseteq Nat /\ Starts(MsgsIn(s)) \subseteq MsgsIn(s)
    BY SessionMergeAssumption DEF Record, Msgs, Starts
  <1>3. SessionsOf(rs) \subseteq Session
    BY DEF SessionsOf, Record
  <1>4. \A s, u : TurnMsgs(s, u) \in SUBSET Msgs /\ TurnBlobs(s, u) \in SUBSET Content
    BY <1>2 DEF Record
  <1> HIDE DEF MsgsIn, TurnMsgs, TurnBlobs
  <1>5. \A s : \A u \in Starts(MsgsIn(s)) : Position(s, u) \in Nat
    <2> SUFFICES ASSUME NEW s, NEW u \in Starts(MsgsIn(s)) PROVE Position(s, u) \in Nat
      OBVIOUS
    <2>1. Starts(MsgsIn(s)) \in SUBSET Nat /\ u \in Nat
      BY <1>2
    <2> QED BY <2>1, BeforeGrows
  <1>6. \A s : \A u, v \in Starts(MsgsIn(s)) : Position(s, u) = Position(s, v) => u = v
    <2> SUFFICES ASSUME NEW s, NEW u \in Starts(MsgsIn(s)), NEW v \in Starts(MsgsIn(s)),
                        Position(s, u) = Position(s, v)
                 PROVE  u = v
      OBVIOUS
    <2>1. Starts(MsgsIn(s)) \in SUBSET Nat /\ u \in Nat /\ v \in Nat
      BY <1>2
    <2>2. Position(s, u) \in Nat /\ (u < v => Position(s, u) < Position(s, v))
      BY <2>1, BeforeGrows
    <2>3. Position(s, v) \in Nat /\ (v < u => Position(s, v) < Position(s, u))
      BY <2>1, BeforeGrows
    <2> HIDE DEF Position
    <2> QED BY <2>1, <2>2, <2>3
  <1> HIDE DEF Position
  <1>7. \A t \in Project(rs) : \E s \in Session : \E u \in Starts(MsgsIn(s)) : t = TurnFrom(s, u)
    <2> HIDE DEF TurnFrom
    <2> QED BY <1>1, <1>3
  <1>8. Project(rs) \subseteq Turn
    BY <1>4, <1>5, <1>7 DEF Turn, Axis
  <1>9. \A t, u \in Project(rs) : SameTurn(t, u) => t = u
    BY <1>6, <1>7 DEF SameTurn
  <1> QED BY <1>8, <1>9

-----------------------------------------------------------------------------
(* The second side of the store *)

\* What is written beside the parser rows.
Sidecars(W) ==
    /\ W.ledger \in [Path -> [blob : Content \cup {Gone}, refs : SUBSET Session, axis : Axis]]
    /\ W.spans \subseteq Span
    /\ W.turns \subseteq Turn
    /\ \A t, u \in W.turns : SameTurn(t, u) => t = u

\* What is stored is parser rows and sidecars.
LEMMA CurrentRows ==
  ASSUME IInv
  PROVE  Rows(Current) /\ Sidecars(Current) /\ ParserRows(Current)
  <1>1. /\ Current.captured = captured /\ Current.records = records /\ Current.audits = audits
        /\ Current.sessions = sessions /\ Current.ledger = ledger /\ Current.spans = spans
        /\ Current.turns = turns /\ Rows(Current)
    BY DEF Current, Rows
  <1> QED BY <1>1 DEF Sidecars, ParserRows, IInv, TypeOK, StoredPayload, RowsHangTogether, OneRowPerId

\* Presence only moves the axis of rows that are there.
LEMMA ReconcileKeeps ==
  ASSUME NEW W, Rows(W), ParserRows(W), Sidecars(W), NEW observed
  PROVE  /\ Rows(Reconcile(W, observed))
         /\ ParserRows(Reconcile(W, observed))
         /\ Sidecars(Reconcile(W, observed))
         /\ Reconcile(W, observed).records = W.records
  <1> DEFINE axisOf(p) == IF p \in observed THEN "current" ELSE "source_absent"
             known == {p \in Path : HasLedger(W, p)}
             from(s) == {p \in known : s \in LedgerSessions(W, {p})}
             axis(s, other) == IF from(s) = {} THEN other
                               ELSE IF from(s) \cap observed # {} THEN "current" ELSE "source_absent"
             led == [p \in Path |-> IF p \in known THEN [W.ledger[p] EXCEPT !.axis = axisOf(p)] ELSE W.ledger[p]]
             sess == [s \in Session |-> IF W.sessions[s] = "none" THEN "none" ELSE axis(s, W.sessions[s])]
             moved(t) == [t EXCEPT !.axis = axis(t.session, t.axis)]
             ts == {moved(t) : t \in W.turns}
             R == Reconcile(W, observed)
  <1>1. R = [W EXCEPT !.ledger = led, !.sessions = sess, !.turns = ts]
    BY DEF Reconcile
  <1>2. \A s, other : axis(s, other) \in Axis \cup {other}
    BY DEF Axis
  <1> HIDE DEF axis, from
  <1>3. led \in [Path -> [blob : Content \cup {Gone}, refs : SUBSET Session, axis : Axis]]
    <2>1. \A p \in Path : axisOf(p) \in Axis
      BY DEF Axis
    <2> HIDE DEF axisOf, known
    <2> QED BY <2>1 DEF Sidecars
  <1>4. sess \in [Session -> Axis \cup {"none"}]
    <2>1. \A s \in Session : W.sessions[s] \in Axis \cup {"none"}
      BY DEF ParserRows
    <2> QED BY <1>2, <2>1
  <1>5. \A s \in Session : sess[s] # "none" <=> W.sessions[s] # "none"
    <2>1. \A s \in Session : W.sessions[s] \in Axis \cup {"none"}
      BY DEF ParserRows
    <2>2. "none" \notin Axis
      BY DEF Axis
    <2> QED BY <1>2, <2>1, <2>2
  <1>6. \A t \in W.turns : moved(t) \in Turn /\ moved(t).session = t.session /\ moved(t).n = t.n
    <2> SUFFICES ASSUME NEW t \in W.turns
                 PROVE  moved(t) \in Turn /\ moved(t).session = t.session /\ moved(t).n = t.n
      OBVIOUS
    <2>1. t \in Turn
      BY DEF Sidecars
    <2>2. axis(t.session, t.axis) \in Axis
      BY <1>2, <2>1 DEF Turn
    <2> QED BY <2>1, <2>2 DEF Turn
  <1> HIDE DEF moved
  <1>7. ts \subseteq Turn /\ \A t, u \in ts : SameTurn(t, u) => t = u
    <2>1. \A t, u \in W.turns : SameTurn(t, u) => t = u
      BY DEF Sidecars
    <2>2. \A t \in ts : \E u \in W.turns : t = moved(u)
      OBVIOUS
    <2> HIDE DEF ts
    <2> QED BY <1>6, <2>1, <2>2 DEF SameTurn
  <1> HIDE DEF led, sess, ts, R
  <1>8. /\ R.captured = W.captured /\ R.records = W.records /\ R.audits = W.audits /\ R.sessions = sess
        /\ R.ledger = led /\ R.spans = W.spans /\ R.turns = ts /\ Rows(R)
    BY <1>1 DEF Rows
  <1>9. Sidecars(R)
    BY <1>3, <1>7, <1>8 DEF Sidecars
  <1>10. ParserRows(R)
    <2>1. \A r \in R.records : R.sessions[r.session] # "none"
      BY <1>5, <1>8 DEF ParserRows, Record
    <2>2. \A s \in Session : R.sessions[s] # "none" =>
             s \in SessionsOf(R.records) \/ \E b \in Bad : SessionOf[b] = s
      BY <1>5, <1>8 DEF ParserRows
    <2> QED BY <1>4, <1>8, <2>1, <2>2 DEF ParserRows
  <1> QED BY <1>8, <1>9, <1>10 DEF R

\* The blobs found in one file have a largest one.
LEMMA LedgerTyped ==
  ASSUME IInv, NEW in, NEW a, AttemptFound(a, in), NEW W, Sidecars(W), NEW keep
  PROVE  UpsertLedger(W, a.payload, keep)
            \in [Path -> [blob : Content \cup {Gone}, refs : SUBSET Session, axis : Axis]]
  <1> DEFINE blobs(p) == {b \in BlobIds(a.payload) : PathOf[b] = p}
             last(p) == CHOOSE b \in blobs(p) : \A d \in blobs(p) : SizeOf[d] <= SizeOf[b]
             refs(p) == SessionsOf({r \in a.payload.records : r.blob = last(p)})
             row(p) == IF blobs(p) = {} \/ (p \in keep /\ HasLedger(W, p)) THEN W.ledger[p]
                       ELSE [blob |-> last(p), axis |-> "current", refs |-> refs(p)]
  <1>1. UpsertLedger(W, a.payload, keep) = [p \in Path |-> row(p)]
    BY DEF UpsertLedger
  <1>2. ASSUME NEW p \in Path, blobs(p) # {}
        PROVE  last(p) \in Content
    <2>1. \A b \in blobs(p) : b \in Content /\ b \in Stored(p) \cup {file[p].content}
      BY DEF BlobIds, AttemptFound, PayloadFound, Storable, Stored
    <2>2. PICK n \in Nat : \A c \in Stored(p) : SizeOf[c] <= n
      BY DEF IInv, StoredBounded, Bounded
    <2>3. Bounded(blobs(p))
      <3>1. CASE file[p].content \in Content
        <4>1. SizeOf[file[p].content] \in Nat /\ n + SizeOf[file[p].content] \in Nat
          BY <3>1, SessionMergeAssumption
        <4>2. \A c \in Stored(p) : SizeOf[c] \in Nat
          BY SessionMergeAssumption DEF Stored
        <4>3. \A b \in blobs(p) : SizeOf[b] <= n + SizeOf[file[p].content]
          BY <2>1, <2>2, <4>1, <4>2
        <4> HIDE DEF blobs
        <4> QED BY <4>1, <4>3 DEF Bounded
      <3>2. CASE file[p].content \notin Content
        BY <2>1, <2>2, <3>2 DEF Bounded
      <3> QED BY <3>1, <3>2
    <2>4. \E c \in blobs(p) : \A d \in blobs(p) : SizeOf[d] <= SizeOf[c]
      <3>1. blobs(p) \in SUBSET Content
        BY <2>1
      <3> HIDE DEF blobs
      <3> QED BY <1>2, <2>3, <3>1, LargestContent
    <2> HIDE DEF blobs
    <2>5. last(p) \in blobs(p)
      BY <2>4
    <2> QED BY <2>1, <2>5
  <1>3. \A p : refs(p) \in SUBSET Session
    BY DEF SessionsOf, AttemptFound, PayloadFound, Record
  <1> HIDE DEF blobs, last, refs
  <1>4. \A p \in Path : row(p) \in [blob : Content \cup {Gone}, refs : SUBSET Session, axis : Axis]
    BY <1>2, <1>3 DEF Sidecars, Axis
  <1> HIDE DEF row
  <1> QED BY <1>1, <1>4

\* The rows of the second side are written beside the parser rows.
LEMMA SidecarsWritten ==
  ASSUME IInv, NEW in, NEW a, AttemptFound(a, in), NEW W, Rows(W), ParserRows(W), Sidecars(W)
  PROVE  /\ ParserRows(WriteSidecars(W, a, in))
         /\ Sidecars(WriteSidecars(W, a, in))
         /\ WriteSidecars(W, a, in).records = W.records
  <1> DEFINE X == Clear(W, a, in)
             Y == IF in.complete THEN Reconcile(X, Observed(a, in)) ELSE X
             new == NewTurns(W, a, in)
             led == UpsertLedger(Y, a.payload, Closed(W, a))
             sp == {SpanOf(r) : r \in {q \in a.payload.records :
                       PathOf[q.blob] \notin Closed(W, a) /\ q.session \notin RefusedSessions(W, a)}}
             Z == WriteSidecars(W, a, in)
  <1>1. Z = [Y EXCEPT !.ledger = led, !.spans = @ \cup sp,
                      !.turns = {t \in @ : ~\E u \in new : SameTurn(t, u)} \cup new]
    BY DEF WriteSidecars
  <1>2. Rows(X) /\ ParserRows(X) /\ Sidecars(X) /\ X.records = W.records
    <2>1. PICK ts, ss : X = [W EXCEPT !.turns = @ \ ts, !.spans = @ \ ss]
      BY DEF Clear
    <2> HIDE DEF X
    <2>2. /\ X.captured = W.captured /\ X.records = W.records /\ X.audits = W.audits
          /\ X.sessions = W.sessions /\ X.ledger = W.ledger /\ X.spans = W.spans \ ss
          /\ X.turns = W.turns \ ts /\ Rows(X)
      BY <2>1 DEF Rows
    <2> QED BY <2>2 DEF ParserRows, Sidecars
  <1> HIDE DEF X
  <1>3. Rows(Y) /\ ParserRows(Y) /\ Sidecars(Y) /\ Y.records = W.records
    BY <1>2, ReconcileKeeps
  <1>4. new \subseteq Turn /\ \A t, u \in new : SameTurn(t, u) => t = u
    <2>1. a.payload.records \in SUBSET Record
      BY DEF AttemptFound, PayloadFound
    <2>2. new \subseteq Project(a.payload.records)
      BY DEF NewTurns
    <2> HIDE DEF new
    <2> QED BY <2>1, <2>2, ProjectionUnique
  <1> HIDE DEF Y
  <1>5. led \in [Path -> [blob : Content \cup {Gone}, refs : SUBSET Session, axis : Axis]]
    BY <1>3, LedgerTyped
  <1>6. sp \subseteq Span
    BY DEF SpanOf, Span, AttemptFound, PayloadFound, Record
  <1> HIDE DEF new, led, sp, Z
  <1>7. /\ Z.captured = Y.captured /\ Z.records = Y.records /\ Z.audits = Y.audits
        /\ Z.sessions = Y.sessions /\ Z.ledger = led /\ Z.spans = Y.spans \cup sp
        /\ Z.turns = {t \in Y.turns : ~\E u \in new : SameTurn(t, u)} \cup new
    BY <1>1, <1>3 DEF Rows
  <1>8. ParserRows(Z)
    BY <1>3, <1>7 DEF ParserRows
  <1>9. Sidecars(Z)
    <2>1. \A t, u \in Z.turns : SameTurn(t, u) => t = u
      BY <1>3, <1>4, <1>7 DEF Sidecars, SameTurn
    <2> QED BY <1>3, <1>4, <1>5, <1>6, <1>7, <2>1 DEF Sidecars
  <1> QED BY <1>3, <1>7, <1>8, <1>9 DEF Z


-----------------------------------------------------------------------------
(* A sync *)

\* The first sync of a source.
LEMMA ReplaceWritten ==
  ASSUME IInv, NEW in, NEW a, AttemptFound(a, in)
  PROVE  ParserRows(Replace(a)) /\ Sidecars(Replace(a))
  <1> DEFINE W == Replace(a)
             caps == [c \in Content |-> IF c \in BlobIds(a.payload) THEN file[PathOf[c]].time ELSE 0]
             sess == [s \in Session |-> IF s \in SessionsOf(a.payload.records) THEN "current" ELSE "none"]
             led == UpsertLedger(Current, a.payload, {})
             sp == {SpanOf(r) : r \in {q \in a.payload.records : PathOf[q.blob] \notin a.refused}}
             new == {t \in Project(a.payload.records) : \A b \in t.blobs : PathOf[b] \notin a.refused}
  <1>1. /\ W.captured = caps /\ W.records = a.payload.records /\ W.audits = a.payload.audits
        /\ W.sessions = sess /\ W.ledger = led /\ W.spans = sp /\ W.turns = new
    BY DEF Replace
  <1>2. /\ a.payload.records \in SUBSET Record /\ a.payload.audits \subseteq Content
        /\ \A r \in a.payload.records : r.blob \in BlobIds(a.payload)
        /\ \A r, q \in a.payload.records : SameRecord(r, q) => r = q
        /\ \A b \in a.payload.blobs : Storable(b)
    BY DEF AttemptFound, PayloadFound
  <1>3. \A c \in BlobIds(a.payload) : captured[c] # 0 \/ c = file[PathOf[c]].content
    BY <1>2 DEF BlobIds, Storable
  <1>4. \A c \in Content : file[PathOf[c]].time \in Times /\ file[PathOf[c]].time # 0 /\ 0 \in Times
    BY SessionMergeAssumption DEF IInv, TypeOK, FilesWritten, Times
  <1>5. ParserRows(W)
    <2>1. caps \in [Content -> Times]
      BY <1>4
    <2>2. \A r \in a.payload.records : caps[r.blob] # 0 /\ sess[r.session] # "none"
      BY <1>2, <1>4 DEF Record, SessionsOf
    <2>3. \A s \in Session : sess[s] # "none" => s \in SessionsOf(a.payload.records)
      OBVIOUS
    <2>4. sess \in [Session -> Axis \cup {"none"}]
      BY DEF Axis
    <2>5. \A c \in Content : caps[c] # 0 => captured[c] # 0 \/ c = file[PathOf[c]].content
      BY <1>3
    <2> HIDE DEF caps, sess
    <2> QED BY <1>1, <1>2, <2>1, <2>2, <2>3, <2>4, <2>5 DEF ParserRows
  <1>6. Sidecars(W)
    <2>1. led \in [Path -> [blob : Content \cup {Gone}, refs : SUBSET Session, axis : Axis]]
      BY CurrentRows, LedgerTyped
    <2>2. sp \subseteq Span
      BY <1>2 DEF SpanOf, Span, Record
    <2>3. new \subseteq Turn /\ \A t, u \in new : SameTurn(t, u) => t = u
      BY <1>2, ProjectionUnique
    <2> HIDE DEF led, sp, new
    <2> QED BY <1>1, <2>1, <2>2, <2>3 DEF Sidecars
  <1> QED BY <1>5, <1>6

\* The merge of the parser rows removes turns and adds none.
LEMMA MergedSidecars ==
  ASSUME IInv, NEW a, NEW p, NEW W, Merged(W, a, p)
  PROVE  Sidecars(W)
  BY DEF Merged, Sidecars, IInv, TypeOK, StoredPayload, OneRowPerId

\* Whatever a sync writes.
LEMMA OutcomeWritten ==
  ASSUME IInv, NEW in \in SyncInputs, NEW a, AttemptFound(a, in)
  PROVE  ParserRows(Outcome(a, in)) /\ Sidecars(Outcome(a, in))
  <1>1. CASE stage # 0 /\ MetadataOnly(a)
    <2>1. \/ Outcome(a, in) = Current
          \/ Outcome(a, in) = Reconcile(Current, Observed(a, in))
      BY <1>1 DEF Outcome
    <2> QED BY <2>1, CurrentRows, ReconcileKeeps
  <1>2. CASE stage # 0 /\ ~MetadataOnly(a)
    <2> DEFINE W == MergeRows(a, in)
    <2>1. Merged(W, a, Plan(a, in)) /\ Rows(W)
      BY MergeMade DEF Merged
    <2>2. ParserRows(W) /\ Sidecars(W)
      BY <2>1, PlanMade, MergedParserRows, MergedSidecars
    <2>3. Outcome(a, in) = WriteSidecars(W, a, in)
      BY <1>2 DEF Outcome
    <2> HIDE DEF W
    <2> QED BY <2>1, <2>2, <2>3, SidecarsWritten
  <1>3. CASE stage = 0
    BY <1>3, ReplaceWritten DEF Outcome
  <1> QED BY <1>1, <1>2, <1>3

\* A sync stores no content but those stored and those in the files.
LEMMA StoredStaysBounded ==
  ASSUME IInv, \A p \in Path : Stored(p)' \subseteq Stored(p) \cup {file[p].content}
  PROVE  StoredBounded'
  <1> SUFFICES ASSUME NEW p \in Path
               PROVE  \E m \in Nat : \A c \in Stored(p)' : SizeOf[c] <= m
    BY DEF StoredBounded, Bounded
  <1>1. PICK n \in Nat : \A c \in Stored(p) : SizeOf[c] <= n
    BY DEF IInv, StoredBounded, Bounded
  <1>2. \A c \in Stored(p)' : c \in Content /\ (c \in Stored(p) \/ c = file[p].content)
    BY DEF Stored
  <1>3. CASE file[p].content \in Content
    <2>1. SizeOf[file[p].content] \in Nat /\ n + SizeOf[file[p].content] \in Nat
      BY <1>3, SessionMergeAssumption
    <2>2. \A c \in Stored(p) : SizeOf[c] \in Nat
      BY SessionMergeAssumption DEF Stored
    <2>3. \A c \in Stored(p)' : SizeOf[c] <= n + SizeOf[file[p].content]
      BY <1>1, <1>2, <2>1, <2>2
    <2> QED BY <2>1, <2>3
  <1>4. CASE file[p].content \notin Content
    BY <1>1, <1>2, <1>4
  <1> QED BY <1>3, <1>4

\* A sync keeps the invariant.
LEMMA SyncKeeps ==
  ASSUME IInv, NEW in \in SyncInputs, SyncWith(in)
  PROVE  IInv'
  <1> DEFINE a == Attempt(in)
             W == Outcome(a, in)
  <1>1. /\ captured' = W.captured /\ records' = W.records /\ audits' = W.audits
        /\ sessions' = W.sessions /\ ledger' = W.ledger /\ spans' = W.spans /\ turns' = W.turns
        /\ stage' = IF stage = 0 THEN parser ELSE NextStage(a, in)
        /\ status' = IF stage = 0 THEN ProbedStatus(a, in) ELSE NextStatus(a, in)
        /\ file' = file /\ parser' = parser
    BY DEF SyncWith
  <1>2. AttemptFound(a, in)
    BY AttemptMade
  <1> HIDE DEF a
  <1>3. ParserRows(W) /\ Sidecars(W)
    BY <1>2, OutcomeWritten
  <1> HIDE DEF W
  <1>4. TypeOK'
    <2>1. StoredPayload'
      BY <1>1, <1>3 DEF StoredPayload, ParserRows, Sidecars
    <2>2. stage' \in Versions \cup {0}
      BY <1>1 DEF IInv, TypeOK, NextStage
    <2>3. status' \in {"none", "healthy", "stale", "error", "blocked"}
      BY <1>1 DEF NextStatus, ProbedStatus
    <2> QED BY <1>1, <2>1, <2>2, <2>3 DEF IInv, TypeOK
  <1>5. FilesWritten'
    BY <1>1 DEF IInv, FilesWritten
  <1>6. StoredBounded'
    <2>1. \A p \in Path : Stored(p)' \subseteq Stored(p) \cup {file[p].content}
      BY <1>1, <1>3 DEF ParserRows, Stored
    <2> QED BY <2>1, StoredStaysBounded
  <1>7. RowsHangTogether' /\ OneRowPerId'
    BY <1>1, <1>3 DEF ParserRows, Sidecars, RowsHangTogether, OneRowPerId
  <1> QED BY <1>4, <1>5, <1>6, <1>7 DEF IInv

-----------------------------------------------------------------------------
(* The invariant *)

\* So does a step that writes only files.
LEMMA StoreUnchanged ==
  ASSUME IInv, UNCHANGED store, FilesWritten', file' \in [Path -> [content : Content \cup {Gone}, time : Times]],
         parser' \in Versions
  PROVE  IInv'
  <1>1. UNCHANGED <<stage, status, captured, records, audits, sessions, ledger, spans, turns>>
    BY DEF store
  <1>2. TypeOK' /\ RowsHangTogether' /\ OneRowPerId'
    BY <1>1 DEF IInv, TypeOK, StoredPayload, RowsHangTogether, OneRowPerId
  <1>3. StoredBounded'
    BY <1>1 DEF IInv, StoredBounded, Bounded, Stored
  <1> QED BY <1>2, <1>3 DEF IInv

\* The invariant.
LEMMA Inductive == Spec => []IInv
  <1>1. Init => IInv
    <2> SUFFICES ASSUME Init PROVE IInv
      OBVIOUS
    <2>1. 1 \in Times /\ 0 \in Times /\ 1 \in Versions
      BY SessionMergeAssumption DEF Times, Versions
    <2>2. file \in [Path -> [content : Content \cup {Gone}, time : Times]] /\ FilesWritten
      BY <2>1 DEF Init, FilesWritten
    <2>3. StoredPayload
      BY <2>1 DEF Init, StoredPayload, NoLedger, Axis
    <2>4. TypeOK
      BY <2>1, <2>2, <2>3 DEF Init, TypeOK
    <2>5. StoredBounded
      <3>1. \A p : Stored(p) = {}
        BY DEF Init, Stored
      <3> QED BY <3>1 DEF StoredBounded, Bounded
    <2>6. RowsHangTogether /\ OneRowPerId
      BY DEF Init, RowsHangTogether, OneRowPerId
    <2> QED BY <2>2, <2>4, <2>5, <2>6 DEF IInv
  <1>2. IInv /\ [Next]_vars => IInv'
    <2> SUFFICES ASSUME IInv, [Next]_vars PROVE IInv'
      OBVIOUS
    <2>1. CASE Sync
      BY <2>1, SyncKeeps DEF Sync
    <2>2. ASSUME NEW p \in Path, NEW c \in Content, Write(p, c)
          PROVE  IInv'
      <3>1. Edits \in Times /\ Edits + 1 \in Times /\ Edits + 1 # 0
        <4>1. Edits \in Times
          BY EditsTyped DEF IInv
        <4> QED BY <2>2, <4>1, SessionMergeAssumption DEF Write, Times
      <3> DEFINE t == Edits + 1
      <3>2. file' = [file EXCEPT ![p] = [content |-> c, time |-> t]] /\ PathOf[c] = p
            /\ parser' = parser /\ UNCHANGED store
        BY <2>2 DEF Write
      <3> HIDE DEF t
      <3>3. t \in Times /\ t # 0
        BY <3>1 DEF t
      <3>4. file' \in [Path -> [content : Content \cup {Gone}, time : Times]] /\ FilesWritten'
        BY <3>2, <3>3 DEF IInv, TypeOK, FilesWritten
      <3> QED BY <3>2, <3>4, StoreUnchanged DEF IInv, TypeOK
    <2>3. ASSUME NEW p \in Path, Remove(p)
          PROVE  IInv'
      <3>1. file' \in [Path -> [content : Content \cup {Gone}, time : Times]] /\ FilesWritten'
        BY <2>3 DEF Remove, IInv, TypeOK, FilesWritten
      <3> QED BY <2>3, <3>1, StoreUnchanged DEF Remove, IInv, TypeOK
    <2>4. CASE Upgrade
      <3>1. parser' \in Versions /\ file' = file /\ UNCHANGED store
        BY <2>4, SessionMergeAssumption DEF Upgrade, IInv, TypeOK, Versions
      <3>2. FilesWritten'
        BY <3>1 DEF IInv, FilesWritten
      <3> QED BY <3>1, <3>2, StoreUnchanged DEF IInv, TypeOK
    <2>5. CASE UNCHANGED vars
      <3>1. parser' = parser /\ file' = file /\ UNCHANGED store
        BY <2>5 DEF vars
      <3>2. FilesWritten'
        BY <3>1 DEF IInv, FilesWritten
      <3> QED BY <3>1, <3>2, StoreUnchanged DEF IInv, TypeOK
    <2> QED BY <2>1, <2>2, <2>3, <2>4, <2>5 DEF Next
  <1> QED BY <1>1, <1>2, PTL DEF Spec

\* Every sync, over whatever files and after whatever syncs, leaves rows of the
\* declared types (schema.ts 226-462).
THEOREM TypeCorrect == Spec => []TypeOK
  <1>1. IInv => TypeOK
    BY DEF IInv
  <1> QED BY <1>1, Inductive, PTL

\* A record always names a stored blob and a stored session, and a session row
\* has a record or a content that does not parse, although the merge rewrites
\* records, blobs and sessions by different rules (source-payload.ts 241-500).
THEOREM RowsHang == Spec => []RowsHangTogether
  <1>1. IInv => RowsHangTogether
    BY DEF IInv
  <1> QED BY <1>1, Inductive, PTL

\* A record and a turn are stored once under their id, although a merge mixes
\* kept and incoming rows (source-payload.ts 312-500, evidence-store.ts 1507-1635).
THEOREM OneRow == Spec => []OneRowPerId
  <1>1. IInv => OneRowPerId
    BY DEF IInv
  <1> QED BY <1>1, Inductive, PTL

-----------------------------------------------------------------------------
(* Certification *)

\* The merge under another parser: what stays is of a file that is gone.
LEMMA MergedIsReparsed ==
  ASSUME IInv, NEW in \in SyncInputs, ~ProfileMatches, in.complete,
         NEW a, AttemptFound(a, in), a.refused = {},
         NEW r \in MergeRows(a, in).records, file[PathOf[r.blob]].content # Gone
  PROVE  r.by = parser
  <1> DEFINE p == Plan(a, in)
  <1>1. Merged(MergeRows(a, in), a, p) /\ Planned(p, a, in)
    BY MergeMade, PlanMade
  <1>2. CASE r \in Incoming(a, p)
    BY <1>2 DEF Incoming, AttemptFound, Reparsed, Fresh
  <1>3. CASE r \in records /\ ~Drops(p, Old(p), r)
    <2>1. r \in Record /\ captured[r.blob] # 0 /\ r.blob \in Content /\ PathOf[r.blob] \in Path
      BY <1>3, SessionMergeAssumption DEF IInv, TypeOK, StoredPayload, RowsHangTogether, Record
    <2>2. PathOf[r.blob] \in in.files
      BY <2>1 DEF SyncInputs
    <2>3. PathOf[r.blob] \in PathsOf(BlobIds(a.payload))
      BY <2>2 DEF AttemptFound, Reparsed
    <2>4. PathOf[r.blob] \in p.replace
      <3>1. SessionsAt(Current, a.refused) = {}
        BY DEF SessionsAt, SessionsOf
      <3> QED BY <2>3, <3>1 DEF Plan, AttemptFound
    <2>5. r.blob \in Old(p) /\ r.session \in p.changed
      BY <1>1, <1>3, <2>1, <2>4 DEF Old, Planned
    <2> QED BY <1>3, <2>5 DEF Drops
  <1> QED BY <1>1, <1>2, <1>3 DEF Merged

\* A sync that certifies has reused nothing and refused nothing.
LEMMA CertifiedByParse ==
  ASSUME IInv, NEW in \in SyncInputs, SyncWith(in), stage # parser, stage' = parser,
         NEW r \in records', file[PathOf[r.blob]].content # Gone
  PROVE  r.by = parser
  <1> DEFINE a == Attempt(in)
             W == Outcome(a, in)
  <1>1. records' = W.records /\ stage' = IF stage = 0 THEN parser ELSE NextStage(a, in)
    BY DEF SyncWith
  <1>2. AttemptFound(a, in) /\ ~ProfileMatches
    BY AttemptMade DEF ProfileMatches
  <1> HIDE DEF a
  <1>3. CASE stage = 0
    <2>1. W.records = a.payload.records
      BY <1>3 DEF Outcome, Replace
    <2> QED BY <1>1, <1>2, <2>1 DEF AttemptFound, Reparsed, Fresh
  <1>4. CASE stage # 0
    <2>1. in.complete /\ a.refused = {}
      BY <1>1, <1>4 DEF NextStage, Certifies
    <2>2. CASE MetadataOnly(a)
      <3>1. W.records = records
        <4>1. W = Current \/ W = Reconcile(Current, Observed(a, in))
          BY <1>4, <2>2 DEF Outcome
        <4>2. Current.records = records
          BY DEF Current
        <4> HIDE DEF W
        <4> QED BY <4>1, <4>2, CurrentRows, ReconcileKeeps
      <3>2. PathsOf(BlobIds(a.payload)) = {} /\ a.payload.failed = {}
        BY <2>2 DEF MetadataOnly, BlobIds, PathsOf
      <3>3. in.files = {}
        BY <1>2, <3>2 DEF AttemptFound, Reparsed
      <3>4. r.blob \in Content /\ PathOf[r.blob] \in Path
        BY <1>1, <3>1, SessionMergeAssumption DEF IInv, TypeOK, StoredPayload, Record
      <3> QED BY <2>1, <3>3, <3>4 DEF SyncInputs
    <2>3. CASE ~MetadataOnly(a)
      <3> DEFINE M == MergeRows(a, in)
      <3>1. Merged(M, a, Plan(a, in)) /\ Rows(M)
        BY MergeMade DEF Merged
      <3>2. ParserRows(M) /\ Sidecars(M)
        BY <1>2, <3>1, PlanMade, MergedParserRows, MergedSidecars
      <3>3. W = WriteSidecars(M, a, in)
        BY <1>4, <2>3 DEF Outcome
      <3> HIDE DEF W
      <3>4. W.records = M.records
        <4> HIDE DEF M
        <4> QED BY <1>2, <3>1, <3>2, <3>3, SidecarsWritten
      <3> QED BY <1>1, <1>2, <2>1, <3>4, MergedIsReparsed
    <2> QED BY <2>2, <2>3
  <1> QED BY <1>3, <1>4

\* When stage_runs come to name the running parser, every record of a file that is
\* there is that parser's (sync.ts 722-758).
THEOREM CertifiedRows == Spec => CertifiedIsCurrent
  <1> DEFINE Certified == stage # parser /\ stage' = parser =>
                \A r \in records' : file[PathOf[r.blob]].content # Gone => r.by = parser
  <1>1. IInv /\ [Next]_vars => [Certified]_vars
    <2> SUFFICES ASSUME IInv, Next, stage # parser, stage' = parser,
                        NEW r \in records', file[PathOf[r.blob]].content # Gone
                 PROVE  r.by = parser
      OBVIOUS
    <2>1. CASE Sync
      BY <2>1, CertifiedByParse DEF Sync
    <2>2. CASE ~Sync
      <3>1. stage' = stage
        BY <2>2 DEF Next, Write, Remove, Upgrade, store
      <3> QED BY <3>1
    <2> QED BY <2>1, <2>2
  <1> QED BY <1>1, Inductive, PTL DEF Spec, CertifiedIsCurrent

-----------------------------------------------------------------------------
(* What a probe takes over from the store *)

\* The tail of the path is what its file holds now.
Unchanged(p) == ProfileMatches /\ Stored(p) # {} /\ Tail(p) = file[p].content

\* A file whose stored rows were loaded can be appended to whoever loaded them.
LEMMA AppendWhenLoaded ==
  ASSUME NEW p, NEW h, NEW g, CanAppend(p, h), HasPrevious(p, g)
  PROVE  CanAppend(p, g)
  BY DEF CanAppend

\* A file that can be read offers nothing and is skipped, or offers all its stored
\* rows and none of another session, or is parsed.
LEMMA ProbeFileWays ==
  ASSUME IInv, NEW in \in SyncInputs, NEW p \in in.files \ in.broken, NEW heavy, NEW f,
         f = ProbeFile(p, heavy, in.broken, in.old)
  PROVE  \/ /\ f.records = {} /\ f.skipped = {p}
            /\ Unchanged(p) /\ ~HasPrevious(p, heavy)
         \/ /\ HasPrevious(p, heavy) /\ (Unchanged(p) \/ CanAppend(p, heavy))
            /\ RecordsOf(p) \subseteq f.records
            /\ \A r \in f.records : r.session \in SessionsOf(RecordsOf(p))
         \/ /\ ~Unchanged(p) /\ ~CanAppend(p, heavy)
            /\ f = Parse(p) /\ f.skipped = {}
  <1>1. CASE Unchanged(p)
    <2>1. f = Reuse(p, heavy, StatsMatch(p) \/ in.old)
      BY <1>1 DEF ProbeFile, Unchanged
    <2>2. CASE ~HasPrevious(p, heavy)
      BY <1>1, <2>1, <2>2 DEF Reuse, Found
    <2>3. CASE HasPrevious(p, heavy)
      <3>1. f.records = RecordsOf(p)
        BY <2>1, <2>3 DEF Reuse, Found
      <3> QED BY <1>1, <2>3, <3>1 DEF SessionsOf
    <2> QED BY <2>2, <2>3
  <1>2. CASE ~Unchanged(p) /\ CanAppend(p, heavy)
    <2> DEFINE c == file[p].content
               s == CHOOSE x \in SessionsOf(RecordsOf(p)) : TRUE
               new == {[session |-> s, blob |-> c, msg |-> m, by |-> parser] : m \in MsgsOf[c] \ MsgsOf[Tail(p)]}
    <2>1. f = Append(p) /\ HasPrevious(p, heavy)
      BY <1>2 DEF ProbeFile, Unchanged, CanAppend
    <2>2. f.records = RecordsOf(p) \cup new
      BY <2>1 DEF Append, Found
    <2>3. s \in SessionsOf(RecordsOf(p))
      BY <2>1 DEF SessionsOf, HasPrevious
    <2> HIDE DEF s
    <2>4. \A r \in f.records : r.session \in SessionsOf(RecordsOf(p))
      BY <2>2, <2>3 DEF SessionsOf
    <2> HIDE DEF new
    <2> QED BY <1>2, <2>1, <2>2, <2>4
  <1>3. CASE ~Unchanged(p) /\ ~CanAppend(p, heavy)
    <2>1. f = Parse(p)
      BY <1>3 DEF ProbeFile, Unchanged
    <2> QED BY <1>3, <2>1 DEF Parse, Found
  <1> QED BY <1>1, <1>2, <1>3

\* A file that cannot be read offers nothing and has failed.
LEMMA ProbeFileFails ==
  ASSUME NEW in, NEW p \in in.broken, NEW heavy
  PROVE  /\ ProbeFile(p, heavy, in.broken, in.old).records = {}
         /\ ProbeFile(p, heavy, in.broken, in.old).failed = {p}
  BY DEF ProbeFile, Found

\* What the probe of all files finds is what it finds in each.
LEMMA ProbeParts ==
  ASSUME NEW in, NEW heavy, NEW kept, NEW all, all = Probe(in, heavy, kept)
  PROVE  /\ \A p \in in.files : /\ ProbeFile(p, heavy, in.broken, in.old).records \subseteq all.records
                                /\ ProbeFile(p, heavy, in.broken, in.old).blobs \subseteq all.blobs
                                /\ ProbeFile(p, heavy, in.broken, in.old).skipped \subseteq all.skipped
                                /\ ProbeFile(p, heavy, in.broken, in.old).failed \subseteq all.failed
         /\ \A p \in kept : RecordsOf(p) \subseteq all.records
         /\ \A r \in all.records : \/ \E p \in in.files : r \in ProbeFile(p, heavy, in.broken, in.old).records
                                   \/ \E p \in kept : r \in RecordsOf(p)
         /\ \A p \in all.skipped : \E q \in in.files : p \in ProbeFile(q, heavy, in.broken, in.old).skipped
         /\ \A b \in all.blobs : \/ \E p \in in.files : b \in ProbeFile(p, heavy, in.broken, in.old).blobs
                                 \/ \E p \in kept : b \in Retain(p).blobs
  <1> DEFINE Entry(p) == ProbeFile(p, heavy, in.broken, in.old)
             F == {Entry(p) : p \in in.files} \cup {Retain(p) : p \in kept}
  <1>1. /\ all.blobs = UNION {f.blobs : f \in F} /\ all.records = UNION {f.records : f \in F}
        /\ all.skipped = UNION {f.skipped : f \in F} /\ all.failed = UNION {f.failed : f \in F}
    BY DEF Probe, Join, Found
  <1>2. \A p : Retain(p).records = RecordsOf(p) /\ Retain(p).skipped = {}
    BY DEF Retain, Found
  <1> HIDE DEF Entry
  <1>3. \A p \in in.files : /\ Entry(p).records \subseteq all.records /\ Entry(p).blobs \subseteq all.blobs
                            /\ Entry(p).skipped \subseteq all.skipped /\ Entry(p).failed \subseteq all.failed
    BY <1>1
  <1>4. \A p \in kept : RecordsOf(p) \subseteq all.records
    BY <1>1, <1>2
  <1>5. \A r \in all.records : (\E p \in in.files : r \in Entry(p).records) \/ \E p \in kept : r \in RecordsOf(p)
    BY <1>1, <1>2
  <1>6. \A p \in all.skipped : \E q \in in.files : p \in Entry(q).skipped
    BY <1>1, <1>2
  <1>7. \A b \in all.blobs : (\E p \in in.files : b \in Entry(p).blobs) \/ \E p \in kept : b \in Retain(p).blobs
    BY <1>1
  <1> QED BY <1>3, <1>4, <1>5, <1>6, <1>7 DEF Entry

\* The path of a record that a probe finds is the file it was found in.
LEMMA ProbePath ==
  ASSUME IInv, NEW in \in SyncInputs, NEW heavy, NEW p \in in.files,
         NEW r \in ProbeFile(p, heavy, in.broken, in.old).records
  PROVE  PathOf[r.blob] = p
  BY ProbeFileFound DEF FileFound

-----------------------------------------------------------------------------
(* The sessions an attempt touches *)

\* Every stored row of a file names the same session.
OneSessionRows == \A r, q \in records : PathOf[r.blob] = PathOf[q.blob] => r.session = q.session

\* Every stored row of the file at p names a session of T.
Names(p, T) == \A r \in records : PathOf[r.blob] = p => r.session \in T

\* The sessions whose contributors an attempt asks for.
Touched(payload, affected) ==
    SessionsOf(payload.records)
        \cup SessionsOf({r \in records : captured[r.blob] # 0 /\ PathOf[r.blob] \in affected})

\* A contributor is a path with a row of such a session.
LEMMA ContributorsAre ==
  ASSUME IInv, NEW payload, NEW affected
  PROVE  /\ \A c \in Contributors(payload, affected) :
               \E r \in records : PathOf[r.blob] = c /\ r.session \in Touched(payload, affected)
         /\ \A r \in records : r.session \in Touched(payload, affected) =>
               PathOf[r.blob] \in Contributors(payload, affected)
  <1> DEFINE rows == {r \in records : captured[r.blob] # 0}
             T == Touched(payload, affected)
  <1>1. rows = records
    BY StoredRecords
  <1>2. T = SessionsOf(payload.records) \cup SessionsOf({r \in rows : PathOf[r.blob] \in affected})
    BY <1>1 DEF Touched
  <1> HIDE DEF rows
  <1>3. Contributors(payload, affected) = PathsOf({r.blob : r \in {q \in rows : q.session \in T}})
    BY <1>2 DEF Contributors, rows
  <1> HIDE DEF T
  <1>4. /\ \A c \in Contributors(payload, affected) : \E r \in records : PathOf[r.blob] = c /\ r.session \in T
        /\ \A r \in records : r.session \in T => PathOf[r.blob] \in Contributors(payload, affected)
    BY <1>1, <1>3 DEF PathsOf
  <1> QED BY <1>4 DEF T

\* All rows of a contributor are of such a session.
LEMMA ContributorNames ==
  ASSUME IInv, OneSessionRows, NEW payload, NEW affected, NEW c \in Contributors(payload, affected)
  PROVE  Names(c, Touched(payload, affected))
  <1>1. PICK r \in records : PathOf[r.blob] = c /\ r.session \in Touched(payload, affected)
    BY ContributorsAre
  <1> QED BY <1>1 DEF Names, OneSessionRows

\* A probe that has loaded more, of files whose rows name sessions of T, finds no
\* session but those of T if the probe before it did not.
LEMMA NextProbeStays ==
  ASSUME IInv, NEW in \in SyncInputs, NEW heavy, NEW more, NEW kept, NEW T,
         SessionsOf(Probe(in, heavy, {}).records) \subseteq T,
         \A p \in heavy : RecordsOf(p) # {} => p \in more,
         \A p \in more : p \in heavy \/ Names(p, T),
         \A p \in kept : Names(p, T)
  PROVE  SessionsOf(Probe(in, more, kept).records) \subseteq T
  <1> SUFFICES ASSUME NEW r \in Probe(in, more, kept).records
               PROVE  r.session \in T
    BY DEF SessionsOf
  <1>1. \A q \in Probe(in, heavy, {}).records : q.session \in T
    BY DEF SessionsOf
  <1>2. \A p \in in.files : ProbeFile(p, heavy, in.broken, in.old).records \subseteq Probe(in, heavy, {}).records
    BY ProbeParts
  <1>3. ASSUME NEW p \in kept, r \in RecordsOf(p)
        PROVE  r.session \in T
    BY <1>3, StoredRecords DEF Names
  <1>4. ASSUME NEW p \in in.files, r \in ProbeFile(p, more, in.broken, in.old).records
        PROVE  r.session \in T
    <2> DEFINE f == ProbeFile(p, heavy, in.broken, in.old)
               g == ProbeFile(p, more, in.broken, in.old)
    <2>0. p \notin in.broken
      BY <1>4, ProbeFileFails
    <2>1. \/ f.records = {} /\ Unchanged(p) /\ ~HasPrevious(p, heavy)
          \/ HasPrevious(p, heavy) /\ RecordsOf(p) \subseteq f.records
          \/ ~Unchanged(p) /\ ~CanAppend(p, heavy) /\ f = Parse(p)
      BY <2>0, ProbeFileWays
    <2>2. \/ g.records = {}
          \/ /\ HasPrevious(p, more) /\ (Unchanged(p) \/ CanAppend(p, more))
             /\ \A q \in g.records : q.session \in SessionsOf(RecordsOf(p))
          \/ ~Unchanged(p) /\ ~CanAppend(p, more) /\ g = Parse(p)
      BY <2>0, ProbeFileWays
    <2>3. \A q \in f.records : q.session \in T
      BY <1>1, <1>2
    <2>4. r \in g.records
      BY <1>4
    <2> HIDE DEF f, g
    <2>5. CASE /\ HasPrevious(p, more) /\ (Unchanged(p) \/ CanAppend(p, more))
               /\ \A q \in g.records : q.session \in SessionsOf(RecordsOf(p))
      <3>1. PICK q \in RecordsOf(p) : q.session = r.session
        BY <2>4, <2>5 DEF SessionsOf
      <3>2. q \in records /\ PathOf[q.blob] = p
        BY StoredRecords
      <3>3. CASE Names(p, T)
        BY <3>1, <3>2, <3>3 DEF Names
      <3>4. CASE p \in heavy
        <4>1. HasPrevious(p, heavy)
          BY <2>5, <3>4 DEF HasPrevious
        <4>2. Unchanged(p) \/ CanAppend(p, heavy)
          BY <2>5, <4>1, AppendWhenLoaded
        <4>3. RecordsOf(p) \subseteq f.records
          BY <2>1, <4>1, <4>2
        <4> QED BY <2>3, <3>1, <4>3
      <3>5. p \in more
        BY <2>5 DEF HasPrevious
      <3> QED BY <3>3, <3>4, <3>5
    <2>6. CASE ~Unchanged(p) /\ ~CanAppend(p, more) /\ g = Parse(p)
      <3>1. ~CanAppend(p, heavy)
        <4> SUFFICES ASSUME CanAppend(p, heavy) PROVE FALSE
          OBVIOUS
        <4>1. HasPrevious(p, heavy)
          BY DEF CanAppend
        <4>2. HasPrevious(p, more)
          BY <4>1 DEF HasPrevious
        <4> QED BY <2>6, <4>2, AppendWhenLoaded
      <3>2. f = Parse(p)
        <4>1. f = ProbeFile(p, heavy, in.broken, in.old)
          BY DEF f
        <4> QED BY <2>0, <2>6, <3>1, <4>1 DEF ProbeFile, Unchanged
      <3> QED BY <2>3, <2>4, <2>6, <3>2
    <2> QED BY <2>2, <2>4, <2>5, <2>6
  <1>5. (\E p \in in.files : r \in ProbeFile(p, more, in.broken, in.old).records) \/ \E p \in kept : r \in RecordsOf(p)
    BY ProbeParts
  <1> QED BY <1>3, <1>4, <1>5

-----------------------------------------------------------------------------
(* An attempt asks for every contributor *)

\* The first probe, the paths it is about, and the attempt before it is widened.
FirstLoad(in) == IF ProfileMatches /\ ~Thin THEN {p \in in.files : p \in in.broken \/ ~StatsMatch(p)} ELSE {}
First(in) == Probe(in, FirstLoad(in), {})
Affected(in) == PathsOf(BlobIds(First(in))) \ First(in).skipped
Begun(in) == [heavy |-> FirstLoad(in), retained |-> {}, unvisited |-> {}, done |-> FALSE,
              preserved |-> First(in).skipped, refused |-> First(in).failed, payload |-> First(in)]

\* An attempt holds one probe of all files, with what was loaded and set aside for it.
Probed(a, in) ==
    /\ AttemptRecord(a)
    /\ a.payload = Probe(in, a.heavy, a.retained)
    /\ a.retained \cap in.files = {}
    /\ a.preserved = a.retained \cup a.payload.skipped
    /\ a.refused = a.unvisited \cup a.payload.failed
    /\ \A p \in FirstLoad(in) : RecordsOf(p) # {} => p \in a.heavy

\* An attempt that may be widened.
Opened(a, in) == Probed(a, in) /\ ~a.done /\ a.heavy \subseteq in.files \cup a.retained

\* An attempt that is done: it lists, has set aside or has given up every
\* contributor, and has the rows of those it lists.
Settled(a, in) ==
    /\ Probed(a, in)
    /\ a.done
    /\ Contributors(a.payload, Affected(in)) \subseteq in.files \cup a.retained \cup a.unvisited
    /\ Reusable(in) => \A c \in Contributors(a.payload, Affected(in)) \cap in.files :
                          c \in a.heavy \/ \E r \in a.payload.records : PathOf[r.blob] = c

\* When nothing is missing an attempt is done, and sets nothing new aside.
LEMMA SettleCloses ==
  ASSUME IInv, NEW in \in SyncInputs, NEW a, Opened(a, in),
         Reusable(in) => Missing(a, in, Affected(in)) = {}
  PROVE  Settled(Settle(a, in, Affected(in)), in)
  <1> DEFINE aff == Affected(in)
             asked == Contributors(a.payload, aff)
             retained == Retained(a, in, aff)
             unvisited == Unvisited(a, in, aff)
             w == Settle(a, in, aff)
  <1>1. w = [a EXCEPT !.retained = retained, !.unvisited = unvisited, !.done = TRUE,
                      !.preserved = @ \cup retained, !.refused = @ \cup unvisited]
    BY DEF Settle
  <1>2. /\ retained = a.retained \cup (IF in.complete /\ Reusable(in) THEN asked \ in.files ELSE {})
        /\ unvisited = a.unvisited \cup (IF in.complete /\ Reusable(in) THEN {} ELSE asked \ in.files)
    BY DEF Retained, Unvisited, Outside
  <1>3. Missing(a, in, aff) = ((asked \cap (in.files \cup retained)) \ Loaded(a))
                                  \ PathsOf({r.blob : r \in a.payload.records})
    BY DEF Missing
  <1> HIDE DEF asked, retained, unvisited, w, aff
  <1>4. /\ w.retained = retained /\ w.unvisited = unvisited /\ w.preserved = a.preserved \cup retained
        /\ w.refused = a.refused \cup unvisited /\ w.payload = a.payload /\ w.heavy = a.heavy
        /\ w.done = TRUE /\ AttemptRecord(w)
    BY <1>1 DEF Opened, Probed, AttemptRecord
  <1>5. ASSUME NEW r \in a.payload.records
        PROVE  PathOf[r.blob] \in in.files \cup a.retained
    <2>1. \/ \E p \in in.files : r \in ProbeFile(p, a.heavy, in.broken, in.old).records
          \/ \E p \in a.retained : r \in RecordsOf(p)
      BY ProbeParts DEF Opened, Probed
    <2> QED BY <2>1, ProbePath, StoredRecords
  <1>6. retained = a.retained
    <2> SUFFICES ASSUME in.complete, Reusable(in), NEW c \in asked, c \notin in.files
                 PROVE  c \in a.retained
      BY <1>2
    <2>1. c \in retained
      BY <1>2
    <2>2. c \in Loaded(a) \/ \E r \in a.payload.records : PathOf[r.blob] = c
      BY <1>3, <2>1 DEF PathsOf, aff
    <2> QED BY <1>5, <2>2 DEF Loaded, Opened
  <1>7. asked \subseteq in.files \cup retained \cup unvisited
    BY <1>2
  <1>8. Reusable(in) => \A c \in asked \cap in.files : c \in a.heavy \/ \E r \in a.payload.records : PathOf[r.blob] = c
    BY <1>3 DEF PathsOf, aff, Loaded
  <1>9. Probed(w, in)
    <2>1. /\ w.payload = Probe(in, w.heavy, w.retained) /\ w.retained \cap in.files = {}
          /\ w.preserved = w.retained \cup w.payload.skipped
          /\ \A p \in FirstLoad(in) : RecordsOf(p) # {} => p \in w.heavy
      BY <1>4, <1>6 DEF Opened, Probed
    <2>2. w.refused = w.unvisited \cup w.payload.failed
      BY <1>2, <1>4 DEF Opened, Probed
    <2> QED BY <1>4, <2>1, <2>2 DEF Probed
  <1>10. Settled(w, in)
    <2>1. Contributors(w.payload, Affected(in)) = asked
      BY <1>4 DEF asked, aff
    <2> QED BY <1>4, <1>7, <1>8, <1>9, <2>1 DEF Settled
  <1> QED BY <1>10 DEF w, aff

\* The second probe has loaded what the first one missed, touches no further
\* session, and misses nothing.
LEMMA SecondProbe ==
  ASSUME IInv, OneSessionRows, NEW in \in SyncInputs, Reusable(in)
  PROVE  /\ Opened(ProbeAgain(Begun(in), in, Affected(in), 1), in)
         /\ Missing(ProbeAgain(Begun(in), in, Affected(in), 1), in, Affected(in)) = {}
  <1> DEFINE aff == Affected(in)
             a == Begun(in)
             heavy == FirstLoad(in)
             first == First(in)
             asked == Contributors(first, aff)
             T == Touched(first, aff)
             kept == Retained(a, in, aff)
             gone == Unvisited(a, in, aff)
             missing == Missing(a, in, aff)
             more == Load(a, in, aff, 1)
             again == Probe(in, more, kept)
             b == ProbeAgain(a, in, aff, 1)
  <1>1. /\ a.heavy = heavy /\ a.retained = {} /\ a.unvisited = {} /\ a.payload = first
        /\ first = Probe(in, heavy, {})
    BY DEF Begun, First
  <1>2. kept = IF in.complete THEN asked \ in.files ELSE {}
    BY <1>1 DEF Retained, Outside
  <1>3. missing = ((asked \cap (in.files \cup kept)) \ {p \in heavy : RecordsOf(p) # {}})
                      \ PathsOf({r.blob : r \in first.records})
    BY <1>1 DEF Missing, Loaded
  <1>4. more = {p \in heavy : RecordsOf(p) # {}} \cup missing
    BY <1>1 DEF Load, Loaded
  <1>5. b = [heavy |-> more, retained |-> kept, unvisited |-> gone, done |-> FALSE,
             preserved |-> kept \cup again.skipped, refused |-> gone \cup again.failed, payload |-> again]
    BY DEF ProbeAgain
  <1>6. heavy \subseteq in.files
    BY DEF FirstLoad
  <1>7. \A c \in asked : Names(c, T)
    BY ContributorNames
  <1>8. SessionsOf(first.records) \subseteq T
    BY DEF Touched
  <1> HIDE DEF a, heavy, first, asked, T, kept, gone, missing, more, again, b, aff
  <1>9. /\ b.heavy = more /\ b.retained = kept /\ b.unvisited = gone /\ b.done = FALSE
        /\ b.preserved = kept \cup again.skipped /\ b.refused = gone \cup again.failed
        /\ b.payload = again /\ AttemptRecord(b)
    BY <1>5 DEF AttemptRecord
  <1>10. Opened(b, in)
    <2>1. more \subseteq in.files \cup kept
      BY <1>3, <1>4, <1>6
    <2>2. \A p \in heavy : RecordsOf(p) # {} => p \in more
      BY <1>4
    <2>3. kept \cap in.files = {}
      BY <1>2
    <2>4. Probed(b, in)
      BY <1>9, <2>2, <2>3 DEF Probed, heavy, again
    <2> QED BY <1>9, <2>1, <2>4 DEF Opened
  <1>11. SessionsOf(again.records) \subseteq T
    <2>1. \A p \in more : p \in heavy \/ Names(p, T)
      BY <1>3, <1>4, <1>7
    <2>2. \A p \in kept : Names(p, T)
      BY <1>2, <1>7
    <2>3. \A p \in heavy : RecordsOf(p) # {} => p \in more
      BY <1>4
    <2>4. SessionsOf(Probe(in, heavy, {}).records) \subseteq T
      BY <1>1, <1>8
    <2>5. SessionsOf(Probe(in, more, kept).records) \subseteq T
      BY <2>1, <2>2, <2>3, <2>4, NextProbeStays
    <2> QED BY <2>5 DEF again
  <1>12. Contributors(again, aff) \subseteq asked
    <2>1. Touched(again, aff) \subseteq T
      BY <1>11 DEF Touched, T
    <2>2. \A r \in records : r.session \in T => PathOf[r.blob] \in asked
      BY ContributorsAre DEF T, asked
    <2> QED BY <2>1, <2>2, ContributorsAre
  <1>13. Missing(b, in, aff) = {}
    <2> SUFFICES ASSUME NEW c \in Missing(b, in, aff) PROVE FALSE
      OBVIOUS
    <2>1. /\ c \in Contributors(again, aff) /\ c \in in.files \cup Retained(b, in, aff)
          /\ c \notin Loaded(b) /\ \A r \in again.records : PathOf[r.blob] # c
      BY <1>9 DEF Missing, PathsOf
    <2>2. c \in asked
      BY <1>12, <2>1
    <2>3. c \in in.files \cup kept
      <3>1. Retained(b, in, aff) \subseteq kept \cup (IF in.complete THEN Contributors(again, aff) \ in.files ELSE {})
        BY <1>9 DEF Retained, Outside
      <3> QED BY <1>2, <1>12, <2>1, <3>1
    <2>4. RecordsOf(c) # {}
      <3>1. PICK r \in records : PathOf[r.blob] = c
        BY <2>1, ContributorsAre
      <3> QED BY <3>1, StoredRecords
    <2>5. c \notin more
      BY <1>9, <2>1, <2>4 DEF Loaded
    <2>6. c \notin heavy
      BY <1>4, <2>4, <2>5
    <2>7. PICK q \in first.records : PathOf[q.blob] = c
      BY <1>3, <1>4, <2>2, <2>3, <2>5, <2>6 DEF PathsOf
    <2>8. PICK p \in in.files : q \in ProbeFile(p, heavy, in.broken, in.old).records
      BY <1>1, ProbeParts
    <2>9. p = c
      BY <2>7, <2>8, ProbePath
    <2> DEFINE f == ProbeFile(c, heavy, in.broken, in.old)
               g == ProbeFile(c, more, in.broken, in.old)
    <2>10. q \in f.records /\ c \in in.files
      BY <2>8, <2>9
    <2>11. c \notin in.broken
      BY <2>10, ProbeFileFails
    <2>12. ~Unchanged(c) /\ f = Parse(c)
      <3>1. ~HasPrevious(c, heavy)
        BY <2>6 DEF HasPrevious
      <3>2. f.records # {}
        BY <2>10
      <3> QED BY <2>10, <2>11, <3>1, <3>2, ProbeFileWays
    <2>13. g.records \subseteq again.records
      BY <2>10, ProbeParts DEF again
    <2>14. ~HasPrevious(c, more)
      BY <2>5 DEF HasPrevious
    <2>15. g = Parse(c)
      BY <2>10, <2>11, <2>12, <2>14, ProbeFileWays
    <2>16. q \in again.records
      <3> HIDE DEF f, g
      <3> QED BY <2>10, <2>12, <2>13, <2>15
    <2> QED BY <2>1, <2>7, <2>16
  <1> QED BY <1>10, <1>13 DEF b, a, aff

\* Two probes at most, and an attempt is done.
LEMMA AttemptSettles ==
  ASSUME IInv, OneSessionRows, NEW in \in SyncInputs
  PROVE  \E a : /\ Settled(a, in)
                /\ Attempt(in) = [a EXCEPT !.refused = @ \cup PathsOf(a.payload.audits \cap BlobIds(a.payload))]
  <1> DEFINE aff == Affected(in)
             a0 == Begun(in)
             a1 == Widen(a0, in, aff, 1)
             a2 == Widen(a1, in, aff, 2)
             a3 == Widen(a2, in, aff, 3)
  <1>1. Attempt(in) = [a3 EXCEPT !.refused = @ \cup PathsOf(a3.payload.audits \cap BlobIds(a3.payload))]
    BY DEF Attempt, Begun, Affected, First, FirstLoad
  <1>2. Opened(a0, in)
    <2>1. FirstLoad(in) \subseteq in.files
      BY DEF FirstLoad
    <2>2. First(in) = Probe(in, FirstLoad(in), {})
      BY DEF First
    <2> QED BY <2>1, <2>2 DEF Opened, Probed, Begun, AttemptRecord
  <1>3. CASE Reusable(in) /\ Missing(a0, in, aff) # {}
    <2>1. a1 = ProbeAgain(a0, in, aff, 1)
      BY <1>2, <1>3 DEF Widen, Opened
    <2>2. Opened(a1, in) /\ Missing(a1, in, aff) = {}
      BY <1>3, <2>1, SecondProbe
    <2> HIDE DEF a1
    <2>3. a2 = Settle(a1, in, aff)
      BY <2>2 DEF Widen, Opened
    <2>4. Settled(a2, in)
      BY <2>2, <2>3, SettleCloses
    <2>5. a3 = a2
      BY <2>4 DEF Widen, Settled
    <2> HIDE DEF a2, a3
    <2> QED BY <1>1, <2>4, <2>5
  <1>4. CASE ~(Reusable(in) /\ Missing(a0, in, aff) # {})
    <2>1. a1 = Settle(a0, in, aff)
      BY <1>2, <1>4 DEF Widen, Opened
    <2>2. Settled(a1, in)
      BY <1>2, <1>4, <2>1, SettleCloses
    <2>3. a2 = a1
      BY <2>2 DEF Widen, Settled
    <2>4. a3 = a2
      BY <2>2, <2>3 DEF Widen, Settled
    <2> HIDE DEF a1, a2, a3
    <2> QED BY <1>1, <2>2, <2>3, <2>4
  <1> QED BY <1>3, <1>4

-----------------------------------------------------------------------------
(* What an attempt has of every row it puts at risk *)

\* A path is refused, or its stored rows are in the payload, or its file is parsed.
Accounted(c, a, in) ==
    \/ c \in a.refused
    \/ RecordsOf(c) \subseteq a.payload.records
    \/ c \in in.files /\ c \notin a.preserved /\ Parse(c).records \subseteq a.payload.records

\* The paths an attempt may replace.
Opening(a) == (PathsOf(BlobIds(a.payload)) \ a.preserved) \ a.refused

\* The attempt accounts for every path with a row of a session it touches: those
\* of its payload, and those of the paths it may replace.
Covers(a, in) ==
    \E T : /\ SessionsOf(a.payload.records) \subseteq T
           /\ \A p \in Opening(a) : Names(p, T)
           /\ \A r \in records : r.session \in T => Accounted(PathOf[r.blob], a, in)

\* Only the probe of its own file skips a path.
LEMMA SkippedByItself ==
  ASSUME IInv, NEW in \in SyncInputs, NEW heavy, NEW kept, NEW c,
         ProbeFile(c, heavy, in.broken, in.old).skipped = {}
  PROVE  c \notin Probe(in, heavy, kept).skipped
  <1>1. \A p \in in.files : ProbeFile(p, heavy, in.broken, in.old).skipped \subseteq {p}
    BY ProbeFileFound DEF FileFound
  <1>2. \A p \in Probe(in, heavy, kept).skipped : \E q \in in.files : p \in ProbeFile(q, heavy, in.broken, in.old).skipped
    BY ProbeParts
  <1> QED BY <1>1, <1>2

\* Every contributor of a settled attempt is accounted for.
LEMMA SettledAccounts ==
  ASSUME IInv, NEW in \in SyncInputs, NEW a, Settled(a, in),
         NEW c \in Contributors(a.payload, Affected(in))
  PROVE  Accounted(c, a, in)
  <1>1. CASE c \in a.unvisited
    BY <1>1 DEF Settled, Probed, Accounted
  <1>2. CASE c \in a.retained
    BY <1>2, ProbeParts DEF Settled, Probed, Accounted
  <1>3. CASE c \in in.files /\ c \in in.broken
    <2>1. ProbeFile(c, a.heavy, in.broken, in.old).failed = {c}
      BY <1>3, ProbeFileFails
    <2>2. c \in a.payload.failed
      BY <1>3, <2>1, ProbeParts DEF Settled, Probed
    <2> QED BY <2>2 DEF Settled, Probed, Accounted
  <1>4. CASE c \in in.files /\ c \notin in.broken
    <2> DEFINE f == ProbeFile(c, a.heavy, in.broken, in.old)
    <2>1. f.records \subseteq a.payload.records
      BY <1>4, ProbeParts DEF Settled, Probed
    <2>2. \/ f.records = {} /\ Unchanged(c) /\ ~HasPrevious(c, a.heavy)
          \/ RecordsOf(c) \subseteq f.records
          \/ f = Parse(c) /\ f.skipped = {}
      BY <1>4, ProbeFileWays
    <2>3. CASE f.records = {} /\ Unchanged(c) /\ ~HasPrevious(c, a.heavy)
      <3>1. Reusable(in)
        BY <1>4, <2>3 DEF Reusable, Unchanged
      <3>2. c \in a.heavy \/ \E r \in a.payload.records : PathOf[r.blob] = c
        BY <1>4, <3>1 DEF Settled
      <3>3. RecordsOf(c) # {}
        <4>1. PICK r \in records : PathOf[r.blob] = c
          BY ContributorsAre
        <4> QED BY <4>1, StoredRecords
      <3>4. c \notin a.heavy
        BY <2>3, <3>3 DEF HasPrevious, Unchanged
      <3>5. PICK r \in a.payload.records : PathOf[r.blob] = c
        BY <3>2, <3>4
      <3>6. \/ \E p \in in.files : r \in ProbeFile(p, a.heavy, in.broken, in.old).records
            \/ \E p \in a.retained : r \in RecordsOf(p)
        BY ProbeParts DEF Settled, Probed
      <3>7. ASSUME NEW p \in in.files, r \in ProbeFile(p, a.heavy, in.broken, in.old).records
            PROVE  FALSE
        <4>1. p = c
          BY <3>5, <3>7, ProbePath
        <4> QED BY <2>3, <3>7, <4>1
      <3>8. ASSUME NEW p \in a.retained, r \in RecordsOf(p)
            PROVE  FALSE
        <4>1. p = c
          BY <3>5, <3>8, StoredRecords
        <4> QED BY <1>4, <3>8, <4>1 DEF Settled, Probed
      <3> QED BY <3>6, <3>7, <3>8
    <2>4. CASE RecordsOf(c) \subseteq f.records
      BY <2>1, <2>4 DEF Accounted
    <2>5. CASE f = Parse(c) /\ f.skipped = {}
      <3>1. c \notin Probe(in, a.heavy, a.retained).skipped
        BY <2>5, SkippedByItself
      <3>2. c \notin a.preserved
        BY <1>4, <3>1 DEF Settled, Probed
      <3>3. Parse(c).records \subseteq a.payload.records
        BY <2>1, <2>5
      <3> QED BY <1>4, <3>2, <3>3 DEF Accounted
    <2> QED BY <2>2, <2>3, <2>4, <2>5
  <1> QED BY <1>1, <1>2, <1>3, <1>4 DEF Settled

\* The sessions of a path that may be replaced are touched.
LEMMA OpenIsTouched ==
  ASSUME IInv, NEW in \in SyncInputs, NEW a, Settled(a, in),
         NEW p \in Opening(a)
  PROVE  Names(p, Touched(a.payload, Affected(in)))
  <1> DEFINE T == Touched(a.payload, Affected(in))
             f == ProbeFile(p, a.heavy, in.broken, in.old)
             g == ProbeFile(p, FirstLoad(in), in.broken, in.old)
  <1>1. p \in in.files
    <2>1. PICK b \in a.payload.blobs : PathOf[b[1]] = p
      BY DEF PathsOf, BlobIds, Opening
    <2>2. \/ \E q \in in.files : b \in ProbeFile(q, a.heavy, in.broken, in.old).blobs
          \/ \E q \in a.retained : b \in Retain(q).blobs
      BY ProbeParts DEF Settled, Probed
    <2>3. ASSUME NEW q \in in.files, b \in ProbeFile(q, a.heavy, in.broken, in.old).blobs
          PROVE  PathOf[b[1]] = q
      BY <2>3, ProbeFileFound DEF FileFound
    <2>4. ASSUME NEW q \in a.retained, b \in Retain(q).blobs
          PROVE  PathOf[b[1]] = q
      BY <2>4, RetainFound DEF FileFound
    <2>5. p \notin a.retained
      BY DEF Settled, Probed, Opening
    <2> QED BY <2>1, <2>2, <2>3, <2>4, <2>5
  <1>2. p \notin in.broken
    <2> SUFFICES ASSUME p \in in.broken PROVE FALSE
      OBVIOUS
    <2>1. f.failed = {p}
      BY ProbeFileFails
    <2>2. f.failed \subseteq a.payload.failed
      BY <1>1, ProbeParts DEF Settled, Probed
    <2> QED BY <2>1, <2>2 DEF Settled, Probed, Opening
  <1>3. /\ f.records \subseteq a.payload.records
        /\ f.skipped \subseteq a.payload.skipped
    BY <1>1, ProbeParts DEF Settled, Probed
  <1>4. p \notin f.skipped
    BY <1>3 DEF Settled, Probed, Opening
  <1>5. RecordsOf(p) \subseteq f.records \/ (~Unchanged(p) /\ ~CanAppend(p, a.heavy) /\ f = Parse(p))
    <2>1. f.skipped # {p}
      BY <1>4
    <2> QED BY <1>1, <1>2, <2>1, ProbeFileWays
  <1>6. CASE RecordsOf(p) \subseteq f.records
    <2>1. \A r \in records : PathOf[r.blob] = p => r \in a.payload.records
      BY <1>3, <1>6, StoredRecords
    <2> QED BY <2>1 DEF Names, Touched, SessionsOf
  <1>7. CASE ~Unchanged(p) /\ ~CanAppend(p, a.heavy)
    <2>1. ~CanAppend(p, FirstLoad(in))
      <3> SUFFICES ASSUME CanAppend(p, FirstLoad(in)) PROVE FALSE
        OBVIOUS
      <3>1. HasPrevious(p, FirstLoad(in))
        BY DEF CanAppend
      <3>2. p \in a.heavy
        BY <3>1 DEF HasPrevious, Settled, Probed
      <3>3. HasPrevious(p, a.heavy)
        BY <3>1, <3>2 DEF HasPrevious
      <3> QED BY <1>7, <3>3, AppendWhenLoaded
    <2>2. g = Parse(p)
      BY <1>2, <1>7, <2>1 DEF ProbeFile, Unchanged
    <2>3. <<file[p].content, file[p].time>> \in g.blobs /\ g.skipped = {}
      BY <2>2 DEF Parse, Found
    <2>4. g.blobs \subseteq First(in).blobs
      BY <1>1, ProbeParts DEF First
    <2>5. p \notin First(in).skipped
      BY <2>3, SkippedByItself DEF First
    <2>6. file[p].content \in BlobIds(First(in))
      <3> HIDE DEF g
      <3> QED BY <2>3, <2>4 DEF BlobIds
    <2>7. p \in Affected(in)
      <3>1. PathOf[file[p].content] = p
        BY <1>1, FileThere
      <3> QED BY <2>5, <2>6, <3>1 DEF Affected, PathsOf
    <2>8. \A r \in records : captured[r.blob] # 0
      BY StoredRecords
    <2> QED BY <2>7, <2>8 DEF Names, Touched, SessionsOf
  <1> QED BY <1>5, <1>6, <1>7

\* So the attempt of a sync covers what it touches.
LEMMA AttemptCovers ==
  ASSUME IInv, OneSessionRows, NEW in \in SyncInputs
  PROVE  Covers(Attempt(in), in)
  <1> DEFINE w == Attempt(in)
  <1>1. PICK a : /\ Settled(a, in)
                 /\ w = [a EXCEPT !.refused = @ \cup PathsOf(a.payload.audits \cap BlobIds(a.payload))]
    BY AttemptSettles
  <1> HIDE DEF w
  <1>2. /\ w.payload = a.payload /\ w.preserved = a.preserved /\ a.refused \subseteq w.refused
    BY <1>1 DEF Settled, Probed, AttemptRecord
  <1> DEFINE T == Touched(a.payload, Affected(in))
  <1>3. SessionsOf(w.payload.records) \subseteq T
    BY <1>2 DEF Touched
  <1>4. \A p \in Opening(w) : Names(p, T)
    <2> HIDE DEF T
    <2>1. \A p \in Opening(a) : Names(p, T)
      BY <1>1, OpenIsTouched DEF T
    <2> QED BY <1>2, <2>1 DEF Opening
  <1>5. \A r \in records : r.session \in T => Accounted(PathOf[r.blob], w, in)
    <2> SUFFICES ASSUME NEW r \in records, r.session \in T
                 PROVE  Accounted(PathOf[r.blob], w, in)
      OBVIOUS
    <2>1. PathOf[r.blob] \in Contributors(a.payload, Affected(in))
      BY ContributorsAre
    <2>2. Accounted(PathOf[r.blob], a, in)
      BY <1>1, <2>1, SettledAccounts
    <2> QED BY <1>2, <2>2 DEF Accounted
  <1> HIDE DEF T
  <1>6. Covers(w, in)
    BY <1>3, <1>4, <1>5 DEF Covers
  <1> QED BY <1>6 DEF w

-----------------------------------------------------------------------------
(* Records leave by a rewrite of their file *)

\* The record r may leave: its file is there and does not hold its message.
RewrittenWithout(r) ==
    LET c == file[PathOf[r.blob]].content IN c # Gone /\ r.msg \notin MsgsOf[c]

\* Sessions and paths of a plan: where a changed session comes from, and what a
\* path is kept back for.
LEMMA PlanOrigins ==
  ASSUME IInv, NEW a, NEW in
  PROVE  /\ \A s \in Plan(a, in).changed : \/ s \in SessionsOf(a.payload.records)
                                           \/ \E r \in records : r.session = s /\ PathOf[r.blob] \in Opening(a)
         /\ \A c \in Plan(a, in).preserve : \/ c \in a.preserved
                                            \/ \E r, q \in records : /\ PathOf[r.blob] = c
                                                                     /\ PathOf[q.blob] \in a.refused
                                                                     /\ r.session = q.session
  <1> DEFINE open == (PathsOf(BlobIds(a.payload)) \ a.preserved) \ a.refused
             replace == {p \in open : SessionsAt(Current, {p}) \cap SessionsAt(Current, a.refused) = {}}
             preserve == a.preserved \cup (open \ replace)
             new == SessionsOf({r \in a.payload.records :
                       PathOf[r.blob] \notin a.preserved \cup a.refused \cup (open \ replace)})
             changed == SessionsAt(Current, replace) \cup new
             p == Plan(a, in)
  <1>1. p = [replace |-> replace, preserve |-> preserve, changed |-> changed, shared |-> p.shared]
    BY DEF Plan
  <1>2. \A S : SessionsAt(Current, S) = SessionsOf({r \in records : captured[r.blob] # 0 /\ PathOf[r.blob] \in S})
    BY DEF SessionsAt, Current
  <1>3. \A S : \A s \in SessionsAt(Current, S) : \E r \in records : r.session = s /\ PathOf[r.blob] \in S
    BY <1>2 DEF SessionsOf
  <1>4. new \subseteq SessionsOf(a.payload.records) /\ replace \subseteq open
    BY DEF SessionsOf
  <1>5. \A s \in changed : \/ s \in SessionsOf(a.payload.records)
                           \/ \E r \in records : r.session = s /\ PathOf[r.blob] \in open
    <2> HIDE DEF new, replace
    <2> QED BY <1>3, <1>4
  <1>6. ASSUME NEW c \in open \ replace
        PROVE  \E r, q \in records : /\ PathOf[r.blob] = c /\ PathOf[q.blob] \in a.refused
                                     /\ r.session = q.session
    <2>1. PICK s : s \in SessionsAt(Current, {c}) /\ s \in SessionsAt(Current, a.refused)
      OBVIOUS
    <2>2. PICK r \in records : r.session = s /\ PathOf[r.blob] \in {c}
      BY <1>3, <2>1
    <2>3. PICK q \in records : q.session = s /\ PathOf[q.blob] \in a.refused
      BY <1>3, <2>1
    <2> QED BY <2>2, <2>3
  <1> HIDE DEF p, replace, new, changed, preserve
  <1>7. p.changed = changed /\ p.preserve = preserve
    BY <1>1
  <1>8. /\ \A s \in p.changed : \/ s \in SessionsOf(a.payload.records)
                                \/ \E r \in records : r.session = s /\ PathOf[r.blob] \in open
        /\ \A c \in p.preserve : \/ c \in a.preserved
                                 \/ \E r, q \in records : /\ PathOf[r.blob] = c
                                                          /\ PathOf[q.blob] \in a.refused
                                                          /\ r.session = q.session
    BY <1>5, <1>6, <1>7 DEF preserve
  <1> QED BY <1>8 DEF p, Opening

\* A path that is replaced is none of those that are preserved.
LEMMA ReplacedIsNotPreserved ==
  ASSUME NEW a, NEW in
  PROVE  Plan(a, in).replace \cap Plan(a, in).preserve = {}
  BY DEF Plan

\* A message that the merge of the parser rows takes away is not in its file.
LEMMA MergeLeaves ==
  ASSUME IInv, OneSessionRows, NEW in \in SyncInputs, NEW a, AttemptFound(a, in), Covers(a, in),
         NEW r \in records, \A q \in MergeRows(a, in).records : q.msg # r.msg
  PROVE  RewrittenWithout(r)
  <1> DEFINE p == Plan(a, in)
             P == PathOf[r.blob]
  <1>1. Merged(MergeRows(a, in), a, p) /\ Planned(p, a, in)
    BY MergeMade, PlanMade
  <1>2. /\ \A s \in p.changed : \/ s \in SessionsOf(a.payload.records)
                                \/ \E q \in records : q.session = s /\ PathOf[q.blob] \in Opening(a)
        /\ \A c \in p.preserve : \/ c \in a.preserved
                                 \/ \E u, q \in records : /\ PathOf[u.blob] = c
                                                          /\ PathOf[q.blob] \in a.refused
                                                          /\ u.session = q.session
    BY PlanOrigins
  <1> HIDE DEF p
  <1>3. \A q \in Incoming(a, p) : q.msg # r.msg
    BY <1>1 DEF Merged
  <1>4. Drops(p, Old(p), r)
    <2> SUFFICES ASSUME ~Drops(p, Old(p), r) PROVE FALSE
      OBVIOUS
    <2>1. ~\E q \in Incoming(a, p) : SameRecord(r, q)
      BY <1>3 DEF SameRecord
    <2>2. r \in MergeRows(a, in).records
      BY <1>1, <2>1 DEF Merged
    <2> QED BY <2>2
  <1>5. r.session \in p.changed
    BY <1>4 DEF Drops
  <1>6. ~\E q \in records : q.session = r.session /\ PathOf[q.blob] \in a.refused /\ P \notin p.replace
    BY <1>1, <1>4 DEF Planned, Held, Drops, Old
  <1>7. P \notin a.refused
    BY <1>1, <1>6 DEF Planned, Held
  <1>8. Accounted(P, a, in)
    <2>1. PICK T : /\ SessionsOf(a.payload.records) \subseteq T
                   /\ \A c \in Opening(a) : Names(c, T)
                   /\ \A q \in records : q.session \in T => Accounted(PathOf[q.blob], a, in)
      BY DEF Covers
    <2>2. r.session \in T
      BY <1>2, <1>5, <2>1 DEF Names
    <2> QED BY <2>1, <2>2
  <1>9. r \notin a.payload.records
    BY <1>3, <1>5, <1>7 DEF Incoming
  <1>10. P \in in.files /\ P \notin a.preserved /\ Parse(P).records \subseteq a.payload.records
    BY <1>7, <1>8, <1>9, StoredRecords DEF Accounted
  <1> DEFINE c == file[P].content
             q == [session |-> SessionOf[c], blob |-> c, msg |-> r.msg, by |-> parser]
  <1>11. P \in Path /\ c \in Content /\ PathOf[c] = P /\ c # Gone
    BY <1>10, FileThere, SessionMergeAssumption
  <1>12. ASSUME r.msg \in MsgsOf[c]
         PROVE  FALSE
    <2>1. q \in Parse(P).records
      BY <1>12 DEF Parse, Found
    <2>2. q \in a.payload.records /\ PathOf[q.blob] = P /\ q.msg = r.msg
      BY <1>10, <1>11, <2>1
    <2> HIDE DEF q
    <2>3. q \notin Incoming(a, p)
      BY <1>3, <2>2
    <2>4. P \in p.preserve
      BY <1>1, <1>7, <2>2, <2>3 DEF Incoming, Planned
    <2>5. PICK u, v \in records : PathOf[u.blob] = P /\ PathOf[v.blob] \in a.refused /\ u.session = v.session
      BY <1>2, <1>10, <2>4
    <2>6. v.session = r.session
      BY <2>5 DEF OneSessionRows
    <2>7. P \notin p.replace
      <3>1. p.replace \cap p.preserve = {}
        BY ReplacedIsNotPreserved DEF p
      <3> QED BY <2>4, <3>1
    <2> QED BY <1>6, <2>5, <2>6, <2>7
  <1> QED BY <1>11, <1>12 DEF RewrittenWithout

\* Before the first sync nothing is stored.
EmptyAtFirst == stage = 0 => records = {}

\* And only before the first sync is there no stage.
LEMMA FirstIsEmpty == Spec => []EmptyAtFirst
  <1>1. Init => EmptyAtFirst
    BY DEF Init, EmptyAtFirst
  <1>2. IInv /\ EmptyAtFirst /\ [Next]_vars => EmptyAtFirst'
    <2> SUFFICES ASSUME IInv, EmptyAtFirst, [Next]_vars PROVE EmptyAtFirst'
      OBVIOUS
    <2>1. ASSUME NEW in \in SyncInputs, SyncWith(in)
          PROVE  stage' # 0
      <3>1. stage' = parser \/ (stage # 0 /\ stage' = stage)
        BY <2>1 DEF SyncWith, NextStage
      <3>2. parser # 0
        BY SessionMergeAssumption DEF IInv, TypeOK, Versions
      <3> QED BY <3>1, <3>2
    <2>2. CASE Sync
      BY <2>1, <2>2 DEF Sync, EmptyAtFirst
    <2>3. CASE UNCHANGED <<stage, records>>
      BY <2>3 DEF EmptyAtFirst
    <2> QED BY <2>2, <2>3 DEF Next, Write, Remove, Upgrade, store, vars
  <1> QED BY <1>1, <1>2, Inductive, PTL DEF Spec

\* The records a sync leaves are those of the merge, or of the first payload.
LEMMA OutcomeRecords ==
  ASSUME IInv, NEW in \in SyncInputs, NEW a, AttemptFound(a, in)
  PROVE  \/ stage = 0 /\ Outcome(a, in).records = a.payload.records
         \/ Outcome(a, in).records = records
         \/ stage # 0 /\ Outcome(a, in).records = MergeRows(a, in).records
  <1> DEFINE W == Outcome(a, in)
             M == MergeRows(a, in)
  <1>1. CASE stage # 0 /\ MetadataOnly(a)
    <2>1. W = Current \/ W = Reconcile(Current, Observed(a, in))
      BY <1>1 DEF Outcome
    <2>2. Current.records = records
      BY DEF Current
    <2> HIDE DEF W
    <2>3. W.records = records
      BY <2>1, <2>2, CurrentRows, ReconcileKeeps
    <2> QED BY <2>3 DEF W
  <1>2. CASE stage # 0 /\ ~MetadataOnly(a)
    <2>1. Merged(M, a, Plan(a, in)) /\ Rows(M)
      BY MergeMade DEF Merged
    <2>2. ParserRows(M) /\ Sidecars(M)
      BY <2>1, PlanMade, MergedParserRows, MergedSidecars
    <2>3. W = WriteSidecars(M, a, in)
      BY <1>2 DEF Outcome
    <2> HIDE DEF W, M
    <2>4. W.records = M.records
      BY <2>1, <2>2, <2>3, SidecarsWritten
    <2> QED BY <1>2, <2>4 DEF W, M
  <1>3. CASE stage = 0
    BY <1>3 DEF Outcome, Replace
  <1> QED BY <1>1, <1>2, <1>3

\* What a sync takes away was rewritten.
LEMMA SyncLeaves ==
  ASSUME IInv, EmptyAtFirst, OneSessionRows, NEW in \in SyncInputs, SyncWith(in),
         NEW r \in records, \A q \in records' : q.msg # r.msg
  PROVE  RewrittenWithout(r)
  <1> DEFINE a == Attempt(in)
             W == Outcome(a, in)
  <1>1. records' = W.records
    BY DEF SyncWith
  <1>2. AttemptFound(a, in) /\ Covers(a, in)
    BY AttemptMade, AttemptCovers
  <1> HIDE DEF a
  <1>3. stage # 0
    BY DEF EmptyAtFirst
  <1>4. W.records = records \/ W.records = MergeRows(a, in).records
    BY <1>2, <1>3, OutcomeRecords
  <1> HIDE DEF W
  <1>5. W.records # records
    BY <1>1
  <1> QED BY <1>1, <1>2, <1>4, <1>5, MergeLeaves

\* As long as every stored row of a file names one session, a message leaves
\* raw_records only when its file is there without it, for any number of files that
\* share sessions, are removed, cannot be read or are listed in part
\* (sync.ts 676-720, source-payload.ts 241-500).
THEOREM RecordsLeave == Spec /\ []OneSessionRows => RecordsLeaveByRewrite
  <1> DEFINE Leaves == \A r \in records : (\A q \in records' : q.msg # r.msg) =>
                 LET c == file[PathOf[r.blob]].content IN c # Gone /\ r.msg \notin MsgsOf[c]
  <1>1. IInv /\ EmptyAtFirst /\ OneSessionRows /\ [Next]_vars => [Leaves]_vars
    <2> SUFFICES ASSUME IInv, EmptyAtFirst, OneSessionRows, Next,
                        NEW r \in records, \A q \in records' : q.msg # r.msg
                 PROVE  RewrittenWithout(r)
      BY DEF RewrittenWithout
    <2>1. CASE Sync
      BY <2>1, SyncLeaves DEF Sync
    <2>2. CASE ~Sync
      <3>1. records' = records
        BY <2>2 DEF Next, Write, Remove, Upgrade, store
      <3> QED BY <3>1
    <2> QED BY <2>1, <2>2
  <1> QED BY <1>1, Inductive, FirstIsEmpty, PTL DEF Spec, RecordsLeaveByRewrite

\* No file is rewritten as another session.
OneSessionFiles == \A c, d \in Content : PathOf[c] = PathOf[d] => SessionOf[c] = SessionOf[d]

\* Every record is of the session its blob names.
NamedByBlob == \A r \in records : r.session = SessionOf[r.blob]

\* Then a probe attributes its records to the sessions of their files.
LEMMA PayloadNamed ==
  ASSUME OneSessionFiles, IInv, NamedByBlob, NEW in, NEW a, AttemptFound(a, in),
         NEW r \in a.payload.records
  PROVE  r.session = SessionOf[r.blob]
  <1>1. r.blob \in Content /\ Attributed(r, a.payload.audits)
    BY DEF AttemptFound, PayloadFound, Record
  <1>2. ASSUME r.session \in SessionsOf(RecordsOf(PathOf[r.blob]))
        PROVE  r.session = SessionOf[r.blob]
    <2>1. PICK q \in RecordsOf(PathOf[r.blob]) : q.session = r.session
      BY <1>2 DEF SessionsOf
    <2>2. q \in records /\ q.blob \in Content /\ PathOf[q.blob] = PathOf[r.blob]
      BY StoredRecords
    <2> QED BY <1>1, <2>1, <2>2 DEF NamedByBlob, OneSessionFiles
  <1> QED BY <1>1, <1>2 DEF Attributed

\* And every stored row keeps to it.
LEMMA RowsNamed ==
  ASSUME OneSessionFiles
  PROVE  Spec => []NamedByBlob
  <1>1. Init => NamedByBlob
    BY DEF Init, NamedByBlob
  <1>2. IInv /\ NamedByBlob /\ [Next]_vars => NamedByBlob'
    <2> SUFFICES ASSUME IInv, NamedByBlob, [Next]_vars PROVE NamedByBlob'
      OBVIOUS
    <2>1. ASSUME NEW in \in SyncInputs, SyncWith(in)
          PROVE  NamedByBlob'
      <3> DEFINE a == Attempt(in)
                 W == Outcome(a, in)
      <3>1. records' = W.records
        BY <2>1 DEF SyncWith
      <3>2. AttemptFound(a, in)
        BY AttemptMade
      <3> HIDE DEF a
      <3>3. Incoming(a, Plan(a, in)) \subseteq a.payload.records
        BY DEF Incoming
      <3>4. MergeRows(a, in).records \subseteq records \cup a.payload.records
        <4> DEFINE M == MergeRows(a, in)
        <4>1. Merged(M, a, Plan(a, in))
          BY MergeMade
        <4> HIDE DEF M
        <4>2. M.records \subseteq records \cup Incoming(a, Plan(a, in))
          BY <4>1 DEF Merged
        <4> QED BY <3>3, <4>2 DEF M
      <3>5. W.records \subseteq records \cup a.payload.records
        BY <3>2, <3>4, OutcomeRecords
      <3> HIDE DEF W
      <3> QED BY <3>1, <3>2, <3>5, PayloadNamed DEF NamedByBlob
    <2>2. CASE Sync
      BY <2>1, <2>2 DEF Sync
    <2>3. CASE UNCHANGED records
      BY <2>3 DEF NamedByBlob
    <2> QED BY <2>2, <2>3 DEF Next, Write, Remove, Upgrade, store, vars
  <1> QED BY <1>1, <1>2, Inductive, PTL DEF Spec

\* So it is for files that are appended to, rewritten, removed and restored as
\* long as none becomes a file of another session.
THEOREM RecordsLeaveOneSession ==
  ASSUME OneSessionFiles
  PROVE  Spec => RecordsLeaveByRewrite
  <1>1. IInv /\ NamedByBlob => OneSessionRows
    <2> SUFFICES ASSUME IInv, NamedByBlob, NEW r \in records, NEW q \in records,
                        PathOf[r.blob] = PathOf[q.blob]
                 PROVE  r.session = q.session
      BY DEF OneSessionRows
    <2>1. r.blob \in Content /\ q.blob \in Content
      BY StoredRecords
    <2> QED BY <2>1 DEF NamedByBlob, OneSessionFiles
  <1> QED BY <1>1, Inductive, RowsNamed, RecordsLeave, PTL

-----------------------------------------------------------------------------
(* Files that share no session *)

\* No two files hold the same session.
OneFileSessions == \A c, d \in Content : SessionOf[c] = SessionOf[d] => PathOf[c] = PathOf[d]

\* The sessions that the contents of the file at p name.
Owns(p) == {SessionOf[c] : c \in {d \in Content : PathOf[d] = p}}

\* Then a session has one file.
LEMMA OneOwner ==
  ASSUME OneFileSessions
  PROVE  \A s, p, q : s \in Owns(p) /\ s \in Owns(q) => p = q
  BY DEF OneFileSessions, Owns

\* Rows name sessions of their file, a record a message of its blob, and the
\* ledger a blob of its path.
Owned(W) ==
    /\ \A r \in W.records : r.session \in Owns(PathOf[r.blob]) /\ r.msg \in MsgsOf[r.blob]
    /\ \A x \in W.spans : x.session \in Owns(PathOf[x.blob])
    /\ \A p \in Path : /\ W.ledger[p].refs \subseteq Owns(p)
                       /\ W.ledger[p].blob # Gone => PathOf[W.ledger[p].blob] = p
    /\ \A t \in W.turns : t.blobs # {} /\ \A b \in t.blobs : t.session \in Owns(PathOf[b])

\* What a turn shows is in a record of its session.
Backed(W) == \A t \in W.turns : \A m \in t.msgs : \E r \in W.records : r.session = t.session /\ r.msg = m

\* The user's message of a record is shown, unless a line of its file is bad.
Visible(W) ==
    \A r \in W.records : r.msg \in Users /\ r.blob \notin Bad =>
        \E t \in W.turns : t.session = r.session /\ r.msg \in t.msgs

\* A record of a file with a bad line was parsed as a whole and audited.
Audited(W) ==
    /\ \A b \in W.audits : b \in Bad /\ W.captured[b] # 0
    /\ \A r \in W.records : r.blob \in Bad => r.blob \in W.audits /\ r.session = SessionOf[r.blob]

\* The ledger has every path that has a blob.
Listed(W) == \A c \in Content : W.captured[c] # 0 => HasLedger(W, PathOf[c])

\* The two sides of the store agree.
Agrees(W) == Owned(W) /\ Backed(W) /\ Visible(W) /\ Audited(W) /\ Listed(W)

\* A turn shows messages of records of its session, and every message of the user
\* is in a turn.
LEMMA ProjectionCovers ==
  ASSUME NEW rs \in SUBSET Record
  PROVE  /\ \A t \in Project(rs) : /\ t.blobs # {}
                                   /\ \A b \in t.blobs : \E r \in rs : r.blob = b /\ r.session = t.session
                                   /\ \A m \in t.msgs : \E r \in rs : r.session = t.session /\ r.msg = m
         /\ \A r \in rs : r.msg \in Users => \E t \in Project(rs) : t.session = r.session /\ r.msg \in t.msgs
  <1> DEFINE MsgsIn(s) == {r.msg : r \in {q \in rs : q.session = s}}
             TurnMsgs(s, u) == {m \in MsgsIn(s) : m >= u /\ \A v \in Starts(MsgsIn(s)) : v > u => m < v}
             TurnBlobs(s, u) == {r.blob : r \in {q \in rs : q.session = s /\ q.msg \in TurnMsgs(s, u)}}
             Position(s, u) == Cardinality(Before(Starts(MsgsIn(s)), u))
             TurnFrom(s, u) == [session |-> s, n |-> Position(s, u), msgs |-> TurnMsgs(s, u),
                                blobs |-> TurnBlobs(s, u), axis |-> "current"]
  <1>1. Project(rs) = UNION {{TurnFrom(s, u) : u \in Starts(MsgsIn(s))} : s \in SessionsOf(rs)}
    BY DEF Project
  <1>2. \A s : MsgsIn(s) \subseteq Nat /\ Starts(MsgsIn(s)) \subseteq MsgsIn(s)
    BY SessionMergeAssumption DEF Record, Msgs, Starts
  <1>3. \A s : \A m \in MsgsIn(s) : \E r \in rs : r.session = s /\ r.msg = m
    OBVIOUS
  <1>4. \A s, u : \A b \in TurnBlobs(s, u) : \E r \in rs : r.blob = b /\ r.session = s
    OBVIOUS
  <1>5. \A s : \A u \in Starts(MsgsIn(s)) : u \in TurnMsgs(s, u)
    <2> SUFFICES ASSUME NEW s, NEW u \in Starts(MsgsIn(s)) PROVE u \in TurnMsgs(s, u)
      OBVIOUS
    <2>1. u \in MsgsIn(s) /\ u \in Nat
      BY <1>2
    <2> HIDE DEF MsgsIn
    <2> QED BY <2>1
  <1>6. \A s : \A u \in Starts(MsgsIn(s)) : TurnBlobs(s, u) # {}
    <2> SUFFICES ASSUME NEW s, NEW u \in Starts(MsgsIn(s)) PROVE TurnBlobs(s, u) # {}
      OBVIOUS
    <2>1. PICK r \in rs : r.session = s /\ r.msg = u
      <3>1. u \in MsgsIn(s)
        BY <1>2
      <3> HIDE DEF MsgsIn
      <3> QED BY <1>3, <3>1
    <2>2. r.msg \in TurnMsgs(s, u)
      BY <1>5, <2>1
    <2> HIDE DEF TurnMsgs
    <2>3. r.blob \in TurnBlobs(s, u)
      BY <2>1, <2>2
    <2> QED BY <2>3
  <1>7. ASSUME NEW r \in rs, r.msg \in Users
        PROVE  \E u \in Starts(MsgsIn(r.session)) : r.msg \in TurnMsgs(r.session, u)
    <2> DEFINE s == r.session
               M == MsgsIn(s)
               U == M \cap Users
               T == {v \in Starts(M) : v <= r.msg}
    <2>1. r.msg \in U /\ U \in SUBSET Nat /\ Starts(M) \in SUBSET Nat /\ r.msg \in Nat
      <3>1. r.msg \in M
        OBVIOUS
      <3>2. M \subseteq Nat /\ Starts(M) \subseteq M
        BY <1>2
      <3> HIDE DEF M
      <3> QED BY <1>7, <3>1, <3>2
    <2> HIDE DEF U, MsgsIn
    <2>2. PICK w \in U : \A v \in U : w <= v
      BY <2>1, NatMin
    <2>3. Before(U, w) = {}
      <3>1. \A x \in Before(U, w) : x \in U /\ x < w
        BY DEF Before
      <3>2. \A x \in U : x \in Nat /\ w \in Nat /\ w <= x
        BY <2>1, <2>2
      <3> QED BY <3>1, <3>2
    <2>4. w \in Starts(M)
      BY <2>2, <2>3 DEF Starts, U
    <2>5. w \in T /\ T \in SUBSET Nat /\ \A t \in T : t <= r.msg
      BY <2>1, <2>2, <2>4
    <2> HIDE DEF T
    <2>6. PICK u \in T : \A v \in T : v <= u
      BY <2>1, <2>5, NatMax
    <2>7. u \in Starts(M) /\ u <= r.msg /\ u \in Nat
      BY <2>1, <2>6 DEF T
    <2>8. ASSUME NEW v \in Starts(M), v > u
          PROVE  r.msg < v
      <3>1. v \in Nat
        BY <2>1
      <3>2. v \notin T
        BY <2>6, <2>7, <2>8, <3>1
      <3>3. ~(v <= r.msg)
        BY <3>2 DEF T
      <3> QED BY <2>1, <3>1, <3>3
    <2>9. r.msg \in M
      BY <2>1 DEF U
    <2>10. r.msg \in TurnMsgs(s, u)
      BY <2>1, <2>7, <2>8, <2>9
    <2> QED BY <2>7, <2>10
  <1> HIDE DEF MsgsIn, TurnMsgs, TurnBlobs, Position
  <1>8. \A t \in Project(rs) : \E s \in SessionsOf(rs) : \E u \in Starts(MsgsIn(s)) : t = TurnFrom(s, u)
    <2> HIDE DEF TurnFrom
    <2> QED BY <1>1
  <1>9. \A s, u : TurnMsgs(s, u) \subseteq MsgsIn(s)
    BY DEF TurnMsgs
  <1>10. ASSUME NEW t \in Project(rs)
         PROVE  /\ t.blobs # {}
                /\ \A b \in t.blobs : \E r \in rs : r.blob = b /\ r.session = t.session
                /\ \A m \in t.msgs : \E r \in rs : r.session = t.session /\ r.msg = m
    <2>1. PICK s, u : u \in Starts(MsgsIn(s)) /\ t = TurnFrom(s, u)
      BY <1>8
    <2>2. t.session = s /\ t.blobs = TurnBlobs(s, u) /\ t.msgs = TurnMsgs(s, u)
      BY <2>1
    <2> QED BY <1>3, <1>4, <1>6, <1>9, <2>1, <2>2
  <1>11. ASSUME NEW r \in rs, r.msg \in Users
         PROVE  \E t \in Project(rs) : t.session = r.session /\ r.msg \in t.msgs
    <2>1. PICK u \in Starts(MsgsIn(r.session)) : r.msg \in TurnMsgs(r.session, u)
      BY <1>7, <1>11
    <2>2. r.session \in SessionsOf(rs)
      BY DEF SessionsOf
    <2>3. TurnFrom(r.session, u) \in Project(rs)
      <3> HIDE DEF TurnFrom
      <3> QED BY <1>1, <2>2
    <2>4. TurnFrom(r.session, u).session = r.session /\ TurnFrom(r.session, u).msgs = TurnMsgs(r.session, u)
      OBVIOUS
    <2> HIDE DEF TurnFrom
    <2> QED BY <2>1, <2>3, <2>4
  <1> QED BY <1>10, <1>11


-----------------------------------------------------------------------------
(* What a probe keeps of the rows of a file *)

\* The probe of the file at p finds rows of its sessions, and audits the file when a
\* row is of a content that does not parse.  It skips the file with nothing or
\* with what is stored, or misses no stored message that the file still holds.
FileKept(f, p) ==
    /\ \A r \in f.records : /\ r.session \in Owns(p) /\ r.msg \in MsgsOf[r.blob]
                            /\ r \in records \/ r.blob = file[p].content
                            /\ r.blob \in Bad => r.blob \in f.audits
                            /\ ~ProfileMatches => r.session = SessionOf[r.blob]
    /\ \A b \in f.audits : b \in Bad /\ \E x \in f.blobs : x[1] = b
    /\ f.skipped # {} => f.records = {} \/ f.records = RecordsOf(p)
    /\ f.skipped = {} /\ f.failed = {} =>
          \A r \in RecordsOf(p) : r.msg \in MsgsOf[file[p].content] => \E q \in f.records : q.msg = r.msg
    /\ \A x \in f.blobs : SizeOf[x[1]] <= SizeOf[file[p].content]
    /\ f.blobs # {} => \E x \in f.blobs : x[1] = file[p].content

\* A content names a session of its path.
LEMMA OwnSession ==
  ASSUME NEW c \in Content
  PROVE  SessionOf[c] \in Owns(PathOf[c])
  BY DEF Owns

\* A stored row is as what is stored says.
LEMMA StoredAgree ==
  ASSUME IInv, Owned(Current), Audited(Current), NEW p
  PROVE  /\ \A r \in RecordsOf(p) : /\ r \in records /\ r.session \in Owns(p) /\ r.msg \in MsgsOf[r.blob]
                                    /\ r.blob \in Stored(p)
                                    /\ r.blob \in Bad => r.blob \in audits \cap Stored(p) /\ r.session = SessionOf[r.blob]
         /\ audits \subseteq Bad
  <1>1. Current.records = records /\ Current.audits = audits
    BY DEF Current
  <1>2. \A r \in RecordsOf(p) : r \in records /\ r.blob \in Stored(p) /\ PathOf[r.blob] = p
    BY StoredRecords
  <1> QED BY <1>1, <1>2 DEF Owned, Audited

\* A file that is parsed.
LEMMA ParseKept ==
  ASSUME IInv, NEW in \in SyncInputs, NEW p \in in.files
  PROVE  FileKept(Parse(p), p)
  <1> DEFINE c == file[p].content
             f == Parse(p)
  <1>1. p \in Path /\ c \in Content /\ PathOf[c] = p
    BY FileThere
  <1>2. /\ f.blobs = {<<c, file[p].time>>} /\ f.audits = Bad \cap {c}
        /\ f.records = {[session |-> SessionOf[c], blob |-> c, msg |-> m, by |-> parser] : m \in MsgsOf[c]}
        /\ f.skipped = {} /\ f.failed = {}
    BY DEF Parse, Found
  <1> HIDE DEF f
  <1>3. \A r \in f.records : r.session = SessionOf[c] /\ r.blob = c /\ r.msg \in MsgsOf[c]
    BY <1>2
  <1>4. SessionOf[c] \in Owns(p)
    BY <1>1, OwnSession
  <1>5. \A r \in RecordsOf(p) : r.msg \in MsgsOf[c] => \E q \in f.records : q.msg = r.msg
    <2> SUFFICES ASSUME NEW m \in MsgsOf[c] PROVE \E q \in f.records : q.msg = m
      OBVIOUS
    <2>1. [session |-> SessionOf[c], blob |-> c, msg |-> m, by |-> parser] \in f.records
      BY <1>2
    <2> QED BY <2>1
  <1>6. <<c, file[p].time>>[1] = c /\ SizeOf[c] <= SizeOf[c]
    BY <1>1, SessionMergeAssumption
  <1>7. \A x \in f.blobs : x[1] = c
    BY <1>2
  <1>8. \E x \in f.blobs : x[1] = c
    BY <1>2, <1>6
  <1> QED BY <1>2, <1>3, <1>4, <1>5, <1>6, <1>7, <1>8 DEF FileKept, f

\* A file that is reused.
LEMMA ReuseKept ==
  ASSUME IInv, Owned(Current), Audited(Current), NEW in \in SyncInputs, NEW p \in in.files,
         NEW heavy, NEW skip \in BOOLEAN, Unchanged(p)
  PROVE  FileKept(Reuse(p, heavy, skip), p)
  <1> DEFINE c == file[p].content
             f == Reuse(p, heavy, skip)
  <1>1. p \in Path /\ c \in Content /\ PathOf[c] = p /\ SizeOf[c] <= SizeOf[c]
    BY FileThere, SessionMergeAssumption
  <1>2. ProfileMatches /\ Stored(p) # {} /\ Tail(p) = c
    BY DEF Unchanged
  <1>3. <<c, file[p].time>>[1] = c
    OBVIOUS
  <1>4. CASE ~HasPrevious(p, heavy)
    <2>1. /\ f.blobs \subseteq {<<c, file[p].time>>} /\ f.records = {} /\ f.audits = {}
          /\ f.skipped = {p}
      BY <1>4 DEF Reuse, Found
    <2> HIDE DEF f
    <2>2. \A x \in f.blobs : x[1] = c
      BY <1>3, <2>1
    <2>3. FileKept(f, p)
      BY <1>1, <2>1, <2>2 DEF FileKept
    <2> QED BY <2>3 DEF f
  <1>5. CASE HasPrevious(p, heavy)
    <2>1. /\ f.blobs = Kept(Stored(p) \ {Tail(p)}) \cup {<<c, file[p].time>>}
          /\ f.records = RecordsOf(p) /\ f.audits = audits \cap Stored(p)
      BY <1>2, <1>5 DEF Reuse, Found
    <2> HIDE DEF f
    <2>2. \A x \in f.blobs : x[1] \in Stored(p)
      <3>1. \A x \in Kept(Stored(p) \ {Tail(p)}) : x[1] \in Stored(p)
        BY DEF Kept
      <3>2. c \in Stored(p)
        BY <1>1, <1>2, TailStored DEF IInv
      <3> QED BY <1>3, <2>1, <3>1, <3>2
    <2>3. \A x \in f.blobs : SizeOf[x[1]] <= SizeOf[c]
      BY <1>1, <1>2, <2>2, TailStored DEF IInv
    <2>4. \A d \in Stored(p) : \E x \in f.blobs : x[1] = d
      <3> SUFFICES ASSUME NEW d \in Stored(p) PROVE \E x \in f.blobs : x[1] = d
        OBVIOUS
      <3>1. CASE d = c
        BY <1>3, <2>1, <3>1
      <3>2. CASE d # c
        <4>1. \E x \in Kept(Stored(p) \ {Tail(p)}) : x[1] = d
          BY <1>2, <3>2, KeptCovers
        <4> QED BY <2>1, <4>1
      <3> QED BY <3>1, <3>2
    <2>5. \E x \in f.blobs : x[1] = c
      BY <1>3, <2>1
    <2>6. FileKept(f, p)
      BY <1>2, <2>1, <2>3, <2>4, <2>5, StoredAgree DEF FileKept
    <2> QED BY <2>6 DEF f
  <1> QED BY <1>4, <1>5

\* A file that is appended to has no row of a content that does not parse.
LEMMA AppendKept ==
  ASSUME IInv, Owned(Current), Audited(Current), NEW in \in SyncInputs, NEW p \in in.files,
         NEW heavy, CanAppend(p, heavy)
  PROVE  FileKept(Append(p), p)
  <1> DEFINE c == file[p].content
             prev == RecordsOf(p)
             s == CHOOSE x \in SessionsOf(prev) : TRUE
             new == {[session |-> s, blob |-> c, msg |-> m, by |-> parser] : m \in MsgsOf[c] \ MsgsOf[Tail(p)]}
             f == Append(p)
  <1>1. p \in Path /\ c \in Content /\ PathOf[c] = p
    BY FileThere
  <1>2. /\ prev # {} /\ ProfileMatches /\ SizeOf[c] > SizeOf[Tail(p)]
        /\ \A b \in audits \cap Stored(p) : SessionOf[b] \notin SessionsOf(prev)
    BY DEF CanAppend, HasPrevious
  <1>3. /\ f.blobs = Kept({r.blob : r \in prev}) \cup {<<c, file[p].time>>}
        /\ f.records = prev \cup new /\ f.audits = Bad \cap {c} /\ f.skipped = {} /\ f.failed = {}
    BY DEF Append, Found
  <1>4. s \in SessionsOf(prev)
    BY <1>2 DEF SessionsOf
  <1> HIDE DEF s
  <1>5. \A r \in new : r.session = s /\ r.blob = c /\ r.msg \in MsgsOf[c]
    OBVIOUS
  <1> HIDE DEF new, f
  <1>6. \A r \in prev : /\ r \in records /\ r.session \in Owns(p) /\ r.msg \in MsgsOf[r.blob]
                        /\ r.blob \in Stored(p)
                        /\ r.blob \in Bad => r.blob \in audits \cap Stored(p) /\ r.session = SessionOf[r.blob]
    BY StoredAgree
  <1>7. s \in Owns(p)
    BY <1>4, <1>6 DEF SessionsOf
  <1>8. \A r \in prev : r.blob \notin Bad
    BY <1>2, <1>6 DEF SessionsOf
  <1>9. <<c, file[p].time>>[1] = c
    OBVIOUS
  <1>10. \A x \in f.blobs : x[1] = c \/ x[1] \in Stored(p)
    <2>1. \A x \in Kept({r.blob : r \in prev}) : x[1] \in Stored(p)
      BY <1>6 DEF Kept
    <2> QED BY <1>3, <1>9, <2>1
  <1>11. \A d \in Stored(p) : SizeOf[d] <= SizeOf[c]
    <2>1. Stored(p) # {}
      BY <1>2, <1>6
    <2>2. \A d \in Stored(p) : SizeOf[d] <= SizeOf[Tail(p)] /\ Tail(p) \in Stored(p)
      BY <1>1, <2>1, TailStored DEF IInv
    <2>3. \A d \in Stored(p) : SizeOf[d] \in Nat /\ SizeOf[c] \in Nat
      BY <1>1, SessionMergeAssumption DEF Stored
    <2> QED BY <1>2, <2>2, <2>3
  <1>12. \A x \in f.blobs : SizeOf[x[1]] <= SizeOf[c]
    BY <1>1, <1>10, <1>11, SessionMergeAssumption
  <1>13. \E x \in f.blobs : x[1] = c
    BY <1>3, <1>9
  <1>14. FileKept(f, p)
    BY <1>2, <1>3, <1>5, <1>6, <1>7, <1>8, <1>12, <1>13 DEF FileKept
  <1> QED BY <1>14 DEF f

\* The probe of one file, whichever way it goes.
LEMMA ProbeFileKept ==
  ASSUME IInv, Owned(Current), Audited(Current), NEW in \in SyncInputs, NEW p \in in.files, NEW heavy
  PROVE  FileKept(ProbeFile(p, heavy, in.broken, in.old), p)
  <1>1. CASE p \in in.broken
    BY <1>1 DEF ProbeFile, Found, FileKept
  <1>2. CASE p \notin in.broken /\ Unchanged(p)
    BY <1>2, ReuseKept DEF ProbeFile, Unchanged, SyncInputs, StatsMatch
  <1>3. CASE p \notin in.broken /\ ~Unchanged(p) /\ CanAppend(p, heavy)
    BY <1>3, AppendKept DEF ProbeFile, Unchanged
  <1>4. CASE p \notin in.broken /\ ~Unchanged(p) /\ ~CanAppend(p, heavy)
    BY <1>4, ParseKept DEF ProbeFile, Unchanged
  <1> QED BY <1>1, <1>2, <1>3, <1>4


-----------------------------------------------------------------------------
(* What an attempt keeps of the rows of its files *)

\* An attempt preserves what it has set aside and what its probe has skipped, and
\* gives up only paths of the source.
PreservesSkipped(a) ==
    AttemptRecord(a) /\ a.preserved = a.retained \cup a.payload.skipped /\ a.unvisited \subseteq Path

\* However often it is widened.
LEMMA WidenPreserves ==
  ASSUME IInv, NEW in, NEW a, PreservesSkipped(a), NEW affected, NEW k
  PROVE  PreservesSkipped(Widen(a, in, affected, k))
  <1> DEFINE retained == Retained(a, in, affected)
             unvisited == Unvisited(a, in, affected)
             heavy == Load(a, in, affected, k)
             again == Probe(in, heavy, retained)
             u == ProbeAgain(a, in, affected, k)
             w == Settle(a, in, affected)
  <1>1. u = [heavy |-> heavy, retained |-> retained, unvisited |-> unvisited, done |-> FALSE,
             preserved |-> retained \cup again.skipped, refused |-> unvisited \cup again.failed,
             payload |-> again]
    BY DEF ProbeAgain
  <1>2. w = [a EXCEPT !.retained = retained, !.unvisited = unvisited, !.done = TRUE,
                      !.preserved = @ \cup retained, !.refused = @ \cup unvisited]
    BY DEF Settle
  <1>3. a.retained \subseteq retained /\ unvisited \subseteq Path
    <2>1. Contributors(a.payload, affected) \subseteq Path
      BY ContributorsAre, StoredRecords, SessionMergeAssumption
    <2> QED BY <2>1 DEF Retained, Unvisited, Outside, PreservesSkipped
  <1> HIDE DEF retained, unvisited, heavy, again, u, w
  <1>4. PreservesSkipped(u)
    BY <1>1, <1>3 DEF PreservesSkipped, AttemptRecord
  <1>5. PreservesSkipped(w)
    <2>1. /\ w.retained = retained /\ w.preserved = a.preserved \cup retained /\ w.payload = a.payload
          /\ w.unvisited = unvisited /\ AttemptRecord(w)
      BY <1>2 DEF PreservesSkipped, AttemptRecord
    <2> QED BY <1>3, <2>1 DEF PreservesSkipped
  <1> QED BY <1>4, <1>5 DEF u, w, Widen

\* The payload of an attempt is that of one probe, and what it preserves is known.
LEMMA AttemptProbe ==
  ASSUME IInv, NEW in \in SyncInputs
  PROVE  \E heavy, kept : /\ Attempt(in).payload = Probe(in, heavy, kept)
                          /\ kept \subseteq Attempt(in).retained
                          /\ Attempt(in).preserved = Attempt(in).retained \cup Attempt(in).payload.skipped
                          /\ Attempt(in).unvisited \subseteq Path
  <1> DEFINE a0 == Begun(in)
             affected == Affected(in)
             a == Widen(Widen(Widen(a0, in, affected, 1), in, affected, 2), in, affected, 3)
             w == Attempt(in)
  <1>1. w = [a EXCEPT !.refused = @ \cup PathsOf(a.payload.audits \cap BlobIds(a.payload))]
    BY DEF Attempt, Begun, Affected, First, FirstLoad
  <1>2. Widened(a0, in) /\ PreservesSkipped(a0)
    <2>1. FromProbe(First(in), in, {})
      BY ProbeOf DEF First
    <2> QED BY <2>1 DEF Widened, PreservesSkipped, AttemptRecord, Begun
  <1> HIDE DEF a0, affected
  <1>3. Widened(a, in) /\ PreservesSkipped(a)
    BY <1>2, WidenKeeps, WidenPreserves
  <1> HIDE DEF a
  <1>4. /\ w.payload = a.payload /\ w.retained = a.retained /\ w.preserved = a.preserved
        /\ w.unvisited = a.unvisited
    BY <1>1, <1>3 DEF Widened, AttemptRecord
  <1> HIDE DEF w
  <1>5. PICK heavy, kept : a.payload = Probe(in, heavy, kept) /\ kept \subseteq a.retained
    BY <1>3 DEF Widened, FromProbe
  <1>6. \E h, g : /\ w.payload = Probe(in, h, g) /\ g \subseteq w.retained
                  /\ w.preserved = w.retained \cup w.payload.skipped /\ w.unvisited \subseteq Path
    BY <1>3, <1>4, <1>5 DEF PreservesSkipped
  <1> QED BY <1>6 DEF w

\* The audits of a probe are those of each file, and what is set aside keeps its blobs.
LEMMA ProbeAudits ==
  ASSUME NEW in, NEW heavy, NEW kept, NEW all, all = Probe(in, heavy, kept)
  PROVE  /\ \A p \in in.files : ProbeFile(p, heavy, in.broken, in.old).audits \subseteq all.audits
         /\ \A p \in kept : Retain(p).audits \subseteq all.audits /\ Retain(p).blobs \subseteq all.blobs
         /\ \A b \in all.audits : \/ \E p \in in.files : b \in ProbeFile(p, heavy, in.broken, in.old).audits
                                  \/ \E p \in kept : b \in Retain(p).audits
  <1> DEFINE F == {ProbeFile(p, heavy, in.broken, in.old) : p \in in.files} \cup {Retain(p) : p \in kept}
  <1>1. all.audits = UNION {f.audits : f \in F} /\ all.blobs = UNION {f.blobs : f \in F}
    BY DEF Probe, Join, Found
  <1> QED BY <1>1

\* The rows that an attempt has at the path p, of those that are stored there.
KeepsPath(a, p) ==
    /\ \A r \in a.payload.records : PathOf[r.blob] = p => r \in records
    /\ \/ \A r \in a.payload.records : PathOf[r.blob] # p
       \/ \A r \in records : PathOf[r.blob] = p => r \in a.payload.records

\* No message that the file at p still holds is missing from the rows for it.
MissesNone(a, p) ==
    \A r \in records : PathOf[r.blob] = p /\ r.msg \in MsgsOf[file[p].content] =>
        \E q \in a.payload.records : PathOf[q.blob] = p /\ q.msg = r.msg

\* The blob b is no larger than what its file holds, which is there too; or it is
\* stored and was set aside.
HoldsLatest(a, in, b) ==
    LET p == PathOf[b] IN
    \/ p \in in.files /\ file[p].content \in BlobIds(a.payload) /\ SizeOf[b] <= SizeOf[file[p].content]
    \/ p \in a.retained /\ b \in Stored(p)

\* What the attempt of a sync makes of the rows of its files.
AttemptKept(a, in) ==
    /\ a.refused \subseteq Path
    /\ \A r \in a.payload.records : /\ r.session \in Owns(PathOf[r.blob]) /\ r.msg \in MsgsOf[r.blob]
                                    /\ r \in records \/ r.blob = file[PathOf[r.blob]].content
                                    /\ r.blob \in Bad => r.blob \in a.payload.audits
                                    /\ ~ProfileMatches => r.session = SessionOf[r.blob]
    /\ \A b \in a.payload.audits : b \in Bad /\ PathOf[b] \in a.refused /\ b \in BlobIds(a.payload)
    /\ \A p \in a.preserved : KeepsPath(a, p)
    /\ \A p \in Opening(a) : p \in in.files /\ MissesNone(a, p)
    /\ \A b \in BlobIds(a.payload) : HoldsLatest(a, in, b)

\* So it is for every attempt.
LEMMA AttemptKeeps ==
  ASSUME IInv, Owned(Current), Audited(Current), NEW in \in SyncInputs
  PROVE  AttemptKept(Attempt(in), in)
  <1> DEFINE a == Attempt(in)
             all == a.payload
  <1>1. AttemptFound(a, in)
    BY AttemptMade
  <1>2. PICK heavy, kept : /\ all = Probe(in, heavy, kept) /\ kept \subseteq a.retained
                           /\ a.preserved = a.retained \cup all.skipped /\ a.unvisited \subseteq Path
    BY AttemptProbe
  <1> HIDE DEF a
  <1> DEFINE f(p) == ProbeFile(p, heavy, in.broken, in.old)
  <1>3. \A p \in in.files : FileFound(f(p), p, in) /\ FileKept(f(p), p)
    BY ProbeFileFound, ProbeFileKept
  <1>4. /\ \A p \in in.files : /\ f(p).records \subseteq all.records /\ f(p).blobs \subseteq all.blobs
                               /\ f(p).skipped \subseteq all.skipped /\ f(p).failed \subseteq all.failed
        /\ \A p \in kept : RecordsOf(p) \subseteq all.records
        /\ \A r \in all.records : \/ \E p \in in.files : r \in f(p).records
                                  \/ \E p \in kept : r \in RecordsOf(p)
        /\ \A p \in all.skipped : \E q \in in.files : p \in f(q).skipped
        /\ \A b \in all.blobs : \/ \E p \in in.files : b \in f(p).blobs
                                \/ \E p \in kept : b \in Retain(p).blobs
    BY <1>2, ProbeParts
  <1>5. /\ \A p \in in.files : f(p).audits \subseteq all.audits
        /\ \A p \in kept : Retain(p).audits \subseteq all.audits /\ Retain(p).blobs \subseteq all.blobs
        /\ \A b \in all.audits : \/ \E p \in in.files : b \in f(p).audits
                                 \/ \E p \in kept : b \in Retain(p).audits
    BY <1>2, ProbeAudits
  <1> HIDE DEF f
  <1>6. \A p : Retain(p).audits = audits \cap Stored(p) /\ Retain(p).blobs = Kept(Stored(p))
    BY DEF Retain, Found
  <1>7. /\ \A p : \A r \in RecordsOf(p) : /\ r \in records /\ r.session \in Owns(p) /\ r.msg \in MsgsOf[r.blob]
                                          /\ r.blob \in Bad => r.blob \in audits \cap Stored(p)
                                          /\ PathOf[r.blob] = p
        /\ audits \subseteq Bad
        /\ \A r \in records : r \in RecordsOf(PathOf[r.blob])
    BY StoredAgree, StoredRecords
  <1>8. kept \cap in.files = {} /\ (~ProfileMatches => kept = {})
    BY <1>1, <1>2 DEF AttemptFound
  <1>9. \A p \in in.files : \A r \in f(p).records : PathOf[r.blob] = p
    BY <1>3 DEF FileFound
  <1>10. ASSUME NEW r \in all.records
         PROVE  /\ r.session \in Owns(PathOf[r.blob]) /\ r.msg \in MsgsOf[r.blob]
                /\ r \in records \/ r.blob = file[PathOf[r.blob]].content
                /\ r.blob \in Bad => r.blob \in all.audits
                /\ ~ProfileMatches => r.session = SessionOf[r.blob]
    <2>1. CASE \E p \in in.files : r \in f(p).records
      <3>1. PICK p \in in.files : r \in f(p).records
        BY <2>1
      <3>2. /\ r.session \in Owns(p) /\ r.msg \in MsgsOf[r.blob] /\ (r \in records \/ r.blob = file[p].content)
            /\ r.blob \in Bad => r.blob \in f(p).audits
            /\ ~ProfileMatches => r.session = SessionOf[r.blob]
        BY <1>3, <3>1 DEF FileKept
      <3>3. PathOf[r.blob] = p /\ f(p).audits \subseteq all.audits
        BY <1>5, <1>9, <3>1
      <3> QED BY <3>2, <3>3
    <2>2. CASE \E p \in kept : r \in RecordsOf(p)
      BY <1>5, <1>6, <1>7, <1>8, <2>2
    <2> QED BY <1>4, <2>1, <2>2
  <1>11. \A b \in BlobIds(all) : \E x \in all.blobs : x[1] = b
    BY DEF BlobIds
  <1>12. \A x \in all.blobs : x[1] \in BlobIds(all)
    BY DEF BlobIds
  <1>13. ASSUME NEW b \in all.audits
         PROVE  b \in Bad /\ PathOf[b] \in a.refused /\ b \in BlobIds(all)
    <2>1. b \in Bad /\ \E x \in all.blobs : x[1] = b
      <3>1. CASE \E p \in in.files : b \in f(p).audits
        <4>1. PICK p \in in.files : b \in f(p).audits
          BY <3>1
        <4>2. b \in Bad /\ \E x \in f(p).blobs : x[1] = b
          BY <1>3, <4>1 DEF FileKept
        <4> QED BY <1>4, <4>2
      <3>2. CASE \E p \in kept : b \in Retain(p).audits
        <4>1. PICK p \in kept : b \in audits /\ b \in Stored(p)
          BY <1>6, <3>2
        <4>2. \E x \in Kept(Stored(p)) : x[1] = b
          BY <4>1, KeptCovers
        <4> QED BY <1>5, <1>6, <1>7, <4>1, <4>2
      <3> QED BY <1>5, <3>1, <3>2
    <2>2. b \in BlobIds(all)
      BY <1>12, <2>1
    <2>3. PathOf[b] \in PathsOf(all.audits \cap BlobIds(all))
      BY <2>2 DEF PathsOf
    <2> QED BY <1>1, <2>1, <2>2, <2>3 DEF AttemptFound
  <1>14. ASSUME NEW p \in in.files, NEW r \in all.records, PathOf[r.blob] = p
         PROVE  r \in f(p).records
    BY <1>4, <1>7, <1>8, <1>9, <1>14
  <1>15. ASSUME NEW p \in a.preserved
         PROVE  KeepsPath(a, p)
    <2>1. CASE p \in all.skipped
      <3>1. p \in in.files /\ f(p).skipped # {}
        BY <1>3, <1>4, <2>1 DEF FileFound
      <3>2. f(p).records = {} \/ f(p).records = RecordsOf(p)
        BY <1>3, <3>1 DEF FileKept
      <3>3. f(p).records \subseteq all.records
        BY <1>4, <3>1
      <3> QED BY <1>7, <1>14, <3>1, <3>2, <3>3 DEF KeepsPath
    <2>2. CASE p \in a.retained
      <3>1. p \notin in.files
        BY <1>1, <2>2 DEF AttemptFound
      <3>2. \A r \in all.records : PathOf[r.blob] = p => p \in kept /\ r \in RecordsOf(p)
        BY <1>4, <1>7, <1>9, <3>1
      <3>3. p \in kept => \A r \in records : PathOf[r.blob] = p => r \in all.records
        BY <1>4, <1>7
      <3> QED BY <1>7, <3>2, <3>3 DEF KeepsPath
    <2> QED BY <1>2, <2>1, <2>2
  <1>16. ASSUME NEW b \in BlobIds(all)
         PROVE  HoldsLatest(a, in, b)
    <2>1. PICK x \in all.blobs : x[1] = b
      BY <1>11
    <2>2. CASE \E p \in in.files : x \in f(p).blobs
      <3>1. PICK p \in in.files : x \in f(p).blobs
        BY <2>2
      <3>2. PathOf[b] = p
        BY <1>3, <2>1, <3>1 DEF FileFound
      <3>3. SizeOf[b] <= SizeOf[file[p].content] /\ \E y \in f(p).blobs : y[1] = file[p].content
        BY <1>3, <2>1, <3>1 DEF FileKept
      <3>4. file[p].content \in BlobIds(all)
        BY <1>4, <1>12, <3>1, <3>3
      <3> QED BY <3>1, <3>2, <3>3, <3>4 DEF HoldsLatest
    <2>3. CASE \E p \in kept : x \in Retain(p).blobs
      <3>1. PICK p \in kept : x \in Kept(Stored(p))
        BY <1>6, <2>3
      <3>2. b \in Stored(p)
        BY <2>1, <3>1 DEF Kept
      <3>3. PathOf[b] = p
        BY <3>2 DEF Stored
      <3> QED BY <1>2, <3>1, <3>2, <3>3 DEF HoldsLatest
    <2> QED BY <1>4, <2>1, <2>2, <2>3
  <1>17. ASSUME NEW p \in Opening(a)
         PROVE  p \in in.files /\ MissesNone(a, p)
    <2>1. p \in PathsOf(BlobIds(all)) /\ p \notin a.preserved /\ p \notin a.refused
      BY DEF Opening
    <2>2. PICK b \in BlobIds(all) : PathOf[b] = p
      BY <2>1 DEF PathsOf
    <2>3. p \in in.files
      BY <1>1, <1>16, <2>1, <2>2 DEF HoldsLatest, AttemptFound
    <2>4. f(p).skipped = {} /\ f(p).failed = {}
      <3>1. p \notin all.skipped /\ p \notin all.failed
        BY <1>1, <1>2, <2>1 DEF AttemptFound
      <3>2. f(p).skipped \subseteq {p} /\ f(p).failed \subseteq {p}
        BY <1>3, <2>3 DEF FileFound
      <3> QED BY <1>4, <2>3, <3>1, <3>2
    <2>5. \A r \in RecordsOf(p) : r.msg \in MsgsOf[file[p].content] => \E q \in f(p).records : q.msg = r.msg
      BY <1>3, <2>3, <2>4 DEF FileKept
    <2>6. f(p).records \subseteq all.records /\ \A q \in f(p).records : PathOf[q.blob] = p
      BY <1>4, <1>9, <2>3
    <2> QED BY <1>7, <2>3, <2>5, <2>6 DEF MissesNone
  <1>18. a.refused \subseteq Path
    <2>1. all.failed \subseteq Path
      BY <1>1 DEF AttemptFound, PayloadFound, SyncInputs
    <2>2. PathsOf(all.audits \cap BlobIds(all)) \subseteq Path
      BY <1>1, SessionMergeAssumption DEF AttemptFound, PayloadFound, PathsOf
    <2> QED BY <1>1, <1>2, <2>1, <2>2 DEF AttemptFound
  <1>19. AttemptKept(a, in)
    BY <1>10, <1>13, <1>15, <1>16, <1>17, <1>18 DEF AttemptKept
  <1> QED BY <1>19 DEF a


-----------------------------------------------------------------------------
(* The merge of the parser rows, file by file *)

\* The session s is one of a path that the attempt may replace.
OpenSession(s, a) == \E p \in Opening(a) : s \in Owns(p)

\* A row of the payload is at a path that is replaced, preserved or refused.
LEMMA PayloadPaths ==
  ASSUME NEW in, NEW a, AttemptFound(a, in), NEW r \in a.payload.records
  PROVE  PathOf[r.blob] \in Opening(a) \cup a.preserved \cup a.refused
  <1>1. r.blob \in BlobIds(a.payload)
    BY DEF AttemptFound, PayloadFound
  <1> QED BY <1>1 DEF Opening, PathsOf

\* No file keeps another one back, and no session that changes is shared.
LEMMA PlanByFile ==
  ASSUME OneFileSessions, IInv, Owned(Current), NEW in \in SyncInputs, NEW a, AttemptFound(a, in)
  PROVE  /\ Plan(a, in).replace = Opening(a)
         /\ Plan(a, in).preserve = a.preserved
         /\ \A s \in Plan(a, in).changed : OpenSession(s, a)
         /\ \A s \in Plan(a, in).shared : ~OpenSession(s, a)
  <1> DEFINE open == (PathsOf(BlobIds(a.payload)) \ a.preserved) \ a.refused
             replace == {p \in open : SessionsAt(Current, {p}) \cap SessionsAt(Current, a.refused) = {}}
             preserve == a.preserved \cup (open \ replace)
             new == SessionsOf({r \in a.payload.records :
                       PathOf[r.blob] \notin a.preserved \cup a.refused \cup (open \ replace)})
             changed == SessionsAt(Current, replace) \cup new
             p == Plan(a, in)
  <1>1. p = [replace |-> replace, preserve |-> preserve, changed |-> changed, shared |-> p.shared]
    BY DEF Plan
  <1>2. open = Opening(a)
    BY DEF Opening
  <1>3. \A S : \A s \in SessionsAt(Current, S) : \E q \in S : s \in Owns(q)
    BY DEF SessionsAt, Current, SessionsOf, Owned
  <1>4. replace = open
    <2> SUFFICES ASSUME NEW q \in open, NEW s \in SessionsAt(Current, {q}), s \in SessionsAt(Current, a.refused)
                 PROVE  FALSE
      OBVIOUS
    <2>1. s \in Owns(q) /\ \E u \in a.refused : s \in Owns(u)
      BY <1>3
    <2> QED BY <2>1, OneOwner
  <1>5. \A s \in new : OpenSession(s, a)
    <2> SUFFICES ASSUME NEW r \in a.payload.records, PathOf[r.blob] \notin a.preserved \cup a.refused
                 PROVE  OpenSession(r.session, a)
      BY <1>4 DEF SessionsOf
    <2>1. PathOf[r.blob] \in Opening(a) /\ r.blob \in Content
      BY PayloadPaths DEF AttemptFound, PayloadFound, Record
    <2>2. r.session \in Owns(PathOf[r.blob])
      <3>1. CASE r.session \in SessionsOf(RecordsOf(PathOf[r.blob]))
        <4>1. PICK q \in RecordsOf(PathOf[r.blob]) : q.session = r.session
          BY <3>1 DEF SessionsOf
        <4>2. q \in records /\ PathOf[q.blob] = PathOf[r.blob]
          BY <4>1, StoredRecords
        <4> QED BY <4>1, <4>2 DEF Owned, Current
      <3>2. CASE r.session = SessionOf[r.blob]
        BY <2>1, <3>2, OwnSession
      <3> QED BY <3>1, <3>2 DEF AttemptFound, PayloadFound, Attributed
    <2> QED BY <2>1, <2>2 DEF OpenSession
  <1>6. \A s \in SessionsAt(Current, replace) : OpenSession(s, a)
    <2>1. \A s \in SessionsAt(Current, replace) : \E q \in replace : s \in Owns(q)
      BY <1>3
    <2> HIDE DEF replace
    <2> QED BY <1>2, <1>4, <2>1 DEF OpenSession
  <1> HIDE DEF replace, new, preserve, p
  <1>7. p.replace = Opening(a) /\ p.preserve = a.preserved /\ p.changed = changed
    BY <1>1, <1>2, <1>4 DEF preserve
  <1>8. \A s \in p.changed : OpenSession(s, a)
    BY <1>5, <1>6, <1>7
  <1>9. ASSUME NEW s \in p.shared, OpenSession(s, a)
        PROVE  FALSE
    <2>1. Planned(p, a, in)
      BY PlanMade DEF p
    <2>2. PICK r \in records : r.session = s /\ PathOf[r.blob] \in Held(a, in)
      BY <2>1 DEF Planned
    <2>3. s \in Owns(PathOf[r.blob])
      BY <2>2 DEF Owned, Current
    <2>4. PICK q \in Opening(a) : s \in Owns(q)
      BY <1>9 DEF OpenSession
    <2>5. q = PathOf[r.blob]
      BY <2>3, <2>4, OneOwner
    <2> QED BY <1>7, <2>1, <2>2, <2>4, <2>5 DEF Planned
  <1>10. /\ p.replace = Opening(a) /\ p.preserve = a.preserved
         /\ \A s \in p.changed : OpenSession(s, a)
         /\ \A s \in p.shared : ~OpenSession(s, a)
    BY <1>7, <1>8, <1>9
  <1> QED BY <1>10 DEF p

\* The audits and the turns that the merge leaves.
LEMMA MergeAudits ==
  ASSUME NEW a, NEW in
  PROVE  LET p == Plan(a, in)
         IN  /\ MergeRows(a, in).audits =
                  {b \in audits : SessionOf[b] \notin p.changed \ p.shared /\ b \notin Old(p)}
                      \cup {b \in a.payload.audits :
                              b \in {d[1] : d \in BlobsWritten(a, p)} \/ SessionOf[b] \in p.changed}
             /\ MergeRows(a, in).turns = {t \in turns : t.session \notin p.changed \ p.shared}
  <1> DEFINE p == Plan(a, in)
             W == MergeRows(a, in)
             auds == {b \in audits : SessionOf[b] \notin p.changed \ p.shared /\ b \notin Old(p)}
                           \cup {b \in a.payload.audits :
                                   b \in {d[1] : d \in BlobsWritten(a, p)} \/ SessionOf[b] \in p.changed}
             ts == {t \in turns : t.session \notin p.changed \ p.shared}
  <1>1. PICK recs, caps, sess : W = [Current EXCEPT !.records = recs, !.captured = caps, !.audits = auds,
                                                    !.sessions = sess, !.turns = ts]
    BY DEF MergeRows
  <1> HIDE DEF W, auds, ts
  <1>2. W.audits = auds /\ W.turns = ts
    BY <1>1 DEF Current
  <1> QED BY <1>2 DEF W, auds, ts

\* What the merge of the parser rows does, file by file.
MergedByFile(W, a) ==
    /\ Rows(W) /\ W.ledger = ledger /\ W.spans = spans
    /\ \A r \in records : PathOf[r.blob] \notin Opening(a) => r \in W.records
    /\ \A r \in a.payload.records : PathOf[r.blob] \in Opening(a) => r \in W.records
    /\ \A r \in W.records : \/ r \in records /\ PathOf[r.blob] \notin Opening(a)
                            \/ r \in a.payload.records /\ PathOf[r.blob] \in Opening(a)
    /\ W.audits \subseteq audits \cup a.payload.audits
    /\ \A b \in audits : PathOf[b] \notin Opening(a) => b \in W.audits
    /\ \A b \in W.audits : W.captured[b] # 0
    /\ \A c \in Content : W.captured[c] # 0 => captured[c] # 0 \/ c \in BlobIds(a.payload)
    /\ W.turns \subseteq turns
    /\ \A t \in turns : ~OpenSession(t.session, a) => t \in W.turns
    /\ \A t \in W.turns : t.msgs # {} => ~OpenSession(t.session, a)

\* A session of a path is open when the path is.
LEMMA OpenPath ==
  ASSUME OneFileSessions, NEW a, NEW p, NEW s \in Owns(p)
  PROVE  OpenSession(s, a) <=> p \in Opening(a)
  BY OneOwner DEF OpenSession

\* When no two files share a session the merge goes file by file.
LEMMA MergeByFile ==
  ASSUME OneFileSessions, IInv, Agrees(Current), NEW in \in SyncInputs,
         NEW a, AttemptFound(a, in), AttemptKept(a, in)
  PROVE  MergedByFile(MergeRows(a, in), a)
  <1> DEFINE p == Plan(a, in)
             W == MergeRows(a, in)
             written == {d[1] : d \in BlobsWritten(a, p)}
  <1>1. /\ p.replace = Opening(a) /\ p.preserve = a.preserved
        /\ \A s \in p.changed : OpenSession(s, a)
        /\ \A s \in p.shared : ~OpenSession(s, a)
    BY PlanByFile DEF Agrees
  <1>2. Merged(W, a, p) /\ Planned(p, a, in)
    BY MergeMade, PlanMade
  <1>3. /\ W.audits = {b \in audits : SessionOf[b] \notin p.changed \ p.shared /\ b \notin Old(p)}
                         \cup {b \in a.payload.audits : b \in written \/ SessionOf[b] \in p.changed}
        /\ W.turns = {t \in turns : t.session \notin p.changed \ p.shared}
    BY MergeAudits
  <1>4. \A c \in written : (CHOOSE b \in BlobsWritten(a, p) : b[1] = c)[2] # 0
    <2> SUFFICES ASSUME NEW c \in written
                 PROVE  (CHOOSE b \in BlobsWritten(a, p) : b[1] = c)[2] # 0
      OBVIOUS
    <2>1. (CHOOSE b \in BlobsWritten(a, p) : b[1] = c)[2] \in Times \ {0}
      BY WrittenBlob
    <2> QED BY <2>1
  <1>5. W.captured = [c \in Content |-> IF c \in written THEN (CHOOSE b \in BlobsWritten(a, p) : b[1] = c)[2]
                                        ELSE IF c \in Old(p) THEN 0 ELSE captured[c]]
    BY <1>2 DEF Merged
  <1>6. written \subseteq BlobIds(a.payload)
    BY DEF BlobsWritten, BlobIds
  <1> HIDE DEF p, W, written
  <1>7. \A r \in records : r.session \in Owns(PathOf[r.blob]) /\ r.blob \in Content /\ captured[r.blob] # 0
    BY StoredRecords DEF Agrees, Owned, Current
  <1>8. \A r \in a.payload.records : r.session \in Owns(PathOf[r.blob]) /\ r.blob \in Content
    BY DEF AttemptKept, AttemptFound, PayloadFound, Record
  <1>9. \A r \in records : Drops(p, Old(p), r) <=> PathOf[r.blob] \in Opening(a)
    <2> SUFFICES ASSUME NEW r \in records
                 PROVE  Drops(p, Old(p), r) <=> PathOf[r.blob] \in Opening(a)
      OBVIOUS
    <2>1. OpenSession(r.session, a) <=> PathOf[r.blob] \in Opening(a)
      BY <1>7, OpenPath
    <2>2. PathOf[r.blob] \in Opening(a) => r.session \in p.changed
      BY <1>1, <1>2 DEF Planned
    <2> QED BY <1>1, <2>1, <2>2 DEF Drops
  <1>10. \A r \in a.payload.records : r \in Incoming(a, p) <=> PathOf[r.blob] \in Opening(a)
    <2> SUFFICES ASSUME NEW r \in a.payload.records
                 PROVE  r \in Incoming(a, p) <=> PathOf[r.blob] \in Opening(a)
      OBVIOUS
    <2>1. OpenSession(r.session, a) <=> PathOf[r.blob] \in Opening(a)
      BY <1>8, OpenPath
    <2>2. PathOf[r.blob] \in Opening(a) \cup a.preserved \cup a.refused
      BY PayloadPaths
    <2>3. PathOf[r.blob] \in Opening(a) => PathOf[r.blob] \notin a.preserved /\ PathOf[r.blob] \notin a.refused
      BY DEF Opening
    <2> QED BY <1>1, <2>1, <2>2, <2>3 DEF Incoming
  <1>11. Incoming(a, p) \subseteq a.payload.records
    BY DEF Incoming
  <1>12. /\ \A r \in records : PathOf[r.blob] \notin Opening(a) => r \in W.records
         /\ \A r \in a.payload.records : PathOf[r.blob] \in Opening(a) => r \in W.records
         /\ \A r \in W.records : \/ r \in records /\ PathOf[r.blob] \notin Opening(a)
                                 \/ r \in a.payload.records /\ PathOf[r.blob] \in Opening(a)
    <2>1. W.records = {r \in {q \in records : ~Drops(p, Old(p), q)} :
                         ~\E q \in Incoming(a, p) : SameRecord(r, q)} \cup Incoming(a, p)
      BY <1>2 DEF Merged
    <2>2. \A r \in records, q \in Incoming(a, p) : PathOf[r.blob] \notin Opening(a) => ~SameRecord(r, q)
      BY <1>10, <1>11 DEF SameRecord
    <2> QED BY <1>9, <1>10, <1>11, <2>1, <2>2
  <1>13. W.audits \subseteq audits \cup a.payload.audits
    BY <1>3
  <1>14. \A b \in audits \cup a.payload.audits :
            b \in Content /\ (SessionOf[b] \in p.changed => PathOf[b] \in Opening(a))
    <2> SUFFICES ASSUME NEW b \in audits \cup a.payload.audits
                 PROVE  b \in Content /\ (SessionOf[b] \in p.changed => PathOf[b] \in Opening(a))
      OBVIOUS
    <2>1. b \in Content
      BY DEF AttemptFound, PayloadFound, IInv, TypeOK, StoredPayload
    <2>2. OpenSession(SessionOf[b], a) <=> PathOf[b] \in Opening(a)
      BY <2>1, OwnSession, OpenPath
    <2> QED BY <1>1, <2>1, <2>2
  <1>15. \A b \in audits : PathOf[b] \notin Opening(a) => b \in W.audits
    BY <1>1, <1>3, <1>14 DEF Old
  <1>16. ASSUME NEW b \in W.audits
         PROVE  W.captured[b] # 0
    <2>1. b \in Content
      BY <1>13, <1>14
    <2>2. CASE b \in written
      BY <1>4, <1>5, <2>1, <2>2
    <2>3. CASE b \notin written /\ b \in audits /\ b \notin Old(p)
      <3>1. captured[b] # 0
        BY <2>3 DEF Agrees, Audited, Current
      <3> QED BY <1>5, <2>1, <2>3, <3>1
    <2>4. CASE b \notin written /\ b \in a.payload.audits /\ SessionOf[b] \in p.changed
      <3>1. PathOf[b] \in Opening(a) /\ PathOf[b] \in a.refused
        BY <1>14, <2>4 DEF AttemptKept
      <3> QED BY <3>1 DEF Opening
    <2> QED BY <1>3, <2>2, <2>3, <2>4
  <1>17. \A c \in Content : W.captured[c] # 0 => captured[c] # 0 \/ c \in BlobIds(a.payload)
    BY <1>5, <1>6
  <1>18. W.turns \subseteq turns /\ \A t \in turns : ~OpenSession(t.session, a) => t \in W.turns
    BY <1>1, <1>3
  <1>19. ASSUME NEW t \in W.turns, NEW m \in t.msgs, OpenSession(t.session, a)
         PROVE  FALSE
    <2>1. t \in turns
      BY <1>18
    <2>2. PICK r \in records : r.session = t.session /\ r.msg = m
      BY <2>1 DEF Agrees, Backed, Current
    <2>3. PathOf[r.blob] \in Opening(a)
      BY <1>7, <1>19, <2>2, OpenPath
    <2>4. t.session \in p.changed
      BY <1>1, <1>2, <2>2, <2>3 DEF Planned
    <2> QED BY <1>1, <1>3, <1>19, <2>4
  <1>20. Rows(W) /\ W.ledger = ledger /\ W.spans = spans
    BY <1>2 DEF Merged
  <1>21. MergedByFile(W, a)
    BY <1>12, <1>13, <1>15, <1>16, <1>17, <1>18, <1>19, <1>20 DEF MergedByFile
  <1> QED BY <1>21 DEF W


-----------------------------------------------------------------------------
(* The sidecars, file by file *)

\* Turns that differ in nothing but their axis.
SameButAxis(t, u) == t.session = u.session /\ t.n = u.n /\ t.msgs = u.msgs /\ t.blobs = u.blobs

\* The rows R are the rows W but for the axis of turns, sessions and ledger.
OnlyMoves(R, W) ==
    /\ R.records = W.records /\ R.captured = W.captured /\ R.audits = W.audits /\ R.spans = W.spans
    /\ \A p \in Path : R.ledger[p].blob = W.ledger[p].blob /\ R.ledger[p].refs = W.ledger[p].refs
    /\ \A t \in R.turns : \E u \in W.turns : SameButAxis(t, u)
    /\ \A u \in W.turns : \E t \in R.turns : SameButAxis(t, u)

\* Nothing moves.
LEMMA NothingMoves == \A W : OnlyMoves(W, W)
  BY DEF OnlyMoves, SameButAxis

\* Presence moves only the axis.
LEMMA ReconcileMoves ==
  ASSUME NEW W, Rows(W), Sidecars(W), NEW observed
  PROVE  OnlyMoves(Reconcile(W, observed), W)
  <1> DEFINE axisOf(p) == IF p \in observed THEN "current" ELSE "source_absent"
             known == {p \in Path : HasLedger(W, p)}
             from(s) == {p \in known : s \in LedgerSessions(W, {p})}
             axis(s, other) == IF from(s) = {} THEN other
                               ELSE IF from(s) \cap observed # {} THEN "current" ELSE "source_absent"
             led == [p \in Path |-> IF p \in known THEN [W.ledger[p] EXCEPT !.axis = axisOf(p)] ELSE W.ledger[p]]
             moved(t) == [t EXCEPT !.axis = axis(t.session, t.axis)]
             ts == {moved(t) : t \in W.turns}
             R == Reconcile(W, observed)
  <1>1. PICK sess : R = [W EXCEPT !.ledger = led, !.sessions = sess, !.turns = ts]
    BY DEF Reconcile
  <1> HIDE DEF axis, from, axisOf, known
  <1>2. \A p \in Path : led[p].blob = W.ledger[p].blob /\ led[p].refs = W.ledger[p].refs
    BY DEF Sidecars
  <1>3. \A t \in W.turns : SameButAxis(moved(t), t)
    <2> SUFFICES ASSUME NEW t \in W.turns PROVE SameButAxis(moved(t), t)
      OBVIOUS
    <2>1. t \in Turn
      BY DEF Sidecars
    <2> QED BY <2>1 DEF Turn, SameButAxis
  <1> HIDE DEF moved
  <1>4. (\A t \in ts : \E u \in W.turns : SameButAxis(t, u)) /\ \A u \in W.turns : \E t \in ts : SameButAxis(t, u)
    BY <1>3
  <1> HIDE DEF led, ts, R
  <1>5. /\ R.captured = W.captured /\ R.records = W.records /\ R.audits = W.audits
        /\ R.ledger = led /\ R.spans = W.spans /\ R.turns = ts
    BY <1>1 DEF Rows
  <1>6. OnlyMoves(R, W)
    BY <1>2, <1>4, <1>5 DEF OnlyMoves
  <1> QED BY <1>6 DEF R

\* Rows that have only moved agree as before.
LEMMA MovesAgree ==
  ASSUME NEW R, NEW W, OnlyMoves(R, W), Agrees(W)
  PROVE  Agrees(R)
  <1>1. Owned(R)
    BY DEF Agrees, Owned, OnlyMoves, SameButAxis
  <1>2. Backed(R)
    BY DEF Agrees, Backed, OnlyMoves, SameButAxis
  <1>3. Visible(R)
    <2> SUFFICES ASSUME NEW r \in R.records, r.msg \in Users, r.blob \notin Bad
                 PROVE  \E t \in R.turns : t.session = r.session /\ r.msg \in t.msgs
      BY DEF Visible
    <2>1. PICK u \in W.turns : u.session = r.session /\ r.msg \in u.msgs
      BY DEF Agrees, Visible, OnlyMoves
    <2> QED BY <2>1 DEF OnlyMoves, SameButAxis
  <1>4. Audited(R)
    BY DEF Agrees, Audited, OnlyMoves
  <1>5. Listed(R)
    BY SessionMergeAssumption DEF Agrees, Listed, OnlyMoves, HasLedger
  <1> QED BY <1>1, <1>2, <1>3, <1>4, <1>5 DEF Agrees

\* The turns of files that are not refused.
ShownTurns(a) == {t \in Project(a.payload.records) : \A b \in t.blobs : PathOf[b] \notin a.refused}

\* The sessions the ledger knows for some paths are sessions of those paths.
LEMMA LedgerOwns ==
  ASSUME NEW W, Owned(W), W.records \subseteq Record, W.spans \subseteq Span,
         NEW S \in SUBSET Path, NEW s \in LedgerSessions(W, S)
  PROVE  \E p \in S : s \in Owns(p)
  <1>1. PICK p \in S : s \in W.ledger[p].refs
                              \cup SessionsOf({r \in W.records : r.blob = W.ledger[p].blob})
                              \cup SessionsOf({x \in W.spans : x.blob = W.ledger[p].blob})
    BY DEF LedgerSessions
  <1>2. CASE s \in W.ledger[p].refs
    BY <1>2 DEF Owned
  <1>3. CASE s \in SessionsOf({r \in W.records : r.blob = W.ledger[p].blob})
    <2>1. PICK r \in W.records : r.blob = W.ledger[p].blob /\ r.session = s
      BY <1>3 DEF SessionsOf
    <2>2. r.blob # Gone
      BY SessionMergeAssumption DEF Record
    <2> QED BY <2>1, <2>2 DEF Owned
  <1>4. CASE s \in SessionsOf({x \in W.spans : x.blob = W.ledger[p].blob})
    <2>1. PICK x \in W.spans : x.blob = W.ledger[p].blob /\ x.session = s
      BY <1>4 DEF SessionsOf
    <2>2. x.blob # Gone
      BY SessionMergeAssumption DEF Span
    <2> QED BY <2>1, <2>2 DEF Owned
  <1> QED BY <1>1, <1>2, <1>3, <1>4

\* Rows that keep to their files, and their tables.
KeepsFiles(W) == Owned(W) /\ W.records \subseteq Record /\ W.spans \subseteq Span

\* An attempt is refused no further path, writes the sessions of the paths it opens,
\* and protects no turn.
LEMMA ClosedByFile ==
  ASSUME OneFileSessions, IInv, NEW in \in SyncInputs, NEW a, AttemptFound(a, in), AttemptKept(a, in),
         NEW W, KeepsFiles(W)
  PROVE  /\ Refused(W, a) = a.refused
         /\ \A s \in RefusedSessions(W, a) : \E p \in a.refused : s \in Owns(p)
         /\ \A s \in Rewritten(W, a) : OpenSession(s, a)
         /\ \A s \in Shared(W, a, in) : ~OpenSession(s, a)
  <1> DEFINE incoming == PathsOf(BlobIds(a.payload))
  <1>1. incoming \subseteq Path /\ a.refused \subseteq Path
    BY SessionMergeAssumption DEF PathsOf, BlobIds, AttemptFound, PayloadFound, Storable, AttemptKept
  <1>2. \A s \in RefusedSessions(W, a) : \E p \in a.refused : s \in Owns(p)
    BY <1>1, LedgerOwns DEF RefusedSessions, KeepsFiles
  <1>3. Opening(a) = (incoming \ a.preserved) \ a.refused
    BY DEF Opening
  <1> HIDE DEF incoming
  <1>4. Refused(W, a) = a.refused
    <2> SUFFICES ASSUME NEW p \in (incoming \ a.preserved) \ a.refused,
                        NEW s \in LedgerSessions(W, {p}), s \in RefusedSessions(W, a)
                 PROVE  FALSE
      BY DEF Refused, incoming
    <2>1. s \in Owns(p)
      <3>1. {p} \in SUBSET Path
        BY <1>1
      <3>2. \E q \in {p} : s \in Owns(q)
        BY <3>1, LedgerOwns DEF KeepsFiles
      <3> QED BY <3>2
    <2> QED BY <1>2, <2>1, OneOwner
  <1>5. Opening(a) = incoming \ Closed(W, a)
    BY <1>3, <1>4 DEF Closed
  <1>6. \A s \in Rewritten(W, a) : OpenSession(s, a)
    <2>1. ASSUME NEW r \in a.payload.records, PathOf[r.blob] \notin Closed(W, a)
          PROVE  OpenSession(r.session, a)
      <3>1. PathOf[r.blob] \in Opening(a)
        BY <1>4, <2>1, PayloadPaths DEF Closed
      <3>2. r.session \in Owns(PathOf[r.blob])
        BY DEF AttemptKept
      <3> QED BY <3>1, <3>2 DEF OpenSession
    <2>2. ASSUME NEW x \in W.spans, x.blob \in Replacing(W, a)
          PROVE  OpenSession(x.session, a)
      <3>1. PICK p \in Opening(a) : HasLedger(W, p) /\ x.blob = W.ledger[p].blob
        BY <1>5, <2>2 DEF Replacing, incoming
      <3>2. PathOf[x.blob] = p /\ x.session \in Owns(PathOf[x.blob])
        BY <1>1, <1>3, <3>1 DEF KeepsFiles, Owned, HasLedger
      <3> QED BY <3>1, <3>2 DEF OpenSession
    <2> QED BY <2>1, <2>2 DEF Rewritten, SessionsOf
  <1>7. \A s \in Shared(W, a, in) : ~OpenSession(s, a)
    <2> SUFFICES ASSUME NEW s \in Shared(W, a, in), OpenSession(s, a) PROVE FALSE
      OBVIOUS
    <2> DEFINE absent == IF in.complete THEN {p \in Path : HasLedger(W, p)} \ Observed(a, in) ELSE {}
    <2>1. s \in LedgerSessions(W, a.refused \cup absent) /\ absent \cap in.files = {} /\ absent \subseteq Path
      BY <1>4 DEF Shared, Observed
    <2> HIDE DEF absent
    <2>2. PICK p \in a.refused \cup absent : s \in Owns(p)
      <3>1. a.refused \cup absent \in SUBSET Path
        BY <1>1, <2>1
      <3> QED BY <2>1, <3>1, LedgerOwns DEF KeepsFiles
    <2>3. p \in Opening(a)
      BY <2>2, OpenPath
    <2> QED BY <1>3, <2>1, <2>2, <2>3 DEF AttemptKept
  <1> QED BY <1>2, <1>4, <1>6, <1>7

\* A projected turn is of a session of each of its files.
LEMMA ShownOwned ==
  ASSUME NEW in, NEW a, AttemptFound(a, in), AttemptKept(a, in), NEW t \in Project(a.payload.records)
  PROVE  /\ t.blobs # {} /\ \A b \in t.blobs : t.session \in Owns(PathOf[b])
         /\ \A m \in t.msgs : \E r \in a.payload.records : r.session = t.session /\ r.msg = m
  <1>1. a.payload.records \in SUBSET Record
    BY DEF AttemptFound, PayloadFound
  <1>2. /\ t.blobs # {}
        /\ \A b \in t.blobs : \E r \in a.payload.records : r.blob = b /\ r.session = t.session
        /\ \A m \in t.msgs : \E r \in a.payload.records : r.session = t.session /\ r.msg = m
    BY <1>1, ProjectionCovers
  <1> QED BY <1>2 DEF AttemptKept

\* The turns to write are those of the files that are not refused.
LEMMA NewByFile ==
  ASSUME OneFileSessions, IInv, NEW in \in SyncInputs, NEW a, AttemptFound(a, in), AttemptKept(a, in),
         NEW W, KeepsFiles(W)
  PROVE  NewTurns(W, a, in) = ShownTurns(a)
  <1> DEFINE incoming == Project(a.payload.records)
             protected == {t \in W.turns : t.session \in Rewritten(W, a) \cap Shared(W, a, in)
                             /\ Protects(t, Replacing(W, a), incoming)}
  <1>1. /\ Refused(W, a) = a.refused
        /\ \A s \in RefusedSessions(W, a) : \E p \in a.refused : s \in Owns(p)
        /\ Rewritten(W, a) \cap Shared(W, a, in) = {}
    BY ClosedByFile
  <1>2. protected = {}
    BY <1>1
  <1>3. NewTurns(W, a, in) = {t \in incoming :
            /\ ~\E b \in t.blobs : PathOf[b] \in Refused(W, a)
            /\ t.session \notin RefusedSessions(W, a)
            /\ ~\E u \in protected : SameTurn(t, u)}
    BY DEF NewTurns
  <1>4. ASSUME NEW t \in incoming, \A b \in t.blobs : PathOf[b] \notin a.refused
        PROVE  t.session \notin RefusedSessions(W, a)
    <2>1. t.blobs # {} /\ \A b \in t.blobs : t.session \in Owns(PathOf[b])
      BY ShownOwned
    <2> QED BY <1>1, <1>4, <2>1, OneOwner
  <1> HIDE DEF protected, incoming
  <1> QED BY <1>1, <1>2, <1>3, <1>4 DEF ShownTurns, incoming


\* The ledger row of the path p stays, or takes up what the file holds now.
LedgerStep(new, old, p, a, in) ==
    \/ new.blob = old.blob /\ new.refs = old.refs
    \/ p \in in.files /\ new.blob = file[p].content /\ new.refs \subseteq Owns(p)

\* What the ledger records of a payload: every path of it gets a row.
LEMMA LedgerByFile ==
  ASSUME IInv, NEW in \in SyncInputs, NEW a, AttemptFound(a, in), AttemptKept(a, in),
         NEW W, Sidecars(W), \A c \in Content : captured[c] # 0 => HasLedger(W, PathOf[c]),
         NEW keep, a.preserved \subseteq keep, NEW p \in Path
  PROVE  /\ LedgerStep(UpsertLedger(W, a.payload, keep)[p], W.ledger[p], p, a, in)
         /\ HasLedger(W, p) \/ (\E b \in BlobIds(a.payload) : PathOf[b] = p) =>
               UpsertLedger(W, a.payload, keep)[p].blob # Gone
  <1> DEFINE blobs == {b \in BlobIds(a.payload) : PathOf[b] = p}
             last == CHOOSE b \in blobs : \A d \in blobs : SizeOf[d] <= SizeOf[b]
             refs == SessionsOf({r \in a.payload.records : r.blob = last})
             row == UpsertLedger(W, a.payload, keep)[p]
             c == file[p].content
  <1>1. row = IF blobs = {} \/ (p \in keep /\ HasLedger(W, p)) THEN W.ledger[p]
              ELSE [blob |-> last, axis |-> "current", refs |-> refs]
    BY DEF UpsertLedger
  <1>2. CASE blobs = {} \/ (p \in keep /\ HasLedger(W, p))
    <2>1. row = W.ledger[p]
      BY <1>1, <1>2
    <2> HIDE DEF row
    <2>2. HasLedger(W, p) \/ blobs # {} => row.blob # Gone
      BY <1>2, <2>1 DEF HasLedger
    <2>3. LedgerStep(row, W.ledger[p], p, a, in)
      BY <2>1 DEF LedgerStep
    <2> QED BY <2>2, <2>3 DEF row
  <1>3. CASE blobs # {} /\ ~(p \in keep /\ HasLedger(W, p))
    <2>1. row.blob = last /\ row.refs = refs
      BY <1>1, <1>3
    <2>2. \A b \in blobs : b \in Content
      BY DEF BlobIds, AttemptFound, PayloadFound, Storable
    <2>3. \A b \in blobs : p \in in.files /\ c \in BlobIds(a.payload) /\ SizeOf[b] <= SizeOf[c]
      <3> SUFFICES ASSUME NEW b \in blobs
                   PROVE  p \in in.files /\ c \in BlobIds(a.payload) /\ SizeOf[b] <= SizeOf[c]
        OBVIOUS
      <3>1. \/ p \in in.files /\ c \in BlobIds(a.payload) /\ SizeOf[b] <= SizeOf[c]
            \/ p \in a.retained /\ b \in Stored(p)
        BY DEF AttemptKept, HoldsLatest
      <3>2. CASE p \in a.retained /\ b \in Stored(p)
        <4>1. p \in keep
          BY <3>2 DEF AttemptFound
        <4>2. HasLedger(W, p)
          BY <3>2 DEF Stored
        <4> QED BY <1>3, <4>1, <4>2
      <3> QED BY <3>1, <3>2
    <2>4. p \in in.files /\ c \in Content /\ PathOf[c] = p /\ c \in blobs
      BY <1>3, <2>3, FileThere
    <2> HIDE DEF blobs, c, row
    <2>5. \E b \in blobs : \A d \in blobs : SizeOf[d] <= SizeOf[b]
      BY <2>3, <2>4
    <2>6. last \in blobs /\ \A d \in blobs : SizeOf[d] <= SizeOf[last]
      BY <2>5
    <2> HIDE DEF last
    <2>7. SizeOf[last] <= SizeOf[c] /\ SizeOf[c] <= SizeOf[last] /\ PathOf[last] = p /\ last \in Content
      BY <2>2, <2>3, <2>4, <2>6 DEF blobs
    <2>8. last = c
      <3>1. SizeOf[last] \in Nat /\ SizeOf[c] \in Nat
        BY <2>4, <2>7, SessionMergeAssumption
      <3>2. SizeOf[last] = SizeOf[c]
        BY <2>7, <3>1
      <3> QED BY <2>4, <2>7, <3>2, SessionMergeAssumption
    <2>9. refs \subseteq Owns(p)
      BY <2>7 DEF SessionsOf, AttemptKept
    <2> HIDE DEF refs
    <2>10. LedgerStep(row, W.ledger[p], p, a, in) /\ row.blob # Gone
      BY <2>1, <2>4, <2>8, <2>9, SessionMergeAssumption DEF LedgerStep, c
    <2> QED BY <2>10 DEF row
  <1> QED BY <1>2, <1>3

\* What is written beside the rows W, file by file.
WrittenByFile(Z, W, a, in) ==
    /\ Z.records = W.records /\ Z.captured = W.captured /\ Z.audits = W.audits
    /\ \A x \in Z.spans : x \in W.spans \/ \E r \in a.payload.records : x = SpanOf(r)
    /\ \A p \in Path : /\ LedgerStep(Z.ledger[p], W.ledger[p], p, a, in)
                       /\ HasLedger(W, p) \/ (\E b \in BlobIds(a.payload) : PathOf[b] = p) => HasLedger(Z, p)
    /\ ShownTurns(a) \subseteq Z.turns
    /\ \A t \in Z.turns : t \in ShownTurns(a) \/ \E u \in W.turns : SameButAxis(t, u)
    /\ \A u \in W.turns : ~OpenSession(u.session, a) =>
          (\E t \in Z.turns : SameButAxis(t, u)) \/ \E t \in ShownTurns(a) : t.session = u.session

\* When no two files share a session the sidecars go file by file.
LEMMA SidecarsByFile ==
  ASSUME OneFileSessions, IInv, NEW in \in SyncInputs, NEW a, AttemptFound(a, in), AttemptKept(a, in),
         NEW W, Rows(W), ParserRows(W), Sidecars(W), Owned(W),
         \A c \in Content : captured[c] # 0 => HasLedger(W, PathOf[c])
  PROVE  WrittenByFile(WriteSidecars(W, a, in), W, a, in)
  <1> DEFINE X == Clear(W, a, in)
             Y == IF in.complete THEN Reconcile(X, Observed(a, in)) ELSE X
             new == NewTurns(W, a, in)
             led == UpsertLedger(Y, a.payload, Closed(W, a))
             sp == {SpanOf(r) : r \in {q \in a.payload.records :
                       PathOf[q.blob] \notin Closed(W, a) /\ q.session \notin RefusedSessions(W, a)}}
             Z == WriteSidecars(W, a, in)
  <1>1. Z = [Y EXCEPT !.ledger = led, !.spans = @ \cup sp,
                      !.turns = {t \in @ : ~\E u \in new : SameTurn(t, u)} \cup new]
    BY DEF WriteSidecars
  <1>2. KeepsFiles(W)
    BY DEF KeepsFiles, ParserRows, Sidecars
  <1>3. /\ new = ShownTurns(a)
        /\ \A s \in Rewritten(W, a) : OpenSession(s, a)
        /\ a.preserved \subseteq Closed(W, a)
    BY <1>2, NewByFile, ClosedByFile DEF Closed
  <1>4. /\ Rows(X) /\ Sidecars(X)
        /\ X.records = W.records /\ X.captured = W.captured /\ X.audits = W.audits
        /\ X.ledger = W.ledger /\ X.spans \subseteq W.spans /\ X.turns \subseteq W.turns
        /\ \A u \in W.turns : ~OpenSession(u.session, a) => u \in X.turns
    <2> DEFINE dropped == {t \in W.turns : t.session \in Rewritten(W, a)
                             /\ (t.session \in Shared(W, a, in) =>
                                     t.blobs \subseteq Replacing(W, a) /\ t.blobs # {})}
    <2>1. PICK lost : X = [W EXCEPT !.turns = @ \ dropped, !.spans = @ \ lost]
      BY DEF Clear
    <2>2. \A t \in dropped : OpenSession(t.session, a)
      BY <1>3
    <2> HIDE DEF X, dropped
    <2>3. /\ X.captured = W.captured /\ X.records = W.records /\ X.audits = W.audits
          /\ X.ledger = W.ledger /\ X.spans = W.spans \ lost /\ X.turns = W.turns \ dropped /\ Rows(X)
      BY <2>1 DEF Rows
    <2>4. Sidecars(X)
      BY <2>3 DEF Sidecars
    <2> QED BY <2>2, <2>3, <2>4
  <1> HIDE DEF X
  <1>5. OnlyMoves(Y, X)
    BY <1>4, NothingMoves, ReconcileMoves
  <1>6. Rows(Y) /\ Sidecars(Y)
    <2>1. X.sessions = W.sessions
      <3>1. \E ts, ss : X = [W EXCEPT !.turns = ts, !.spans = ss]
        BY DEF Clear, X
      <3> QED BY <3>1 DEF Rows
    <2>2. ParserRows(X)
      BY <1>4, <2>1 DEF ParserRows
    <2> QED BY <1>4, <2>2, ReconcileKeeps
  <1> HIDE DEF Y, led, sp, new, Z
  <1>7. /\ Z.captured = Y.captured /\ Z.records = Y.records /\ Z.audits = Y.audits
        /\ Z.ledger = led /\ Z.spans = Y.spans \cup sp
        /\ Z.turns = {t \in Y.turns : ~\E u \in new : SameTurn(t, u)} \cup new
    BY <1>1, <1>6 DEF Rows
  <1>8. \A p \in Path : /\ Y.ledger[p].blob = W.ledger[p].blob /\ Y.ledger[p].refs = W.ledger[p].refs
                        /\ HasLedger(Y, p) <=> HasLedger(W, p)
    BY <1>4, <1>5 DEF OnlyMoves, HasLedger
  <1>9. ASSUME NEW p \in Path
        PROVE  /\ LedgerStep(Z.ledger[p], W.ledger[p], p, a, in)
               /\ HasLedger(W, p) \/ (\E b \in BlobIds(a.payload) : PathOf[b] = p) => HasLedger(Z, p)
    <2>1. \A c \in Content : captured[c] # 0 => HasLedger(Y, PathOf[c])
      BY <1>8, SessionMergeAssumption
    <2>2. /\ LedgerStep(led[p], Y.ledger[p], p, a, in)
          /\ HasLedger(Y, p) \/ (\E b \in BlobIds(a.payload) : PathOf[b] = p) => led[p].blob # Gone
      BY <1>3, <1>6, <2>1, LedgerByFile DEF led
    <2> QED BY <1>7, <1>8, <2>2 DEF LedgerStep, HasLedger
  <1>10. \A x \in Z.spans : x \in W.spans \/ \E r \in a.payload.records : x = SpanOf(r)
    BY <1>4, <1>5, <1>7 DEF sp, OnlyMoves
  <1>11. ShownTurns(a) \subseteq Z.turns
    BY <1>3, <1>7
  <1>12. \A t \in Z.turns : t \in ShownTurns(a) \/ \E u \in W.turns : SameButAxis(t, u)
    BY <1>3, <1>4, <1>5, <1>7 DEF OnlyMoves
  <1>13. ASSUME NEW u \in W.turns, ~OpenSession(u.session, a)
         PROVE  (\E t \in Z.turns : SameButAxis(t, u)) \/ \E t \in ShownTurns(a) : t.session = u.session
    <2>1. PICK t \in Y.turns : SameButAxis(t, u)
      BY <1>4, <1>5, <1>13 DEF OnlyMoves
    <2>2. CASE t \in Z.turns
      BY <2>1, <2>2
    <2>3. CASE t \notin Z.turns
      <3>1. PICK v \in new : SameTurn(t, v)
        BY <1>7, <2>1, <2>3
      <3> QED BY <1>3, <2>1, <3>1 DEF SameTurn, SameButAxis
    <2> QED BY <2>2, <2>3
  <1>14. Z.records = W.records /\ Z.captured = W.captured /\ Z.audits = W.audits
    BY <1>4, <1>5, <1>7 DEF OnlyMoves
  <1>15. WrittenByFile(Z, W, a, in)
    BY <1>9, <1>10, <1>11, <1>12, <1>13, <1>14 DEF WrittenByFile
  <1> QED BY <1>15 DEF Z


-----------------------------------------------------------------------------
(* What a sync shows and what it no longer shows *)

\* The user's message of a row that is not refused is in a turn that is shown.
LEMMA RowShown ==
  ASSUME OneFileSessions, NEW in, NEW a, AttemptFound(a, in), AttemptKept(a, in),
         NEW r \in a.payload.records, r.msg \in Users, PathOf[r.blob] \notin a.refused
  PROVE  \E t \in ShownTurns(a) : t.session = r.session /\ r.msg \in t.msgs
  <1>1. a.payload.records \in SUBSET Record
    BY DEF AttemptFound, PayloadFound
  <1>2. PICK t \in Project(a.payload.records) : t.session = r.session /\ r.msg \in t.msgs
    BY <1>1, ProjectionCovers
  <1>3. \A b \in t.blobs : t.session \in Owns(PathOf[b])
    BY ShownOwned
  <1>4. r.session \in Owns(PathOf[r.blob])
    BY DEF AttemptKept
  <1>5. \A b \in t.blobs : PathOf[b] = PathOf[r.blob]
    BY <1>2, <1>3, <1>4, OneOwner
  <1> QED BY <1>2, <1>5 DEF ShownTurns

\* And a message of a turn that is shown is in such a row.
LEMMA ShownRow ==
  ASSUME OneFileSessions, NEW in, NEW a, AttemptFound(a, in), AttemptKept(a, in),
         NEW t \in ShownTurns(a), NEW m \in t.msgs
  PROVE  \E r \in a.payload.records : /\ r.session = t.session /\ r.msg = m
                                      /\ PathOf[r.blob] \notin a.refused
  <1>1. t \in Project(a.payload.records) /\ \A b \in t.blobs : PathOf[b] \notin a.refused
    BY DEF ShownTurns
  <1>2. t.blobs # {} /\ \A b \in t.blobs : t.session \in Owns(PathOf[b])
    BY <1>1, ShownOwned
  <1>3. PICK r \in a.payload.records : r.session = t.session /\ r.msg = m
    BY <1>1, ShownOwned
  <1>4. r.session \in Owns(PathOf[r.blob])
    BY DEF AttemptKept
  <1>5. PICK b \in t.blobs : TRUE
    BY <1>2
  <1>6. PathOf[r.blob] = PathOf[b]
    BY <1>2, <1>3, <1>4, <1>5, OneOwner
  <1> QED BY <1>1, <1>3, <1>5, <1>6

\* A message of a file that is not replaced stays in a turn.
LEMMA StaysShown ==
  ASSUME OneFileSessions, IInv, Agrees(Current), NEW in \in SyncInputs,
         NEW a, AttemptFound(a, in), AttemptKept(a, in),
         NEW W, MergedByFile(W, a), NEW Z, WrittenByFile(Z, W, a, in),
         NEW r \in records, PathOf[r.blob] \notin Opening(a), r.msg \in Users,
         NEW t \in turns, t.session = r.session, r.msg \in t.msgs
  PROVE  \E z \in Z.turns : z.session = r.session /\ r.msg \in z.msgs
  <1>1. r.session \in Owns(PathOf[r.blob])
    BY DEF Agrees, Owned, Current
  <1>2. ~OpenSession(t.session, a)
    BY <1>1, OpenPath
  <1>3. t \in W.turns
    BY <1>2 DEF MergedByFile
  <1>4. CASE \E z \in Z.turns : SameButAxis(z, t)
    BY <1>4 DEF SameButAxis
  <1>5. CASE \E u \in ShownTurns(a) : u.session = t.session
    <2>1. PICK u \in ShownTurns(a) : u.session = t.session
      BY <1>5
    <2>2. u.blobs # {} /\ \A b \in u.blobs : u.session \in Owns(PathOf[b]) /\ PathOf[b] \notin a.refused
      BY ShownOwned DEF ShownTurns
    <2>3. PICK b \in u.blobs : TRUE
      BY <2>2
    <2>4. PathOf[b] = PathOf[r.blob] /\ PathOf[r.blob] \notin a.refused
      BY <1>1, <2>1, <2>2, <2>3, OneOwner
    <2>5. PICK q \in a.payload.records : q.blob = b
      <3>1. a.payload.records \in SUBSET Record
        BY DEF AttemptFound, PayloadFound
      <3>2. u \in Project(a.payload.records)
        BY DEF ShownTurns
      <3> QED BY <2>3, <3>1, <3>2, ProjectionCovers
    <2>6. PathOf[q.blob] = PathOf[r.blob]
      BY <2>4, <2>5
    <2>7. PathOf[r.blob] \in a.preserved
      BY <2>4, <2>6, PayloadPaths
    <2>8. r \in a.payload.records
      BY <2>6, <2>7 DEF AttemptKept, KeepsPath
    <2>9. \E z \in ShownTurns(a) : z.session = r.session /\ r.msg \in z.msgs
      BY <2>4, <2>8, RowShown
    <2> QED BY <2>9 DEF WrittenByFile
  <1> QED BY <1>2, <1>3, <1>4, <1>5 DEF WrittenByFile

\* The two sides of the store agree after a merge as they did before.
LEMMA MergeAgrees ==
  ASSUME OneFileSessions, IInv, Agrees(Current), NEW in \in SyncInputs,
         NEW a, AttemptFound(a, in), AttemptKept(a, in),
         NEW W, MergedByFile(W, a), NEW Z, WrittenByFile(Z, W, a, in)
  PROVE  Agrees(Z)
  <1>1. /\ Owned(Current) /\ Backed(Current) /\ Visible(Current) /\ Audited(Current) /\ Listed(Current)
        /\ Current.records = records /\ Current.turns = turns /\ Current.spans = spans
        /\ Current.ledger = ledger /\ Current.audits = audits /\ Current.captured = captured
    BY DEF Agrees, Current
  <1>2. Z.records = W.records /\ Z.captured = W.captured /\ Z.audits = W.audits
    BY DEF WrittenByFile
  <1>3. /\ \A r \in records : r.session \in Owns(PathOf[r.blob]) /\ r.msg \in MsgsOf[r.blob]
        /\ \A r \in a.payload.records : r.session \in Owns(PathOf[r.blob]) /\ r.msg \in MsgsOf[r.blob]
        /\ \A r \in W.records : \/ r \in records /\ PathOf[r.blob] \notin Opening(a)
                                \/ r \in a.payload.records /\ PathOf[r.blob] \in Opening(a)
    BY <1>1 DEF Owned, AttemptKept, MergedByFile
  <1>4. \A t \in Z.turns : t \in ShownTurns(a) \/ \E u \in W.turns : SameButAxis(t, u)
    BY DEF WrittenByFile
  <1>5. Owned(Z)
    <2>1. \A r \in Z.records : r.session \in Owns(PathOf[r.blob]) /\ r.msg \in MsgsOf[r.blob]
      BY <1>2, <1>3
    <2>2. \A x \in Z.spans : x.session \in Owns(PathOf[x.blob])
      <3> SUFFICES ASSUME NEW x \in Z.spans PROVE x.session \in Owns(PathOf[x.blob])
        OBVIOUS
      <3>1. CASE x \in spans
        BY <1>1, <3>1 DEF Owned
      <3>2. CASE \E r \in a.payload.records : x = SpanOf(r)
        BY <1>3, <3>2 DEF SpanOf
      <3> QED BY <3>1, <3>2 DEF WrittenByFile, MergedByFile
    <2>3. \A p \in Path : /\ Z.ledger[p].refs \subseteq Owns(p)
                          /\ Z.ledger[p].blob # Gone => PathOf[Z.ledger[p].blob] = p
      <3> SUFFICES ASSUME NEW p \in Path
                   PROVE  /\ Z.ledger[p].refs \subseteq Owns(p)
                          /\ Z.ledger[p].blob # Gone => PathOf[Z.ledger[p].blob] = p
        OBVIOUS
      <3>1. LedgerStep(Z.ledger[p], ledger[p], p, a, in)
        BY DEF WrittenByFile, MergedByFile
      <3>2. ledger[p].refs \subseteq Owns(p) /\ (ledger[p].blob # Gone => PathOf[ledger[p].blob] = p)
        BY <1>1 DEF Owned
      <3>3. p \in in.files => PathOf[file[p].content] = p
        BY FileThere
      <3> QED BY <3>1, <3>2, <3>3 DEF LedgerStep
    <2>4. \A t \in Z.turns : t.blobs # {} /\ \A b \in t.blobs : t.session \in Owns(PathOf[b])
      <3> SUFFICES ASSUME NEW t \in Z.turns
                   PROVE  t.blobs # {} /\ \A b \in t.blobs : t.session \in Owns(PathOf[b])
        OBVIOUS
      <3>1. CASE t \in ShownTurns(a)
        BY <3>1, ShownOwned DEF ShownTurns
      <3>2. CASE \E u \in W.turns : SameButAxis(t, u)
        <4>1. PICK u \in turns : SameButAxis(t, u)
          BY <3>2 DEF MergedByFile
        <4> QED BY <1>1, <4>1 DEF Owned, SameButAxis
      <3> QED BY <1>4, <3>1, <3>2
    <2> QED BY <2>1, <2>2, <2>3, <2>4 DEF Owned
  <1>6. Backed(Z)
    <2> SUFFICES ASSUME NEW t \in Z.turns, NEW m \in t.msgs
                 PROVE  \E r \in Z.records : r.session = t.session /\ r.msg = m
      BY DEF Backed
    <2>1. CASE t \in ShownTurns(a)
      <3>1. PICK r \in a.payload.records : r.session = t.session /\ r.msg = m /\ PathOf[r.blob] \notin a.refused
        BY <2>1, ShownRow
      <3>2. CASE PathOf[r.blob] \in Opening(a)
        BY <1>2, <3>1, <3>2 DEF MergedByFile
      <3>3. CASE PathOf[r.blob] \notin Opening(a)
        <4>1. PathOf[r.blob] \in a.preserved
          BY <3>1, <3>3, PayloadPaths
        <4>2. r \in records
          BY <4>1 DEF AttemptKept, KeepsPath
        <4> QED BY <1>2, <3>1, <3>3, <4>2 DEF MergedByFile
      <3> QED BY <3>2, <3>3
    <2>2. CASE \E u \in W.turns : SameButAxis(t, u)
      <3>1. PICK u \in W.turns : SameButAxis(t, u)
        BY <2>2
      <3>2. u \in turns /\ m \in u.msgs /\ u.session = t.session /\ ~OpenSession(u.session, a)
        BY <3>1 DEF MergedByFile, SameButAxis
      <3>3. PICK r \in records : r.session = u.session /\ r.msg = m
        BY <1>1, <3>2 DEF Backed
      <3>4. PathOf[r.blob] \notin Opening(a)
        BY <1>3, <3>2, <3>3 DEF OpenSession
      <3> QED BY <1>2, <3>2, <3>3, <3>4 DEF MergedByFile
    <2> QED BY <1>4, <2>1, <2>2
  <1>7. Visible(Z)
    <2> SUFFICES ASSUME NEW r \in Z.records, r.msg \in Users, r.blob \notin Bad
                 PROVE  \E t \in Z.turns : t.session = r.session /\ r.msg \in t.msgs
      BY DEF Visible
    <2>1. CASE r \in records /\ PathOf[r.blob] \notin Opening(a)
      <3>1. PICK t \in turns : t.session = r.session /\ r.msg \in t.msgs
        BY <1>1, <2>1 DEF Visible
      <3> QED BY <2>1, <3>1, StaysShown
    <2>2. CASE r \in a.payload.records /\ PathOf[r.blob] \in Opening(a)
      <3>1. PathOf[r.blob] \notin a.refused
        BY <2>2 DEF Opening
      <3>2. \E t \in ShownTurns(a) : t.session = r.session /\ r.msg \in t.msgs
        BY <2>2, <3>1, RowShown
      <3> QED BY <3>2 DEF WrittenByFile
    <2> QED BY <1>2, <1>3, <2>1, <2>2
  <1>8. Audited(Z)
    <2>1. \A b \in Z.audits : b \in Bad /\ Z.captured[b] # 0
      BY <1>1, <1>2 DEF Audited, AttemptKept, MergedByFile
    <2>2. ASSUME NEW r \in Z.records, r.blob \in Bad
          PROVE  r.blob \in Z.audits /\ r.session = SessionOf[r.blob]
      <3>1. CASE r \in records /\ PathOf[r.blob] \notin Opening(a)
        BY <1>1, <1>2, <2>2, <3>1 DEF Audited, MergedByFile
      <3>2. CASE r \in a.payload.records /\ PathOf[r.blob] \in Opening(a)
        BY <2>2, <3>2 DEF AttemptKept, Opening
      <3> QED BY <1>2, <1>3, <3>1, <3>2
    <2> QED BY <2>1, <2>2 DEF Audited
  <1>9. Listed(Z)
    <2> SUFFICES ASSUME NEW c \in Content, Z.captured[c] # 0
                 PROVE  HasLedger(Z, PathOf[c])
      BY DEF Listed
    <2>1. captured[c] # 0 \/ c \in BlobIds(a.payload)
      BY <1>2 DEF MergedByFile
    <2>2. captured[c] # 0 => HasLedger(W, PathOf[c])
      BY <1>1 DEF Listed, MergedByFile, HasLedger
    <2>3. PathOf[c] \in Path
      BY SessionMergeAssumption
    <2> QED BY <2>1, <2>2, <2>3 DEF WrittenByFile
  <1> QED BY <1>5, <1>6, <1>7, <1>8, <1>9 DEF Agrees

\* What is shown of the rows W.
ShownIn(W) == (UNION {t.msgs : t \in W.turns}) \cap Users

\* A message is shown when the user wrote it and a turn holds it.
LEMMA ShownMember ==
  /\ \A W, m : m \in ShownIn(W) <=> m \in Users /\ \E t \in W.turns : m \in t.msgs
  /\ \A m : m \in ShownIn(Current) <=> m \in Users /\ \E t \in turns : m \in t.msgs
  <1>1. ASSUME NEW W, NEW m
        PROVE  m \in ShownIn(W) <=> m \in Users /\ \E t \in W.turns : m \in t.msgs
    BY DEF ShownIn
  <1>2. Current.turns = turns
    BY DEF Current
  <1> QED BY <1>1, <1>2

\* A prompt is withdrawn or shown for the first time as the abstract sync allows.
Retains(Z) ==
    /\ \A p \in Path : Z.ledger[p].blob # ledger[p].blob =>
          file[p].content # Gone /\ Z.ledger[p].blob = file[p].content
    /\ ShownIn(Current) \ ShownIn(Z) \subseteq RetentionOfPrompts!Withdrawn
    /\ ShownIn(Z) \ ShownIn(Current) \subseteq RetentionOfPrompts!Available

\* A message that a file there does not hold may be withdrawn.
LEMMA WithdrawnFrom ==
  ASSUME NEW c \in Content, NEW m \in MsgsOf[c] \cap Users,
         file[PathOf[c]].content \in Content, m \notin MsgsOf[file[PathOf[c]].content]
  PROVE  m \in RetentionOfPrompts!Withdrawn
  <1> DEFINE prompts == [d \in Content |-> MsgsOf[d] \cap Users]
             d == file[PathOf[c]].content
  <1>1. PathOf[c] \in Path /\ d # Gone /\ d \in Content
    BY SessionMergeAssumption
  <1>2. RetentionOfPrompts!Latest(PathOf[c]) = d
    BY <1>1 DEF RetentionOfPrompts!Latest
  <1>3. m \in prompts[c] /\ m \notin prompts[d]
    BY <1>1
  <1> HIDE DEF prompts, d
  <1>4. m \in UNION {prompts[x] : x \in Content}
    BY <1>3
  <1>5. \E x \in Content : /\ m \in prompts[x] /\ RetentionOfPrompts!Latest(PathOf[x]) # Gone
                           /\ m \notin prompts[RetentionOfPrompts!Latest(PathOf[x])]
    BY <1>1, <1>2, <1>3
  <1> QED BY <1>4, <1>5 DEF RetentionOfPrompts!Withdrawn, prompts

\* A message that a file there holds is available.
LEMMA AvailableFrom ==
  ASSUME NEW p \in Path, file[p].content \in Content, NEW m \in MsgsOf[file[p].content] \cap Users
  PROVE  m \in RetentionOfPrompts!Available
  <1> DEFINE prompts == [d \in Content |-> MsgsOf[d] \cap Users]
             d == file[p].content
  <1>1. d # Gone /\ d \in Content
    BY SessionMergeAssumption
  <1>2. RetentionOfPrompts!Latest(p) = d
    BY <1>1 DEF RetentionOfPrompts!Latest
  <1>3. m \in prompts[d]
    BY <1>1
  <1> HIDE DEF prompts, d
  <1>4. p \in {q \in Path : RetentionOfPrompts!Latest(q) # Gone} /\ m \in prompts[RetentionOfPrompts!Latest(p)]
    BY <1>1, <1>2, <1>3
  <1>5. m \in UNION {prompts[RetentionOfPrompts!Latest(x)] : x \in {q \in Path : RetentionOfPrompts!Latest(q) # Gone}}
    BY <1>4
  <1> QED BY <1>5 DEF RetentionOfPrompts!Available, prompts


\* What is shown for the first time is in a file that is there.
LEMMA GainedAvailable ==
  ASSUME OneFileSessions, IInv, Agrees(Current), NEW in \in SyncInputs,
         NEW a, AttemptFound(a, in), AttemptKept(a, in),
         NEW t \in ShownTurns(a), NEW m \in t.msgs, m \in Users, m \notin ShownIn(Current)
  PROVE  m \in RetentionOfPrompts!Available
  <1>1. PICK r \in a.payload.records : r.session = t.session /\ r.msg = m /\ PathOf[r.blob] \notin a.refused
    BY ShownRow
  <1>2. /\ r.msg \in MsgsOf[r.blob] /\ (r \in records \/ r.blob = file[PathOf[r.blob]].content)
        /\ r.blob \notin Bad /\ r.blob \in Content
    BY <1>1 DEF AttemptKept, AttemptFound, PayloadFound, Record
  <1>3. r \notin records
    <2> SUFFICES ASSUME r \in records PROVE FALSE
      OBVIOUS
    <2>1. \E u \in turns : u.session = r.session /\ r.msg \in u.msgs
      BY <1>1, <1>2 DEF Agrees, Visible, Current
    <2> QED BY <1>1, <2>1, ShownMember
  <1>4. r.blob = file[PathOf[r.blob]].content /\ PathOf[r.blob] \in Path
    BY <1>2, <1>3, SessionMergeAssumption
  <1> QED BY <1>1, <1>2, <1>4, AvailableFrom

\* A merge withdraws and shows what the abstract sync does.
LEMMA MergeRetains ==
  ASSUME OneFileSessions, IInv, Agrees(Current), NEW in \in SyncInputs,
         NEW a, AttemptFound(a, in), AttemptKept(a, in),
         NEW W, MergedByFile(W, a), NEW Z, WrittenByFile(Z, W, a, in)
  PROVE  Retains(Z)
  <1>1. ASSUME NEW p \in Path, Z.ledger[p].blob # ledger[p].blob
        PROVE  file[p].content # Gone /\ Z.ledger[p].blob = file[p].content
    <2>1. LedgerStep(Z.ledger[p], ledger[p], p, a, in)
      BY DEF WrittenByFile, MergedByFile
    <2>2. p \in in.files /\ Z.ledger[p].blob = file[p].content
      BY <1>1, <2>1 DEF LedgerStep
    <2> QED BY <2>2, FileThere, SessionMergeAssumption
  <1>2. ASSUME NEW m \in ShownIn(Current), m \notin ShownIn(Z)
        PROVE  m \in RetentionOfPrompts!Withdrawn
    <2>1. PICK t \in turns : m \in t.msgs /\ m \in Users
      BY <1>2, ShownMember
    <2>2. PICK r \in records : r.session = t.session /\ r.msg = m
      BY <2>1 DEF Agrees, Backed, Current
    <2> DEFINE p == PathOf[r.blob]
    <2>3. r.blob \in Content /\ m \in MsgsOf[r.blob]
      BY <2>2, StoredRecords DEF Agrees, Owned, Current
    <2>4. p \in Opening(a)
      <3> SUFFICES ASSUME p \notin Opening(a) PROVE FALSE
        OBVIOUS
      <3>1. \E z \in Z.turns : z.session = r.session /\ r.msg \in z.msgs
        BY <2>1, <2>2, StaysShown
      <3> QED BY <1>2, <2>1, <2>2, <3>1, ShownMember
    <2>5. p \in in.files /\ p \notin a.refused
      BY <2>4 DEF AttemptKept, Opening
    <2>6. file[p].content \in Content
      BY <2>5, FileThere
    <2>7. m \notin MsgsOf[file[p].content]
      <3> SUFFICES ASSUME m \in MsgsOf[file[p].content] PROVE FALSE
        OBVIOUS
      <3>1. PICK q \in a.payload.records : PathOf[q.blob] = p /\ q.msg = m
        BY <2>2, <2>4 DEF AttemptKept, MissesNone
      <3>2. \E z \in ShownTurns(a) : z.session = q.session /\ q.msg \in z.msgs
        BY <2>1, <2>5, <3>1, RowShown
      <3>3. \E z \in Z.turns : m \in z.msgs
        BY <3>1, <3>2 DEF WrittenByFile
      <3> QED BY <1>2, <2>1, <3>3, ShownMember
    <2> QED BY <2>1, <2>3, <2>6, <2>7, WithdrawnFrom
  <1>3. ASSUME NEW m \in ShownIn(Z), m \notin ShownIn(Current)
        PROVE  m \in RetentionOfPrompts!Available
    <2>1. PICK t \in Z.turns : m \in t.msgs /\ m \in Users
      BY <1>3, ShownMember
    <2>2. ~\E u \in W.turns : SameButAxis(t, u)
      BY <1>3, <2>1, ShownMember DEF MergedByFile, SameButAxis
    <2>3. t \in ShownTurns(a)
      BY <2>2 DEF WrittenByFile
    <2> QED BY <1>3, <2>1, <2>3, GainedAvailable
  <1> QED BY <1>1, <1>2, <1>3 DEF Retains

\* Before the first sync nothing is stored: every row is of the file as it is.
LEMMA ReplaceAgrees ==
  ASSUME OneFileSessions, IInv, EmptyAtFirst, stage = 0, Agrees(Current), NEW in \in SyncInputs,
         NEW a, AttemptFound(a, in), AttemptKept(a, in)
  PROVE  Agrees(Replace(a)) /\ Retains(Replace(a))
  <1> DEFINE Z == Replace(a)
             led == UpsertLedger(Current, a.payload, {})
             sp == {SpanOf(r) : r \in {q \in a.payload.records : PathOf[q.blob] \notin a.refused}}
             caps == [c \in Content |-> IF c \in BlobIds(a.payload) THEN file[PathOf[c]].time ELSE 0]
  <1>1. /\ Z.captured = caps /\ Z.records = a.payload.records /\ Z.audits = a.payload.audits
        /\ Z.ledger = led /\ Z.spans = sp /\ Z.turns = ShownTurns(a)
    BY DEF Replace, ShownTurns
  <1>2. records = {} /\ ~ProfileMatches
    BY DEF EmptyAtFirst, ProfileMatches, IInv, TypeOK, Versions
  <1>3. a.preserved = {} /\ Reparsed(a.payload, in)
    BY <1>2 DEF AttemptFound
  <1>4. \A r \in a.payload.records : r.session \in Owns(PathOf[r.blob]) /\ r.msg \in MsgsOf[r.blob]
    BY DEF AttemptKept
  <1>5. ASSUME NEW p \in Path
        PROVE  /\ LedgerStep(led[p], ledger[p], p, a, in)
               /\ (\E b \in BlobIds(a.payload) : PathOf[b] = p) => led[p].blob # Gone
    <2>1. Sidecars(Current) /\ Current.ledger = ledger
      BY CurrentRows DEF Current
    <2>2. \A c \in Content : captured[c] # 0 => HasLedger(Current, PathOf[c])
      BY DEF Agrees, Listed, Current
    <2>3. a.preserved \subseteq {}
      BY <1>3
    <2> QED BY <2>1, <2>2, <2>3, LedgerByFile
  <1>6. \A c \in Content : caps[c] # 0 => c \in BlobIds(a.payload)
    OBVIOUS
  <1>7. \A c \in BlobIds(a.payload) : c \in Content => caps[c] # 0
    BY SessionMergeAssumption DEF IInv, FilesWritten
  <1> HIDE DEF Z, led, sp, caps
  <1>8. Owned(Z)
    <2>1. \A x \in Z.spans : x.session \in Owns(PathOf[x.blob])
      BY <1>1, <1>4 DEF sp, SpanOf
    <2>2. ASSUME NEW p \in Path
          PROVE  /\ Z.ledger[p].refs \subseteq Owns(p)
                 /\ Z.ledger[p].blob # Gone => PathOf[Z.ledger[p].blob] = p
      <3>1. ledger[p].refs \subseteq Owns(p) /\ (ledger[p].blob # Gone => PathOf[ledger[p].blob] = p)
        BY DEF Agrees, Owned, Current
      <3>2. p \in in.files => PathOf[file[p].content] = p
        BY FileThere
      <3> QED BY <1>1, <1>5, <3>1, <3>2 DEF LedgerStep
    <2>3. \A t \in Z.turns : t.blobs # {} /\ \A b \in t.blobs : t.session \in Owns(PathOf[b])
      BY <1>1, ShownOwned DEF ShownTurns
    <2> QED BY <1>1, <1>4, <2>1, <2>2, <2>3 DEF Owned
  <1>9. Backed(Z)
    BY <1>1, ShownRow DEF Backed
  <1>10. Visible(Z)
    <2> SUFFICES ASSUME NEW r \in a.payload.records, r.msg \in Users, r.blob \notin Bad
                 PROVE  \E t \in ShownTurns(a) : t.session = r.session /\ r.msg \in t.msgs
      BY <1>1 DEF Visible
    <2>1. PathOf[r.blob] \in in.files \ in.broken
      BY <1>3 DEF Reparsed, Fresh
    <2>2. PathOf[r.blob] \notin PathsOf(a.payload.audits \cap BlobIds(a.payload))
      <3> SUFFICES ASSUME NEW b \in a.payload.audits, PathOf[b] = PathOf[r.blob] PROVE FALSE
        BY DEF PathsOf
      <3>1. Attributed(r, a.payload.audits)
        BY DEF AttemptFound, PayloadFound
      <3>2. r.session \notin SessionsOf(RecordsOf(PathOf[r.blob]))
        BY <1>2 DEF SessionsOf, RecordsOf
      <3>3. b = r.blob /\ b \in Bad
        BY <3>1, <3>2 DEF Attributed
      <3> QED BY <2>1, <3>3
    <2>3. PathOf[r.blob] \notin a.refused
      BY <2>1, <2>2 DEF AttemptFound, PayloadFound
    <2> QED BY <2>3, RowShown
  <1>11. Audited(Z)
    <2>1. \A b \in a.payload.audits : b \in Bad /\ b \in BlobIds(a.payload) /\ b \in Content
      BY DEF AttemptKept, AttemptFound, PayloadFound
    <2>2. \A r \in a.payload.records : r.blob \in Bad => r.blob \in a.payload.audits /\ r.session = SessionOf[r.blob]
      BY <1>2 DEF AttemptKept
    <2> QED BY <1>1, <1>7, <2>1, <2>2 DEF Audited
  <1>12. Listed(Z)
    <2>1. \A c \in Content : Z.captured[c] # 0 => led[PathOf[c]].blob # Gone
      BY <1>1, <1>5, <1>6, SessionMergeAssumption
    <2> QED BY <1>1, <2>1 DEF Listed, HasLedger
  <1>13. Retains(Z)
    <2>1. ASSUME NEW p \in Path, Z.ledger[p].blob # ledger[p].blob
          PROVE  file[p].content # Gone /\ Z.ledger[p].blob = file[p].content
      <3>1. p \in in.files /\ Z.ledger[p].blob = file[p].content
        BY <1>1, <1>5, <2>1 DEF LedgerStep
      <3> QED BY <3>1, FileThere, SessionMergeAssumption
    <2>2. ShownIn(Current) = {}
      <3>1. \A t \in turns : t.msgs = {}
        BY <1>2 DEF Agrees, Backed, Current
      <3> QED BY <3>1 DEF ShownIn, Current
    <2>3. ASSUME NEW m \in ShownIn(Z), m \notin ShownIn(Current)
          PROVE  m \in RetentionOfPrompts!Available
      <3>1. PICK t \in ShownTurns(a) : m \in t.msgs /\ m \in Users
        BY <1>1, <2>3, ShownMember
      <3> QED BY <2>3, <3>1, GainedAvailable
    <2> QED BY <2>1, <2>2, <2>3 DEF Retains
  <1>14. Agrees(Z) /\ Retains(Z)
    BY <1>8, <1>9, <1>10, <1>11, <1>12, <1>13 DEF Agrees
  <1> QED BY <1>14 DEF Z

\* Rows that have only moved show what they showed.
LEMMA MovesRetain ==
  ASSUME NEW R, OnlyMoves(R, Current)
  PROVE  Retains(R)
  <1>1. ShownIn(R) = ShownIn(Current)
    BY DEF OnlyMoves, SameButAxis, ShownIn
  <1>2. \A p \in Path : R.ledger[p].blob = ledger[p].blob
    BY DEF OnlyMoves, Current
  <1> QED BY <1>1, <1>2 DEF Retains

\* Whatever a sync writes keeps the two sides of the store in agreement, and shows
\* and withdraws what the abstract sync does.
LEMMA OutcomeRetains ==
  ASSUME OneFileSessions, IInv, EmptyAtFirst, Agrees(Current), NEW in \in SyncInputs,
         NEW a, AttemptFound(a, in), AttemptKept(a, in)
  PROVE  Agrees(Outcome(a, in)) /\ Retains(Outcome(a, in))
  <1>1. CASE stage # 0 /\ MetadataOnly(a)
    <2>1. \/ Outcome(a, in) = Current
          \/ Outcome(a, in) = Reconcile(Current, Observed(a, in))
      BY <1>1 DEF Outcome
    <2>2. OnlyMoves(Outcome(a, in), Current)
      BY <2>1, NothingMoves, CurrentRows, ReconcileMoves
    <2> QED BY <2>2, MovesAgree, MovesRetain
  <1>2. CASE stage # 0 /\ ~MetadataOnly(a)
    <2> DEFINE W == MergeRows(a, in)
               Z == WriteSidecars(W, a, in)
    <2>1. MergedByFile(W, a) /\ Merged(W, a, Plan(a, in))
      BY MergeByFile, MergeMade
    <2>2. Rows(W) /\ ParserRows(W) /\ Sidecars(W)
      BY <2>1, PlanMade, MergedParserRows, MergedSidecars DEF Merged
    <2> HIDE DEF W
    <2>3. \A c \in Content : captured[c] # 0 => HasLedger(W, PathOf[c])
      BY <2>1 DEF Agrees, Listed, MergedByFile, HasLedger, Current
    <2>4. Owned(W)
      <3>1. \A r \in W.records : r.session \in Owns(PathOf[r.blob]) /\ r.msg \in MsgsOf[r.blob]
        BY <2>1 DEF MergedByFile, Agrees, Owned, Current, AttemptKept
      <3> QED BY <2>1, <3>1 DEF MergedByFile, Agrees, Owned, Current
    <2>5. WrittenByFile(Z, W, a, in)
      BY <2>2, <2>3, <2>4, SidecarsByFile
    <2> HIDE DEF Z
    <2>6. Agrees(Z) /\ Retains(Z)
      BY <2>1, <2>5, MergeAgrees, MergeRetains
    <2>7. Outcome(a, in) = Z
      BY <1>2 DEF Outcome, W, Z
    <2> QED BY <2>6, <2>7
  <1>3. CASE stage = 0
    BY <1>3, ReplaceAgrees DEF Outcome
  <1> QED BY <1>1, <1>2, <1>3


-----------------------------------------------------------------------------
(* The store implements the retention contract *)

\* The two sides of what is stored agree.
SidesAgree == Agrees(Current)

\* A sync keeps them in agreement and retains what it has shown.
LEMMA SyncRetains ==
  ASSUME OneFileSessions, IInv, EmptyAtFirst, SidesAgree, NEW in \in SyncInputs, SyncWith(in)
  PROVE  SidesAgree' /\ RetentionOfPrompts!Sync
  <1> DEFINE a == Attempt(in)
             Z == Outcome(a, in)
  <1>1. /\ captured' = Z.captured /\ records' = Z.records /\ audits' = Z.audits
        /\ ledger' = Z.ledger /\ spans' = Z.spans /\ turns' = Z.turns /\ file' = file
    BY DEF SyncWith
  <1>2. AttemptFound(a, in) /\ AttemptKept(a, in)
    BY AttemptMade, AttemptKeeps DEF SidesAgree, Agrees
  <1> HIDE DEF a
  <1>3. Agrees(Z) /\ Retains(Z)
    BY <1>2, OutcomeRetains DEF SidesAgree
  <1> HIDE DEF Z
  <1>4. /\ Current'.captured = Z.captured /\ Current'.records = Z.records /\ Current'.audits = Z.audits
        /\ Current'.ledger = Z.ledger /\ Current'.spans = Z.spans /\ Current'.turns = Z.turns
    BY <1>1 DEF Current
  <1>5. SidesAgree'
    BY <1>3, <1>4 DEF SidesAgree, Agrees, Owned, Backed, Visible, Audited, Listed, HasLedger
  <1>6. Shown = ShownIn(Current) /\ Shown' = ShownIn(Z)
    BY <1>1 DEF Shown, ShownIn, Current
  <1>7. RetentionOfPrompts!Sync
    BY <1>1, <1>3, <1>6 DEF RetentionOfPrompts!Sync, Retains
  <1> QED BY <1>5, <1>7

\* What is stored agrees from the first sync on.
LEMMA SidesAlwaysAgree ==
  ASSUME OneFileSessions
  PROVE  Spec => []SidesAgree
  <1>1. Init => SidesAgree
    BY DEF Init, SidesAgree, Agrees, Owned, Backed, Visible, Audited, Listed, Current, NoLedger
  <1>2. IInv /\ EmptyAtFirst /\ SidesAgree /\ [Next]_vars => SidesAgree'
    <2> SUFFICES ASSUME IInv, EmptyAtFirst, SidesAgree, [Next]_vars PROVE SidesAgree'
      OBVIOUS
    <2>1. CASE Sync
      BY <2>1, SyncRetains DEF Sync
    <2>2. CASE UNCHANGED store
      BY <2>2 DEF store, SidesAgree, Agrees, Owned, Backed, Visible, Audited, Listed, HasLedger, Current
    <2> QED BY <2>1, <2>2 DEF Next, Write, Remove, Upgrade, vars
  <1> QED BY <1>1, <1>2, Inductive, FirstIsEmpty, PTL DEF Spec

\* A step that is no sync is an edit of a file, or nothing that the contract sees.
LEMMA EditsRetain ==
  ASSUME IInv, [Next]_vars, ~Sync
  PROVE  [RetentionOfPrompts!Next]_(RetentionOfPrompts!retentionVars)
  <1>1. CASE \E p \in Path, c \in Content : Write(p, c)
    <2>1. PICK p \in Path, c \in Content : Write(p, c)
      BY <1>1
    <2>2. RetentionOfPrompts!Edit(p)
      BY <2>1 DEF Write, store, Shown, IInv, TypeOK, RetentionOfPrompts!Edit, RetentionOfPrompts!ContentsOf
    <2> QED BY <2>2 DEF RetentionOfPrompts!Next
  <1>2. CASE \E p \in Path : Remove(p)
    <2>1. PICK p \in Path : Remove(p)
      BY <1>2
    <2>2. RetentionOfPrompts!Edit(p)
      BY <2>1 DEF Remove, store, Shown, IInv, TypeOK, RetentionOfPrompts!Edit
    <2> QED BY <2>2 DEF RetentionOfPrompts!Next
  <1>3. CASE UNCHANGED <<file, store>>
    BY <1>3 DEF store, Shown, RetentionOfPrompts!retentionVars
  <1> QED BY <1>1, <1>2, <1>3 DEF Next, Upgrade, vars

\* As long as no two files hold the same session the store implements the retention
\* contract: whatever files are removed, cannot be read or are listed in part, and
\* whatever parser reads them, a prompt that was shown leaves the turns only when
\* its file is there without it (docs/contracts/source-absence-retention.md,
\* sync.ts 676-760, source-payload.ts 241-500, evidence-store.ts 1507-1635).
THEOREM RetainedOneFile ==
  ASSUME OneFileSessions
  PROVE  Spec => PromptsAreRetained
  <1>1. Init => RetentionOfPrompts!Init
    BY DEF Init, NoLedger, Shown, RetentionOfPrompts!Init
  <1>2. IInv /\ EmptyAtFirst /\ SidesAgree /\ [Next]_vars
           => [RetentionOfPrompts!Next]_(RetentionOfPrompts!retentionVars)
    <2> SUFFICES ASSUME IInv, EmptyAtFirst, SidesAgree, [Next]_vars
                 PROVE  [RetentionOfPrompts!Next]_(RetentionOfPrompts!retentionVars)
      OBVIOUS
    <2>1. CASE Sync
      <3>1. RetentionOfPrompts!Sync
        BY <2>1, SyncRetains DEF Sync
      <3> QED BY <3>1 DEF RetentionOfPrompts!Next
    <2> QED BY <2>1, EditsRetain
  <1> QED BY <1>1, <1>2, Inductive, FirstIsEmpty, SidesAlwaysAgree, PTL
          DEF Spec, PromptsAreRetained, RetentionOfPrompts!Spec

\* A sync takes a message of a file out of the records only where it opens the
\* file, and then the attempt has every message that the file still holds.
LEMMA SyncLeavesOneFile ==
  ASSUME OneFileSessions, IInv, EmptyAtFirst, SidesAgree, NEW in \in SyncInputs, SyncWith(in),
         NEW r \in records, \A q \in records' : q.msg # r.msg
  PROVE  RewrittenWithout(r)
  <1> DEFINE a == Attempt(in)
             W == MergeRows(a, in)
             p == PathOf[r.blob]
  <1>1. AttemptFound(a, in) /\ AttemptKept(a, in)
    BY AttemptMade, AttemptKeeps DEF SidesAgree, Agrees
  <1>2. records' = Outcome(a, in).records
    BY DEF SyncWith
  <1> HIDE DEF a
  <1>3. records' = W.records
    <2>1. Outcome(a, in).records = records \/ Outcome(a, in).records = W.records
      BY <1>1, OutcomeRecords DEF EmptyAtFirst
    <2> QED BY <1>2, <2>1
  <1>4. MergedByFile(W, a)
    BY <1>1, MergeByFile DEF SidesAgree
  <1> HIDE DEF W
  <1>5. p \in Opening(a)
    BY <1>3, <1>4 DEF MergedByFile
  <1>6. file[p].content \in Content
    BY <1>1, <1>5, FileThere DEF AttemptKept
  <1>7. r.msg \notin MsgsOf[file[p].content]
    <2> SUFFICES ASSUME r.msg \in MsgsOf[file[p].content] PROVE FALSE
      OBVIOUS
    <2>1. PICK q \in a.payload.records : PathOf[q.blob] = p /\ q.msg = r.msg
      BY <1>1, <1>5 DEF AttemptKept, MissesNone
    <2> QED BY <1>3, <1>4, <1>5, <2>1 DEF MergedByFile
  <1> QED BY <1>6, <1>7, SessionMergeAssumption DEF RewrittenWithout

\* The records keep their messages as well, also where a file is rewritten as
\* another session (sync.ts 676-720, source-payload.ts 241-500).
THEOREM RecordsLeaveOneFile ==
  ASSUME OneFileSessions
  PROVE  Spec => RecordsLeaveByRewrite
  <1> DEFINE Leaves == \A r \in records : (\A q \in records' : q.msg # r.msg) =>
                 LET c == file[PathOf[r.blob]].content IN c # Gone /\ r.msg \notin MsgsOf[c]
  <1>1. IInv /\ EmptyAtFirst /\ SidesAgree /\ [Next]_vars => [Leaves]_vars
    <2> SUFFICES ASSUME IInv, EmptyAtFirst, SidesAgree, Next,
                        NEW r \in records, \A q \in records' : q.msg # r.msg
                 PROVE  RewrittenWithout(r)
      BY DEF RewrittenWithout
    <2>1. CASE Sync
      BY <2>1, SyncLeavesOneFile DEF Sync
    <2>2. CASE ~Sync
      <3>1. records' = records
        BY <2>2 DEF Next, Write, Remove, Upgrade, store
      <3> QED BY <3>1
    <2> QED BY <2>1, <2>2
  <1> QED BY <1>1, Inductive, FirstIsEmpty, SidesAlwaysAgree, PTL
          DEF Spec, RecordsLeaveByRewrite

=============================================================================
