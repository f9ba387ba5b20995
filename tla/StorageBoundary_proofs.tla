----------------------- MODULE StorageBoundary_proofs -----------------------
(***************************************************************************)
(* No migration command loses a turn of the V1 tables, whatever commands   *)
(* of other processes, syncs, purges and deaths come in between: for any   *)
(* number of processes, sources and turns.                                 *)
(***************************************************************************)
EXTENDS StorageBoundary, TLAPS

-----------------------------------------------------------------------------
(* The inductive invariants *)

\* The scopes each command works on, and one of them while it works.
Well(d) ==
    /\ d \in Doings
    /\ d.cmd = "run" => d.todo \in Seq(Source)
    /\ d.cmd \in {"validate", "compact"} => d.todo \in Seq(Kinds)
    /\ d.cmd = "drop" => d.todo = <<"compact">>
    /\ d.at # "next" => d.cmd \in Doer /\ d.todo # <<>>

TInv == TypeOK /\ \A p \in Process : Well(proc[p])

\* Where the turns of V1 may be.
Kept == InV2 \cup withdrawn

\* What a command has seen to be kept when it is about to say so, or to drop.
Seen(d, kept) ==
    /\ (d.cmd \in {"validate", "compact"} /\ d.at = "complete" /\ Head(d.todo) = "inventory")
          => V1Turns \subseteq kept
    /\ (d.cmd = "run" /\ d.at = "complete") => V1Turns \cap TurnsOf(Head(d.todo)) \subseteq kept
    /\ d.cmd = "drop" => V1Turns \subseteq kept

KInv ==
    /\ TInv
    /\ V1Turns \cap purged \subseteq Kept
    /\ DroppedTurnsAreKept
    /\ HandoffKeepsTurns
    /\ BackfilledSourcesAreComplete
    /\ marker["inventory"] = "completed" => V1Turns \subseteq Kept
    /\ \A p \in Process : Seen(proc[p], Kept)

-----------------------------------------------------------------------------
(* Commands and their scopes *)

Ats == {"next", "mark", "work", "work2", "complete", "abort"}

LEMMA DoingTyped ==
  ASSUME NEW cmd \in Doer \cup {"idle", "reset"}, NEW todo \in Seq(Scope \cup DOMAIN PhaseScopes),
         NEW at \in Ats, NEW failed \in BOOLEAN, NEW cursor \in Nat \cup {NoBaseline}
  PROVE  [cmd |-> cmd, todo |-> todo, at |-> at, failed |-> failed, cursor |-> cursor] \in Doings
  BY DEF Doings, Ats

LEMMA DoingFields ==
  ASSUME NEW d \in Doings
  PROVE  /\ d.cmd \in Doer \cup {"idle", "reset"} /\ d.todo \in Seq(Scope \cup DOMAIN PhaseScopes)
         /\ d.at \in Ats /\ d.failed \in BOOLEAN /\ d.cursor \in Nat \cup {NoBaseline}
  BY DEF Doings, Ats

\* Going on to another statement changes nothing else.
LEMMA AtExcept ==
  ASSUME NEW d \in Doings, NEW at \in Ats
  PROVE  /\ [d EXCEPT !.at = at] \in Doings
         /\ [d EXCEPT !.at = at].at = at
         /\ [d EXCEPT !.at = at].cmd = d.cmd
         /\ [d EXCEPT !.at = at].todo = d.todo
  BY DEF Doings, Ats

LEMMA ScopeParts ==
  /\ Source \subseteq Scope /\ Kinds \subseteq Scope /\ "compact" \in Scope /\ "inventory" \in Kinds
  /\ Source \cap Kinds = {} /\ "compact" \notin Source /\ "compact" \notin Kinds
  /\ DOMAIN PhaseScopes = {"write", "validate", "compact", "all"}
  BY StorageBoundaryAssumption DEF Scope, Kinds, PhaseScopes

\* The scope a command works on.
LEMMA NowIs ==
  ASSUME NEW d, Well(d), d.cmd \in Doer, d.todo # <<>>
  PROVE  /\ d.cmd = "run" => Head(d.todo) \in Source
         /\ d.cmd \in {"validate", "compact"} => Head(d.todo) \in Kinds
         /\ d.cmd = "drop" => Head(d.todo) = "compact"
         /\ Head(d.todo) \in Scope
  <1>1. d.cmd = "run" => Head(d.todo) \in Source
    BY DEF Well
  <1>2. d.cmd \in {"validate", "compact"} => Head(d.todo) \in Kinds
    BY DEF Well
  <1>3. d.cmd = "drop" => Head(d.todo) = "compact"
    BY DEF Well
  <1> QED BY <1>1, <1>2, <1>3, ScopeParts DEF Doer

\* A command that starts is well formed.
LEMMA DoingWell ==
  ASSUME NEW cmd \in Doer \cup {"idle", "reset"}, NEW todo \in Seq(Scope \cup DOMAIN PhaseScopes),
         cmd = "run" => todo \in Seq(Source),
         cmd \in {"validate", "compact"} => todo \in Seq(Kinds),
         cmd = "drop" => todo = <<"compact">>
  PROVE  Well(Doing(cmd, todo)) /\ \A kept : cmd # "drop" => Seen(Doing(cmd, todo), kept)
  <1>1. Doing(cmd, todo) \in Doings
    BY DoingTyped DEF Doing, Ats
  <1>2. Doing(cmd, todo).cmd = cmd /\ Doing(cmd, todo).todo = todo /\ Doing(cmd, todo).at = "next"
    BY DEF Doing
  <1> QED BY <1>1, <1>2 DEF Well, Seen

LEMMA IdleWell == Well(Idle) /\ \A kept : Seen(Idle, kept)
  <1>1. <<>> \in Seq(Scope \cup DOMAIN PhaseScopes) /\ "idle" \in Doer \cup {"idle", "reset"}
    OBVIOUS
  <1>2. Idle \in Doings
    BY <1>1, DoingTyped DEF Idle, Doing, Ats
  <1>3. Idle.cmd = "idle" /\ Idle.at = "next"
    BY DEF Idle, Doing
  <1> QED BY <1>2, <1>3 DEF Well, Seen

\* The process that moves has a well formed command then, all others keep theirs.
LEMMA ProcMoves ==
  ASSUME TInv, NEW p \in Process, NEW d, Well(d), proc' = [proc EXCEPT ![p] = d]
  PROVE  /\ proc' \in [Process -> Doings] /\ \A q \in Process : Well(proc'[q])
         /\ \A q \in Process : proc'[q] = IF q = p THEN d ELSE proc[q]
  BY DEF TInv, TypeOK, Well

\* Moving on within a scope.
LEMMA GoWell ==
  ASSUME TInv, NEW p \in Process, NEW at \in Ats, proc[p].cmd \in Doer, proc[p].todo # <<>>, Go(p, at)
  PROVE  /\ proc' \in [Process -> Doings] /\ \A q \in Process : Well(proc'[q])
         /\ \A q \in Process : q # p => proc'[q] = proc[q]
         /\ proc'[p].at = at /\ proc'[p].cmd = proc[p].cmd /\ proc'[p].todo = proc[p].todo
  <1> DEFINE d == [proc[p] EXCEPT !.at = at]
  <1>1. proc[p] \in Doings /\ Well(proc[p])
    BY DEF TInv, TypeOK
  <1>2. d \in Doings /\ d.at = at /\ d.cmd = proc[p].cmd /\ d.todo = proc[p].todo
    BY <1>1, AtExcept
  <1>3. Well(d)
    BY <1>1, <1>2 DEF Well
  <1>4. proc' = [proc EXCEPT ![p] = d]
    BY DEF Go
  <1> HIDE DEF d
  <1> QED BY <1>2, <1>3, <1>4, ProcMoves

\* A marker that was read: its cursor is kept beside.
LEMMA MarkWell ==
  ASSUME TInv, NEW p \in Process, proc[p].cmd \in Doer, proc[p].todo # <<>>, NEW scope,
         proc' = [proc EXCEPT ![p] = [@ EXCEPT !.at = "mark", !.cursor = CursorOf(scope)]]
  PROVE  /\ proc' \in [Process -> Doings] /\ \A q \in Process : Well(proc'[q])
         /\ \A q \in Process : q # p => proc'[q] = proc[q]
         /\ proc'[p].at = "mark" /\ proc'[p].cmd = proc[p].cmd /\ proc'[p].todo = proc[p].todo
  <1> DEFINE d == [proc[p] EXCEPT !.at = "mark", !.cursor = CursorOf(scope)]
  <1>1. proc[p] \in Doings /\ Well(proc[p]) /\ CursorOf(scope) \in Nat \cup {NoBaseline}
    BY DEF TInv, TypeOK, CursorOf
  <1>2. d \in Doings /\ d.at = "mark" /\ d.cmd = proc[p].cmd /\ d.todo = proc[p].todo
    BY <1>1 DEF Doings
  <1>3. Well(d)
    BY <1>1, <1>2 DEF Well
  <1>4. proc' = [proc EXCEPT ![p] = d]
    OBVIOUS
  <1> HIDE DEF d
  <1> QED BY <1>2, <1>3, <1>4, ProcMoves

\* Moving to the next scope.
LEMMA NextScopeWell ==
  ASSUME TInv, NEW p \in Process, NEW failed \in BOOLEAN, proc[p].cmd \in Doer, proc[p].todo # <<>>,
         NextScope(p, failed)
  PROVE  /\ proc' \in [Process -> Doings] /\ \A q \in Process : Well(proc'[q])
         /\ \A q \in Process : q # p => proc'[q] = proc[q]
         /\ \A kept : Seen(proc'[p], kept)
  <1> DEFINE d == proc[p]
             new == [cmd |-> d.cmd, todo |-> Tail(d.todo), at |-> "next",
                     failed |-> d.failed \/ (failed /\ d.cmd = "compact"), cursor |-> NoBaseline]
  <1>1. d \in Doings /\ Well(d) /\ proc \in [Process -> Doings]
    BY DEF TInv, TypeOK
  <1>2. PICK k \in {Idle, new} :
          proc' = [proc EXCEPT ![p] = k] /\ (d.cmd = "drop" => k = Idle)
    BY <1>1 DEF NextScope
  <1>3. CASE d.cmd # "drop"
    <2>1. Tail(d.todo) \in Seq(Scope \cup DOMAIN PhaseScopes)
      BY <1>1, DoingFields
    <2>2. d.failed \/ (failed /\ d.cmd = "compact") \in BOOLEAN
      BY <1>1, DoingFields
    <2>3. new \in Doings
      BY <1>1, <2>1, <2>2, DoingFields, DoingTyped DEF Ats
    <2>4. d.cmd = "run" => Tail(d.todo) \in Seq(Source)
      BY <1>1 DEF Well
    <2>5. d.cmd \in {"validate", "compact"} => Tail(d.todo) \in Seq(Kinds)
      BY <1>1 DEF Well
    <2>6. new.cmd = d.cmd /\ new.todo = Tail(d.todo) /\ new.at = "next"
      OBVIOUS
    <2> HIDE DEF new
    <2>7. Well(new) /\ \A kept : Seen(new, kept)
      BY <1>3, <2>3, <2>4, <2>5, <2>6 DEF Well, Seen
    <2>8. Well(k) /\ \A kept : Seen(k, kept)
      BY <2>7, IdleWell
    <2> QED BY <1>2, <2>8, ProcMoves
  <1>4. CASE d.cmd = "drop"
    <2>1. k = Idle
      BY <1>2, <1>4
    <2> QED BY <1>2, <2>1, IdleWell, ProcMoves
  <1> QED BY <1>3, <1>4

-----------------------------------------------------------------------------
(* Types, one lemma per group of actions *)

StoreTyped ==
    /\ tables \subseteq V1Tables
    /\ v2 \in [Turn -> {"none", "same", "newer"}]
    /\ raw \in Nat
    /\ validated \in BOOLEAN
    /\ purged \subseteq Turn
    /\ withdrawn \subseteq Turn

MarkersTyped == marker \in [Scope -> Status] /\ baseline \in Nat \cup {NoBaseline}

CountsTyped == commands \in 0 .. MaxCommands /\ crashes \in 0 .. MaxCrashes

LEMMA TInvParts ==
  TInv <=> /\ StoreTyped /\ MarkersTyped /\ CountsTyped
           /\ proc \in [Process -> Doings] /\ \A p \in Process : Well(proc[p])
  BY DEF TInv, TypeOK, StoreTyped, MarkersTyped, CountsTyped

\* The same parts of the next state.
LEMMA Assembled ==
  ASSUME StoreTyped', MarkersTyped', CountsTyped',
         proc' \in [Process -> Doings], \A p \in Process : Well(proc'[p])
  PROVE  TInv'
  BY DEF TInv, TypeOK, StoreTyped, MarkersTyped, CountsTyped

LEMMA StoreStays ==
  ASSUME StoreTyped, UNCHANGED store
  PROVE  StoreTyped'
  BY DEF StoreTyped, store

LEMMA MarkersStay ==
  ASSUME MarkersTyped, UNCHANGED <<marker, baseline>>
  PROVE  MarkersTyped'
  BY DEF MarkersTyped

LEMMA CountsStay ==
  ASSUME CountsTyped, UNCHANGED <<commands, crashes>>
  PROVE  CountsTyped'
  BY DEF CountsTyped

LEMMA InitTyped == Init => TInv
  <1> SUFFICES ASSUME Init PROVE TInv
    OBVIOUS
  <1>1. StoreTyped
    BY DEF Init, StoreTyped
  <1>2. MarkersTyped
    BY DEF Init, MarkersTyped, Status
  <1>3. CountsTyped
    BY StorageBoundaryAssumption DEF Init, CountsTyped
  <1>4. proc \in [Process -> Doings] /\ \A p \in Process : Well(proc[p])
    BY IdleWell DEF Init, Well
  <1> QED BY <1>1, <1>2, <1>3, <1>4, TInvParts

\* A command starts with the scopes it will go through.
LEMMA StartTyped ==
  ASSUME TInv, NEW p \in Process, NEW d, Well(d), Start(p, d)
  PROVE  TInv'
  <1>1. proc' \in [Process -> Doings] /\ \A q \in Process : Well(proc'[q])
    BY ProcMoves DEF Start
  <1>2. StoreTyped' /\ MarkersTyped'
    BY TInvParts, StoreStays, MarkersStay DEF Start
  <1>3. CountsTyped'
    BY TInvParts, StorageBoundaryAssumption DEF Start, CountsTyped
  <1> QED BY <1>1, <1>2, <1>3, Assembled

\* What is started is well formed and has seen nothing yet.
LEMMA Started ==
  ASSUME NEW p \in Process, Run(p) \/ Validate(p) \/ Compact(p) \/ Reset(p)
  PROVE  \E d : Well(d) /\ (\A kept : Seen(d, kept)) /\ Start(p, d)
  <1> USE DEF Doer
  <1>1. CASE Run(p)
    <2>1. PICK todo \in {SourceOrder} \cup {<<s>> : s \in Source} : Start(p, Doing("run", todo))
      BY <1>1 DEF Run
    <2>2. todo \in Seq(Source)
      <3>1. \A s \in Source : <<s>> \in Seq(Source)
        OBVIOUS
      <3> QED BY <3>1, StorageBoundaryAssumption
    <2>3. todo \in Seq(Scope \cup DOMAIN PhaseScopes)
      BY <2>2, ScopeParts
    <2>4. Well(Doing("run", todo)) /\ \A kept : Seen(Doing("run", todo), kept)
      BY <2>2, <2>3, DoingWell
    <2> QED BY <2>1, <2>4
  <1>2. CASE Validate(p)
    <2>1. AllKinds \in Seq(Kinds)
      BY DEF AllKinds, Kinds
    <2>2. AllKinds \in Seq(Scope \cup DOMAIN PhaseScopes)
      BY <2>1, ScopeParts
    <2>3. Well(Doing("validate", AllKinds)) /\ \A kept : Seen(Doing("validate", AllKinds), kept)
      BY <2>1, <2>2, DoingWell
    <2> QED BY <1>2, <2>3 DEF Validate
  <1>3. CASE Compact(p)
    <2>1. PICK todo \in {RerunKinds, <<>>} : Start(p, Doing("compact", todo))
      BY <1>3 DEF Compact
    <2>2. todo \in Seq(Kinds)
      <3>1. RerunKinds \in Seq(Kinds) /\ <<>> \in Seq(Kinds)
        BY DEF RerunKinds, Kinds
      <3> QED BY <3>1
    <2>3. todo \in Seq(Scope \cup DOMAIN PhaseScopes)
      BY <2>2, ScopeParts
    <2>4. Well(Doing("compact", todo)) /\ \A kept : Seen(Doing("compact", todo), kept)
      BY <2>2, <2>3, DoingWell
    <2> QED BY <2>1, <2>4
  <1>4. CASE Reset(p)
    <2>1. PICK ph \in DOMAIN PhaseScopes : Start(p, Doing("reset", <<ph>>))
      BY <1>4 DEF Reset
    <2> DEFINE todo == <<ph>>
    <2>2. todo \in Seq(Scope \cup DOMAIN PhaseScopes)
      OBVIOUS
    <2> HIDE DEF todo
    <2>3. Well(Doing("reset", todo)) /\ \A kept : Seen(Doing("reset", todo), kept)
      BY <2>2, DoingWell
    <2> QED BY <2>1, <2>3 DEF todo
  <1> QED BY <1>1, <1>2, <1>3, <1>4

LEMMA DeleteTyped ==
  ASSUME TInv, NEW p \in Process, Delete(p)
  PROVE  TInv'
  <1>1. proc' \in [Process -> Doings] /\ \A q \in Process : Well(proc'[q])
    BY IdleWell, ProcMoves DEF Delete
  <1>2. MarkersTyped'
    BY TInvParts DEF Delete, MarkersTyped, Status
  <1>3. StoreTyped' /\ CountsTyped'
    BY TInvParts, StoreStays, CountsStay DEF Delete
  <1> QED BY <1>1, <1>2, <1>3, Assembled

\* The statements that only read or write markers.
LEMMA ScopeTyped ==
  ASSUME TInv, NEW p \in Process, ReadMarker(p) \/ MarkRunning(p) \/ Complete(p) \/ Abort(p)
  PROVE  TInv'
  <1> DEFINE d == proc[p]
  <1>0. d \in Doings /\ Well(d) /\ d.cmd \in Doer /\ MarkersTyped
    BY TInvParts DEF ReadMarker, MarkRunning, Complete, Abort, At
  <1>1. StoreTyped' /\ CountsTyped'
    BY TInvParts, StoreStays, CountsStay DEF ReadMarker, MarkRunning, Complete, Abort
  <1>2. d.todo # <<>>
    BY <1>0 DEF ReadMarker, MarkRunning, Complete, Abort, At, Well
  <1>3. Now(p) \in Scope
    BY <1>0, <1>2, NowIs DEF Now
  <1>4. \A st \in Status : SetMarker(Now(p), st) => marker' \in [Scope -> Status]
    BY <1>0, <1>3 DEF SetMarker, MarkersTyped
  <1>5. CASE ReadMarker(p)
    <2>1. \/ \E at \in Ats : Go(p, at)
          \/ \E failed \in BOOLEAN : NextScope(p, failed)
          \/ proc' = [proc EXCEPT ![p] = [@ EXCEPT !.at = "mark", !.cursor = CursorOf(Now(p))]]
      BY <1>5 DEF ReadMarker, Ats
    <2>2. proc' \in [Process -> Doings] /\ \A q \in Process : Well(proc'[q])
      BY <1>0, <1>2, <2>1, GoWell, NextScopeWell, MarkWell
    <2>3. MarkersTyped'
      BY <1>0, <1>5, MarkersStay DEF ReadMarker
    <2> QED BY <1>1, <2>2, <2>3, Assembled
  <1>6. CASE MarkRunning(p)
    <2>1. Go(p, "work") /\ "work" \in Ats
      BY <1>6 DEF MarkRunning, Ats
    <2>2. proc' \in [Process -> Doings] /\ \A q \in Process : Well(proc'[q])
      BY <1>0, <1>2, <2>1, GoWell
    <2>3. d.cursor \in Nat \cup {NoBaseline}
      BY <1>0, DoingFields
    <2>4. MarkersTyped'
      BY <1>0, <1>4, <1>6, <2>3 DEF MarkRunning, WriteCursor, MarkersTyped, Status
    <2> QED BY <1>1, <2>2, <2>4, Assembled
  <1>7. CASE Complete(p)
    <2>1. proc' \in [Process -> Doings] /\ \A q \in Process : Well(proc'[q])
      BY <1>0, <1>2, <1>7, NextScopeWell DEF Complete
    <2>2. d.cursor \in Nat \cup {NoBaseline}
      BY <1>0, DoingFields
    <2>3. MarkersTyped'
      BY <1>0, <1>4, <1>7, <2>2 DEF Complete, WriteCursor, MarkersTyped, Status
    <2> QED BY <1>1, <2>1, <2>3, Assembled
  <1>8. CASE Abort(p)
    <2>1. proc' \in [Process -> Doings] /\ \A q \in Process : Well(proc'[q])
      BY <1>0, <1>2, <1>8, NextScopeWell DEF Abort
    <2>2. MarkersTyped'
      BY <1>0, <1>4, <1>8 DEF Abort, MarkersTyped, Status
    <2> QED BY <1>1, <2>1, <2>2, Assembled
  <1> QED BY <1>5, <1>6, <1>7, <1>8

LEMMA BackfillTyped ==
  ASSUME TInv, NEW p \in Process, Backfill(p)
  PROVE  TInv'
  <1>0. Well(proc[p]) /\ proc[p].cmd \in Doer
    BY TInvParts DEF Backfill, At, Doer
  <1>1. proc[p].todo # <<>>
    BY <1>0 DEF Backfill, At, Well
  <1>2. PICK at \in {"complete", "abort"} : Go(p, at)
    BY DEF Backfill
  <1>3. proc' \in [Process -> Doings] /\ \A q \in Process : Well(proc'[q])
    BY <1>0, <1>1, <1>2, GoWell DEF Ats
  <1>4. v2' \in [Turn -> {"none", "same", "newer"}] /\ withdrawn' \subseteq Turn
    BY TInvParts DEF Backfill, StoreTyped
  <1>5. StoreTyped'
    BY <1>4, TInvParts DEF Backfill, StoreTyped
  <1>6. MarkersTyped' /\ CountsTyped'
    BY TInvParts, MarkersStay, CountsStay DEF Backfill
  <1> QED BY <1>3, <1>5, <1>6, Assembled

\* A validator leaves its result in what its process does next.
LEMMA CheckMoves ==
  ASSUME TInv, NEW p \in Process, Check(p)
  PROVE  \E d : /\ Well(d) /\ proc' = [proc EXCEPT ![p] = d]
                /\ d.cmd = proc[p].cmd /\ d.todo = proc[p].todo /\ d.cmd \in {"validate", "compact"}
                /\ (d.at = "complete" /\ Head(d.todo) = "inventory") => InventoryPasses
  <1> DEFINE d0 == proc[p]
  <1>0. d0 \in Doings /\ Well(d0) /\ proc \in [Process -> Doings]
    BY TInvParts
  <1>1. d0.cmd \in {"validate", "compact"} /\ d0.at = "work" /\ d0.todo # <<>>
    BY <1>0 DEF Check, At, Well
  <1>2. PICK passes \in BOOLEAN, cursor \in {NoBaseline, Capture, baseline} :
          /\ Now(p) # "bundle" => passes = Passes(Now(p))
          /\ proc' = [proc EXCEPT ![p] =
                [cmd |-> d0.cmd, todo |-> d0.todo, failed |-> d0.failed,
                 at |-> IF passes THEN "complete" ELSE "abort", cursor |-> cursor]]
    BY <1>0 DEF Check
  <1> DEFINE at == IF passes THEN "complete" ELSE "abort"
             d == [cmd |-> d0.cmd, todo |-> d0.todo, at |-> at, failed |-> d0.failed, cursor |-> cursor]
  <1>3. at \in Ats /\ cursor \in Nat \cup {NoBaseline}
    BY TInvParts DEF Ats, Capture, StoreTyped, MarkersTyped
  <1>4. d \in Doings
    <2> HIDE DEF at
    <2> QED BY <1>0, <1>3, DoingFields, DoingTyped
  <1>5. d.cmd = d0.cmd /\ d.todo = d0.todo /\ d.at = at
    OBVIOUS
  <1>6. proc' = [proc EXCEPT ![p] = d]
    BY <1>2
  <1>7. (at = "complete" /\ Head(d0.todo) = "inventory") => InventoryPasses
    BY <1>2 DEF Passes, Now
  <1> HIDE DEF d
  <1>8. Well(d)
    BY <1>0, <1>1, <1>4, <1>5 DEF Well, Doer
  <1> QED BY <1>1, <1>5, <1>6, <1>7, <1>8

LEMMA CheckTyped ==
  ASSUME TInv, NEW p \in Process, Check(p)
  PROVE  TInv'
  <1>1. proc' \in [Process -> Doings] /\ \A q \in Process : Well(proc'[q])
    BY CheckMoves, ProcMoves
  <1>2. StoreTyped' /\ MarkersTyped' /\ CountsTyped'
    BY TInvParts, StoreStays, MarkersStay, CountsStay DEF Check
  <1> QED BY <1>1, <1>2, Assembled

\* A compact drops, or it ends.
LEMMA RecheckMoves ==
  ASSUME NEW p \in Process, Recheck(p)
  PROVE  \E d \in {Idle, Doing("drop", <<"compact">>)} :
            /\ Well(d) /\ proc' = [proc EXCEPT ![p] = d]
            /\ d # Idle => tables = {} \/ ValidatorsCompleted
  <1>1. Well(Idle)
    BY IdleWell
  <1>2. <<"compact">> \in Seq(Scope \cup DOMAIN PhaseScopes)
    BY ScopeParts
  <1>3. Well(Doing("drop", <<"compact">>))
    BY <1>2, DoingWell DEF Doer
  <1> QED BY <1>1, <1>3 DEF Recheck

LEMMA DropTyped ==
  ASSUME TInv, NEW p \in Process, Recheck(p) \/ DropTable(p)
  PROVE  TInv'
  <1>1. CASE Recheck(p)
    <2>1. proc' \in [Process -> Doings] /\ \A q \in Process : Well(proc'[q])
      BY <1>1, RecheckMoves, ProcMoves
    <2>2. StoreTyped' /\ MarkersTyped' /\ CountsTyped'
      BY <1>1, TInvParts, StoreStays, MarkersStay, CountsStay DEF Recheck
    <2> QED BY <2>1, <2>2, Assembled
  <1>2. CASE DropTable(p)
    <2>0. Well(proc[p]) /\ proc[p].cmd \in Doer
      BY <1>2, TInvParts DEF DropTable, At, Doer
    <2>1. proc[p].todo # <<>>
      BY <1>2, <2>0 DEF DropTable, At, Well
    <2>2. PICK at \in {"work2", "complete"} : Go(p, at)
      BY <1>2 DEF DropTable
    <2>3. proc' \in [Process -> Doings] /\ \A q \in Process : Well(proc'[q])
      BY <2>0, <2>1, <2>2, GoWell DEF Ats
    <2>4. StoreTyped'
      BY <1>2, TInvParts DEF DropTable, StoreTyped
    <2>5. MarkersTyped' /\ CountsTyped'
      BY <1>2, TInvParts, MarkersStay, CountsStay DEF DropTable
    <2> QED BY <2>3, <2>4, <2>5, Assembled
  <1> QED BY <1>1, <1>2

LEMMA CrashTyped ==
  ASSUME TInv, NEW p \in Process, Crash(p)
  PROVE  TInv'
  <1>1. proc' \in [Process -> Doings] /\ \A q \in Process : Well(proc'[q])
    BY IdleWell, ProcMoves DEF Crash
  <1>2. CountsTyped'
    BY TInvParts, StorageBoundaryAssumption DEF Crash, CountsTyped
  <1>3. StoreTyped' /\ MarkersTyped'
    BY TInvParts, StoreStays, MarkersStay DEF Crash
  <1> QED BY <1>1, <1>2, <1>3, Assembled

LEMMA WritersTyped ==
  ASSUME TInv, Read \/ (\E s \in Source : Sync(s)) \/ (\E t \in Turn : Purge(t))
  PROVE  TInv'
  <1>1. UNCHANGED <<marker, baseline, proc, commands, crashes>>
    BY DEF Read, Sync, Purge
  <1>2. StoreTyped'
    <2>1. CASE Read
      BY <2>1, TInvParts DEF Read, Handoff, StoreTyped
    <2>2. ASSUME NEW s \in Source, Sync(s) PROVE StoreTyped'
      BY <2>2, TInvParts DEF Sync, Handoff, StoreTyped, TurnsOf, InV2
    <2>3. ASSUME NEW t \in Turn, Purge(t) PROVE StoreTyped'
      BY <2>3, TInvParts DEF Purge, Handoff, StoreTyped
    <2> QED BY <2>1, <2>2, <2>3
  <1>3. MarkersTyped' /\ CountsTyped'
    BY <1>1, TInvParts, MarkersStay, CountsStay
  <1> QED BY <1>1, <1>2, <1>3, TInvParts, Assembled

LEMMA Typed == TInv /\ [Next]_vars => TInv'
  <1> SUFFICES ASSUME TInv, [Next]_vars PROVE TInv'
    OBVIOUS
  <1>1. CASE UNCHANGED vars
    BY <1>1, TInvParts, StoreStays, MarkersStay, CountsStay, Assembled DEF vars
  <1>2. ASSUME NEW p \in Process,
               Run(p) \/ Validate(p) \/ Compact(p) \/ Reset(p)
        PROVE  TInv'
    BY <1>2, Started, StartTyped
  <1>3. ASSUME NEW p \in Process, Step(p) \/ Crash(p)
        PROVE  TInv'
    BY <1>3, ScopeTyped, BackfillTyped, CheckTyped, DropTyped, DeleteTyped, CrashTyped DEF Step
  <1>4. CASE Read \/ (\E s \in Source : Sync(s)) \/ (\E t \in Turn : Purge(t))
    BY <1>4, WritersTyped
  <1> QED BY <1>1, <1>2, <1>3, <1>4 DEF Next

\* Every reachable state is well typed, for any processes, sources and turns.
THEOREM TypeCorrect == Spec => []TypeOK
  <1>1. TInv => TypeOK
    BY DEF TInv
  <1> QED BY <1>1, InitTyped, Typed, PTL DEF Spec

-----------------------------------------------------------------------------
(* The turns of V1 are kept *)

\* More kept turns, and the same command.
LEMMA SeenKept ==
  ASSUME NEW d, NEW kept, NEW kept2, Seen(d, kept), V1Turns \cap kept \subseteq kept2
  PROVE  Seen(d, kept2)
  BY DEF Seen

\* A command that is about to complete or to drop nothing has seen enough.
LEMMA SeenNothing ==
  ASSUME NEW d, NEW kept, d.cmd # "drop", d.at # "complete"
  PROVE  Seen(d, kept)
  BY DEF Seen

LEMMA InitKept == Init => KInv
  <1> SUFFICES ASSUME Init PROVE KInv
    OBVIOUS
  <1>1. TInv /\ purged = {} /\ validated = FALSE /\ "user_turns" \in tables
    BY InitTyped DEF Init, V1Tables
  <1>2. \A p \in Process : Seen(proc[p], Kept)
    BY IdleWell DEF Init
  <1>3. \A s \in Source : marker[s] # "completed"
    BY ScopeParts DEF Init
  <1>4. marker["inventory"] = "completed" => V1Turns \subseteq Kept
    BY ScopeParts DEF Init, Kept
  <1> QED BY <1>1, <1>2, <1>3, <1>4
          DEF KInv, DroppedTurnsAreKept, HandoffKeepsTurns, BackfilledSourcesAreComplete

\* Steps that change markers and commands only.
LEMMA MarkerSteps ==
  ASSUME KInv, TInv', UNCHANGED store,
         marker'["inventory"] = "completed" => V1Turns \subseteq Kept,
         \A s \in Source : marker'[s] = "completed" => V1Turns \cap TurnsOf(s) \subseteq Kept,
         \A p \in Process : Seen(proc'[p], Kept)
  PROVE  KInv'
  <1>1. Kept' = Kept /\ UNCHANGED <<tables, v2, validated, purged, withdrawn>>
    BY DEF Kept, InV2, store
  <1>2. DroppedTurnsAreKept' /\ HandoffKeepsTurns' /\ (V1Turns \cap purged \subseteq Kept)'
    BY <1>1 DEF KInv, DroppedTurnsAreKept, HandoffKeepsTurns, InV2
  <1>3. BackfilledSourcesAreComplete'
    BY <1>1 DEF BackfilledSourcesAreComplete, Kept, InV2, TurnsOf
  <1> QED BY <1>1, <1>2, <1>3 DEF KInv

\* Steps that change turns and tables, and no marker.
LEMMA StoreSteps ==
  ASSUME KInv, TInv', UNCHANGED marker,
         V1Turns \cap Kept \subseteq Kept', V1Turns \cap purged' \subseteq Kept',
         "user_turns" \notin tables' => V1Turns \subseteq Kept,
         validated' => V1Turns \subseteq Kept,
         \A p \in Process : Seen(proc'[p], Kept')
  PROVE  KInv'
  <1>1. DroppedTurnsAreKept' /\ HandoffKeepsTurns'
    BY DEF DroppedTurnsAreKept, HandoffKeepsTurns, Kept
  <1>2. BackfilledSourcesAreComplete'
    <2> SUFFICES ASSUME NEW s \in Source, marker[s] = "completed"
                 PROVE  V1Turns \cap TurnsOf(s) \subseteq Kept'
      BY DEF BackfilledSourcesAreComplete, Kept, TurnsOf
    <2>1. V1Turns \cap TurnsOf(s) \subseteq Kept
      BY DEF KInv, BackfilledSourcesAreComplete, Kept
    <2> QED BY <2>1
  <1>3. marker'["inventory"] = "completed" => V1Turns \subseteq Kept'
    BY DEF KInv
  <1> QED BY <1>1, <1>2, <1>3 DEF KInv

\* What the handoff sees is enough to go by V2 alone from then on.
LEMMA HandoffSound ==
  ASSUME KInv, HandoffComplete
  PROVE  V1Turns \subseteq Kept
  <1>1. CASE "user_turns" \notin tables
    BY <1>1 DEF KInv, DroppedTurnsAreKept, Kept
  <1>2. CASE validated
    BY <1>2 DEF KInv, HandoffKeepsTurns, Kept
  <1>3. CASE \A t \in V1Turns \ purged : v2[t] = "same"
    <2>1. V1Turns \ purged \subseteq InV2
      BY <1>3, StorageBoundaryAssumption DEF InV2
    <2>2. V1Turns \cap purged \subseteq Kept
      BY DEF KInv
    <2> QED BY <2>1, <2>2 DEF Kept
  <1> QED BY <1>1, <1>2, <1>3 DEF HandoffComplete

\* So is what the inventory validator sees, and a completed inventory marker.
LEMMA InventorySound ==
  ASSUME KInv, InventoryPasses
  PROVE  V1Turns \subseteq Kept
  <1>1. CASE "user_turns" \in tables
    BY <1>1 DEF InventoryPasses, InV1, V1Tables, Kept
  <1>2. CASE "user_turns" \notin tables
    BY <1>2 DEF KInv, DroppedTurnsAreKept, Kept
  <1> QED BY <1>1, <1>2

LEMMA StartKept ==
  ASSUME KInv, NEW p \in Process, NEW d, Well(d), \A kept : Seen(d, kept), Start(p, d)
  PROVE  KInv'
  <1>1. TInv'
    BY StartTyped DEF KInv
  <1>2. \A q \in Process : proc'[q] = IF q = p THEN d ELSE proc[q]
    BY ProcMoves DEF Start, KInv
  <1>3. \A q \in Process : Seen(proc'[q], Kept)
    BY <1>2 DEF KInv
  <1>4. UNCHANGED <<store, marker>>
    BY DEF Start
  <1> QED BY <1>1, <1>3, <1>4, MarkerSteps DEF KInv, BackfilledSourcesAreComplete, Kept

LEMMA DeleteKept ==
  ASSUME KInv, NEW p \in Process, Delete(p)
  PROVE  KInv'
  <1>1. TInv'
    BY DeleteTyped DEF KInv
  <1>2. \A q \in Process : proc'[q] = IF q = p THEN Idle ELSE proc[q]
    BY IdleWell, ProcMoves DEF Delete, KInv
  <1>3. \A q \in Process : Seen(proc'[q], Kept)
    BY <1>2, IdleWell DEF KInv
  <1>4. UNCHANGED store
    BY DEF Delete
  <1>5. \A s \in Scope : marker'[s] = "completed" => marker[s] = "completed"
    BY DEF Delete
  <1> QED BY <1>1, <1>3, <1>4, <1>5, MarkerSteps, ScopeParts
          DEF KInv, BackfilledSourcesAreComplete, Kept

LEMMA ScopeKept ==
  ASSUME KInv, NEW p \in Process, ReadMarker(p) \/ MarkRunning(p) \/ Complete(p) \/ Abort(p)
  PROVE  KInv'
  <1> DEFINE d == proc[p]
  <1>0. TInv /\ TInv' /\ d \in Doings /\ Well(d) /\ d.cmd \in Doer /\ UNCHANGED store
    BY TInvParts, ScopeTyped DEF KInv, ReadMarker, MarkRunning, Complete, Abort, At
  <1>1. d.todo # <<>>
    BY <1>0 DEF ReadMarker, MarkRunning, Complete, Abort, At, Well
  <1>2. /\ d.cmd = "run" => Now(p) \in Source
        /\ d.cmd \in {"validate", "compact"} => Now(p) \in Kinds
        /\ d.cmd = "drop" => Now(p) = "compact"
        /\ Now(p) \in Scope
    BY <1>0, <1>1, NowIs DEF Now
  <1>3. \A q \in Process : Seen(proc'[q], Kept)
    <2>0. \A q \in Process : Seen(proc[q], Kept)
      BY DEF KInv
    <2>1. ASSUME NEW at \in {"mark", "work", "abort"}, Go(p, at)
          PROVE  \A q \in Process : Seen(proc'[q], Kept)
      <3>1. /\ \A q \in Process : q # p => proc'[q] = proc[q]
            /\ proc'[p].at = at /\ proc'[p].cmd = d.cmd /\ proc'[p].todo = d.todo
        BY <1>0, <1>1, <2>1, GoWell DEF Ats
      <3>2. Seen(proc'[p], Kept)
        BY <2>0, <3>1 DEF Seen
      <3> QED BY <2>0, <3>1, <3>2
    <2>2. ASSUME NEW failed \in BOOLEAN, NextScope(p, failed)
          PROVE  \A q \in Process : Seen(proc'[q], Kept)
      <3>1. (\A q \in Process : q # p => proc'[q] = proc[q]) /\ Seen(proc'[p], Kept)
        BY <1>0, <1>1, <2>2, NextScopeWell
      <3> QED BY <2>0, <3>1
    <2>3. ASSUME NEW scope,
                 proc' = [proc EXCEPT ![p] = [@ EXCEPT !.at = "mark", !.cursor = CursorOf(scope)]]
          PROVE  \A q \in Process : Seen(proc'[q], Kept)
      <3>1. /\ \A q \in Process : q # p => proc'[q] = proc[q]
            /\ proc'[p].at = "mark" /\ proc'[p].cmd = d.cmd /\ proc'[p].todo = d.todo
        BY <1>0, <1>1, <2>3, MarkWell
      <3>2. Seen(proc'[p], Kept)
        BY <2>0, <3>1 DEF Seen
      <3> QED BY <2>0, <3>1, <3>2
    <2> QED BY <2>1, <2>2, <2>3 DEF ReadMarker, MarkRunning, Complete, Abort
  <1>4. \A s \in Scope : marker'[s] = "completed" =>
            \/ marker[s] = "completed"
            \/ s = Now(p) /\ Complete(p)
    BY <1>0, <1>2 DEF ReadMarker, MarkRunning, Complete, Abort, SetMarker, TInv, TypeOK
  <1>5. ASSUME Complete(p)
        PROVE  /\ Now(p) = "inventory" => V1Turns \subseteq Kept
               /\ Now(p) \in Source => V1Turns \cap TurnsOf(Now(p)) \subseteq Kept
    <2>1. d.at = "complete" /\ Seen(d, Kept)
      BY <1>5 DEF Complete, At, KInv
    <2>2. Now(p) = "inventory" => d.cmd \in {"validate", "compact"}
      BY <1>0, <1>2, ScopeParts DEF Doer
    <2>3. Now(p) \in Source => d.cmd = "run"
      BY <1>0, <1>2, ScopeParts DEF Doer
    <2> QED BY <2>1, <2>2, <2>3 DEF Seen, Now
  <1>6. marker'["inventory"] = "completed" => V1Turns \subseteq Kept
    BY <1>4, <1>5, ScopeParts DEF KInv
  <1>7. \A s \in Source : marker'[s] = "completed" => V1Turns \cap TurnsOf(s) \subseteq Kept
    BY <1>4, <1>5, ScopeParts DEF KInv, BackfilledSourcesAreComplete, Kept
  <1> QED BY <1>0, <1>3, <1>6, <1>7, MarkerSteps

LEMMA BackfillKept ==
  ASSUME KInv, NEW p \in Process, Backfill(p)
  PROVE  KInv'
  <1> DEFINE d == proc[p]
  <1>0. TInv /\ TInv' /\ Well(d) /\ d.cmd = "run" /\ "run" \in Doer
    BY TInvParts, BackfillTyped DEF KInv, Backfill, At, Doer
  <1>1. d.todo # <<>>
    BY <1>0 DEF Backfill, At, Well
  <1>2. Now(p) \in Source
    BY <1>0, <1>1, NowIs DEF Now
  <1>3. UNCHANGED <<tables, raw, validated, purged, marker>>
    BY DEF Backfill
  <1>4. v2 \in [Turn -> {"none", "same", "newer"}]
    BY <1>0 DEF TInv, TypeOK
  <1>5. CASE Go(p, "abort") /\ UNCHANGED <<v2, withdrawn>>
    <2>1. Kept' = Kept
      BY <1>5 DEF Kept, InV2
    <2>2. /\ \A q \in Process : q # p => proc'[q] = proc[q]
          /\ proc'[p].at = "abort" /\ proc'[p].cmd = d.cmd
      BY <1>0, <1>1, <1>5, GoWell DEF Ats
    <2>3. \A q \in Process : Seen(proc'[q], Kept')
      BY <1>0, <2>1, <2>2 DEF KInv, Seen
    <2> QED BY <1>0, <1>3, <2>1, <2>3, StoreSteps
            DEF KInv, DroppedTurnsAreKept, HandoffKeepsTurns, Kept
  <1>6. CASE ~(Go(p, "abort") /\ UNCHANGED <<v2, withdrawn>>)
    <2>1. /\ v2' = [t \in Turn |-> IF SourceOf[t] # Now(p) THEN v2[t]
                                  ELSE IF t \in V1Turns THEN "same" ELSE "none"]
          /\ withdrawn' = withdrawn \ (V1Turns \cap TurnsOf(Now(p)))
          /\ Go(p, "complete")
      BY <1>6 DEF Backfill
    <2>2. V1Turns \cap TurnsOf(Now(p)) \subseteq Kept'
      BY <2>1, StorageBoundaryAssumption DEF Kept, InV2, TurnsOf
    <2>3. V1Turns \cap Kept \subseteq Kept'
      BY <2>1, <2>2, StorageBoundaryAssumption DEF Kept, InV2, TurnsOf
    <2>4. /\ \A q \in Process : q # p => proc'[q] = proc[q]
          /\ proc'[p].cmd = d.cmd /\ proc'[p].todo = d.todo
      BY <1>0, <1>1, <2>1, GoWell DEF Ats
    <2>5. Seen(proc'[p], Kept')
      BY <1>0, <2>2, <2>4 DEF Seen, Now
    <2>6. \A q \in Process : Seen(proc'[q], Kept')
      BY <2>3, <2>4, <2>5, SeenKept DEF KInv
    <2>7. V1Turns \cap purged' \subseteq Kept'
      BY <1>3, <2>3 DEF KInv
    <2> QED BY <1>0, <1>3, <2>3, <2>6, <2>7, StoreSteps
            DEF KInv, DroppedTurnsAreKept, HandoffKeepsTurns, Kept
  <1> QED BY <1>5, <1>6

LEMMA CheckKept ==
  ASSUME KInv, NEW p \in Process, Check(p)
  PROVE  KInv'
  <1>0. TInv /\ TInv'
    BY CheckTyped DEF KInv
  <1>1. PICK d : /\ Well(d) /\ proc' = [proc EXCEPT ![p] = d]
                 /\ d.cmd \in {"validate", "compact"}
                 /\ (d.at = "complete" /\ Head(d.todo) = "inventory") => InventoryPasses
    BY <1>0, CheckMoves
  <1>2. Seen(d, Kept)
    BY <1>1, InventorySound DEF Seen
  <1>3. \A q \in Process : proc'[q] = IF q = p THEN d ELSE proc[q]
    BY <1>0, <1>1, ProcMoves
  <1>4. \A q \in Process : Seen(proc'[q], Kept)
    BY <1>2, <1>3 DEF KInv
  <1>5. UNCHANGED <<store, marker>>
    BY DEF Check
  <1> QED BY <1>0, <1>4, <1>5, MarkerSteps DEF KInv, BackfilledSourcesAreComplete, Kept

LEMMA DropKept ==
  ASSUME KInv, NEW p \in Process, Recheck(p) \/ DropTable(p)
  PROVE  KInv'
  <1>0. TInv /\ TInv'
    BY DropTyped DEF KInv
  <1>1. CASE Recheck(p)
    <2>1. PICK d \in {Idle, Doing("drop", <<"compact">>)} :
            /\ Well(d) /\ proc' = [proc EXCEPT ![p] = d]
            /\ d # Idle => tables = {} \/ ValidatorsCompleted
      BY <1>1, RecheckMoves
    <2>2. tables = {} \/ ValidatorsCompleted => V1Turns \subseteq Kept
      BY ScopeParts DEF KInv, DroppedTurnsAreKept, ValidatorsCompleted, Kept
    <2>3. Doing("drop", <<"compact">>).cmd = "drop" /\ Doing("drop", <<"compact">>).at = "next"
      BY DEF Doing
    <2>4. Seen(d, Kept)
      BY <2>1, <2>2, <2>3, IdleWell DEF Seen
    <2>5. \A q \in Process : proc'[q] = IF q = p THEN d ELSE proc[q]
      BY <1>0, <2>1, ProcMoves
    <2>6. \A q \in Process : Seen(proc'[q], Kept)
      BY <2>4, <2>5 DEF KInv
    <2>7. UNCHANGED <<store, marker>>
      BY <1>1 DEF Recheck
    <2> QED BY <1>0, <2>6, <2>7, MarkerSteps DEF KInv, BackfilledSourcesAreComplete, Kept
  <1>2. CASE DropTable(p)
    <2>0. Well(proc[p]) /\ proc[p].cmd = "drop" /\ proc[p].at # "next"
      BY <1>0, <1>2 DEF TInv, DropTable, At
    <2>1. proc[p].todo # <<>> /\ proc[p].cmd \in Doer
      BY <2>0 DEF Well
    <2>2. V1Turns \subseteq Kept
      BY <2>0 DEF KInv, Seen
    <2>3. PICK at \in {"work2", "complete"} : Go(p, at)
      BY <1>2 DEF DropTable
    <2>4. /\ \A q \in Process : q # p => proc'[q] = proc[q]
          /\ proc'[p].cmd = "drop"
      BY <1>0, <2>0, <2>1, <2>3, GoWell DEF Ats
    <2>5. Kept' = Kept /\ UNCHANGED <<validated, purged, marker>>
      BY <1>2 DEF DropTable, Kept, InV2
    <2>6. \A q \in Process : Seen(proc'[q], Kept')
      BY <2>2, <2>4, <2>5 DEF KInv, Seen
    <2> QED BY <1>0, <2>2, <2>5, <2>6, StoreSteps DEF KInv
  <1> QED BY <1>1, <1>2

LEMMA CrashKept ==
  ASSUME KInv, NEW p \in Process, Crash(p)
  PROVE  KInv'
  <1>1. TInv'
    BY CrashTyped DEF KInv
  <1>2. \A q \in Process : proc'[q] = IF q = p THEN Idle ELSE proc[q]
    BY IdleWell, ProcMoves DEF Crash, KInv
  <1>3. \A q \in Process : Seen(proc'[q], Kept)
    BY <1>2, IdleWell DEF KInv
  <1>4. UNCHANGED <<store, marker>>
    BY DEF Crash
  <1> QED BY <1>1, <1>3, <1>4, MarkerSteps DEF KInv, BackfilledSourcesAreComplete, Kept

LEMMA WritersKept ==
  ASSUME KInv, Read \/ (\E s \in Source : Sync(s)) \/ (\E t \in Turn : Purge(t))
  PROVE  KInv'
  <1>0. TInv /\ TInv' /\ v2 \in [Turn -> {"none", "same", "newer"}]
    BY WritersTyped DEF KInv, TInv, TypeOK
  <1>1. V1Turns \subseteq Kept
    BY HandoffSound DEF Read, Sync, Purge
  <1>2. UNCHANGED <<marker, proc, tables>>
    BY DEF Read, Sync, Purge
  <1>3. V1Turns \subseteq Kept'
    <2>1. CASE Read
      BY <1>1, <2>1 DEF Read, Kept, InV2
    <2>2. ASSUME NEW s \in Source, Sync(s) PROVE V1Turns \subseteq Kept'
      <3>1. PICK new \in SUBSET TurnsOf(s), lost \in SUBSET TurnsOf(s) :
              /\ v2' = [t \in Turn |-> IF t \in new THEN "newer" ELSE IF t \in lost THEN "none" ELSE v2[t]]
              /\ withdrawn' = (withdrawn \cup lost) \ new
        BY <2>2 DEF Sync
      <3> QED BY <1>0, <1>1, <3>1, StorageBoundaryAssumption DEF Kept, InV2
    <2>3. ASSUME NEW t \in Turn, Purge(t) PROVE V1Turns \subseteq Kept'
      BY <1>0, <1>1, <2>3 DEF Purge, Kept, InV2
    <2> QED BY <2>1, <2>2, <2>3
  <1>4. \A q \in Process : Seen(proc'[q], Kept')
    BY <1>2, <1>3, SeenKept DEF KInv
  <1> QED BY <1>0, <1>1, <1>2, <1>3, <1>4, StoreSteps

LEMMA KeptSteps == KInv /\ [Next]_vars => KInv'
  <1> SUFFICES ASSUME KInv, [Next]_vars PROVE KInv'
    OBVIOUS
  <1>1. CASE UNCHANGED vars
    <2>1. UNCHANGED <<store, marker, proc>>
      BY <1>1 DEF vars
    <2>2. TInv'
      BY Typed DEF KInv
    <2> QED BY <2>1, <2>2, MarkerSteps DEF KInv, BackfilledSourcesAreComplete, Kept
  <1>2. ASSUME NEW p \in Process,
               Run(p) \/ Validate(p) \/ Compact(p) \/ Reset(p)
        PROVE  KInv'
    BY <1>2, Started, StartKept
  <1>3. ASSUME NEW p \in Process, Step(p) \/ Crash(p)
        PROVE  KInv'
    BY <1>3, ScopeKept, BackfillKept, CheckKept, DropKept, DeleteKept, CrashKept DEF Step
  <1>4. CASE Read \/ (\E s \in Source : Sync(s)) \/ (\E t \in Turn : Purge(t))
    BY <1>4, WritersKept
  <1> QED BY <1>1, <1>2, <1>3, <1>4 DEF Next

\* No compact drops a turn that V2 does not have and nobody took out.
THEOREM NoTurnIsDropped == Spec => []DroppedTurnsAreKept
  <1>1. KInv => DroppedTurnsAreKept
    BY DEF KInv
  <1> QED BY <1>1, InitKept, KeptSteps, PTL DEF Spec

\* A completed write marker means that the turns of its source are in V2, even
\* though two processes may backfill one source and markers are written unread.
THEOREM CompletedBackfillsAreTrue == Spec => []BackfilledSourcesAreComplete
  <1>1. KInv => BackfilledSourcesAreComplete
    BY DEF KInv
  <1> QED BY <1>1, InitKept, KeptSteps, PTL DEF Spec

\* Once the handoff was seen complete it stays sound.
THEOREM HandoffsAreFinal == Spec => []HandoffKeepsTurns
  <1>1. KInv => HandoffKeepsTurns
    BY DEF KInv
  <1> QED BY <1>1, InitKept, KeptSteps, PTL DEF Spec
=============================================================================
