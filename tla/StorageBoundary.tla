-------------------------- MODULE StorageBoundary --------------------------
(***************************************************************************)
(* The migration of turns from the V1 tables (user_turns, turn_contexts)   *)
(* to the V2 ones (user_turns_v2, turn_context_refs_v2), as the commands   *)
(* of cchistory migration carry it out: run backfills V2 source by source, *)
(* validate compares both sides, compact drops the V1 tables, reset clears *)
(* the markers that each of them keeps in migration_state.  Commands run   *)
(* in processes of their own, next to syncs and purges, which write V2     *)
(* only; a process may die between any two statements.                     *)
(*                                                                         *)
(* A turn and its context go together.  In V2 a turn is as V1 has it or    *)
(* newer.  The other V1 payload tables (captured_blobs, raw_records, ...)  *)
(* are one version number, which a sync advances.                          *)
(***************************************************************************)
EXTENDS Naturals, Sequences, FiniteSets

CONSTANTS
    Process,     \* processes that run migration commands
    Source,      \* registered sources
    Turn,        \* turns
    SourceOf,    \* [Turn -> Source]
    V1Turns,     \* turns the V1 tables hold; nothing writes them any more
    SourceOrder, \* the sources in the order listSources gives
    NoBaseline,  \* the digest validator's marker has no usable cursor
    MaxCommands, \* bound on commands
    MaxCrashes,  \* bound on processes that die
    MaxWrites    \* bound on syncs and purges

Kinds == {"bundle", "inventory", "read-paths", "v1-payload-digest"}
V1Tables == {"user_turns", "turn_contexts"}
Scope == Source \cup Kinds \cup {"compact"}
Status == {"absent", "running", "completed", "aborted"}

ASSUME StorageBoundaryAssumption ==
    /\ SourceOf \in [Turn -> Source]
    /\ V1Turns \subseteq Turn
    /\ SourceOrder \in Seq(Source) /\ SourceOrder # <<>>
    /\ Source \cap (Kinds \cup {"compact"}) = {}
    /\ MaxCommands \in Nat
    /\ MaxCrashes \in Nat
    /\ MaxWrites \in Nat

VARIABLES
    tables,    \* the V1 turn tables the database has
    v2,        \* v2[t]: "none", "same" as V1, or "newer"
    raw,       \* version of the other V1 payload tables
    validated, \* validated_legacy_generation = legacy_generation
    purged,    \* turns with a tombstone
    withdrawn, \* turns a sync or a purge took out of V2 since they last got there
    marker,    \* migration_state.status of a scope
    baseline,  \* cursor_json of the digest validator: what it compares with
    proc,      \* the command a process runs
    commands, crashes

store == <<tables, v2, raw, validated, purged, withdrawn>>
vars == <<store, marker, baseline, proc, commands, crashes>>

TurnsOf(s) == {t \in Turn : SourceOf[t] = s}
InV2 == {t \in Turn : v2[t] # "none"}
InV1(table) == IF table \in tables THEN V1Turns ELSE {}

PhaseScopes == [write |-> Source, validate |-> Kinds, compact |-> {"compact"}, all |-> Scope]

\* todo: scopes still to do; at: the next statement; failed: compact has
\* seen a validator fail; cursor: what the digest validator will write into its
\* marker, first as it has read it there.
Doing(cmd, todo) ==
    [cmd |-> cmd, todo |-> todo, at |-> "next", failed |-> FALSE, cursor |-> NoBaseline]
Idle == Doing("idle", <<>>)
Doer == {"run", "validate", "compact", "drop"}
Doings ==
    [cmd : Doer \cup {"idle", "reset"}, todo : Seq(Scope \cup DOMAIN PhaseScopes),
     at : {"next", "mark", "work", "work2", "complete", "abort"}, failed : BOOLEAN,
     cursor : Nat \cup {NoBaseline}]
AllKinds == <<"bundle", "inventory", "read-paths", "v1-payload-digest">>
RerunKinds == <<"inventory", "read-paths", "v1-payload-digest">>

Running(scopes) == \E s \in scopes : marker[s] = "running"
ValidatorsCompleted == \A k \in Kinds : marker[k] = "completed"

At(p, cmds, at) == proc[p].cmd \in cmds /\ proc[p].at = at
Now(p) == Head(proc[p].todo)
Go(p, at) == proc' = [proc EXCEPT ![p].at = at]
SetMarker(s, st) == marker' = [marker EXCEPT ![s] = st]

----------------------------------------------------------------------------
(* The validators.                                                         *)

\* Nothing of V1 is missing in V2 and both have as many rows.
InventoryPasses == \A table \in V1Tables : InV1(table) = InV2

ReadPathsPass == tables = V1Tables => \A t \in V1Turns : v2[t] = "same"

\* A dropped table is accepted; a baseline taken after a drop is unusable.
DigestPasses == baseline = NoBaseline \/ baseline = raw

Capture == IF tables = V1Tables THEN raw ELSE NoBaseline

\* Mutation of Passes: a store without V2 turns is taken for one not begun.
PassesEmpty(k) ==
    \/ InV2 = {}
    \/ k = "inventory" /\ InventoryPasses
    \/ k = "read-paths" /\ ReadPathsPass
    \/ k = "v1-payload-digest" /\ DigestPasses

Passes(k) ==
    CASE k = "inventory" -> InventoryPasses
      [] k = "read-paths" -> ReadPathsPass
      [] k = "v1-payload-digest" -> DigestPasses

\* Mutation of HandoffComplete: an inner join does not see missing rows.
HandoffInner ==
    \/ "user_turns" \notin tables
    \/ validated
    \/ \A t \in (V1Turns \ purged) \cap InV2 : v2[t] = "same"

\* V2 must agree with V1 before the first read or write under V2 alone.
\* Tombstones excepted, and only until it has been seen once.
HandoffComplete ==
    \/ "user_turns" \notin tables
    \/ validated
    \/ \A t \in V1Turns \ purged : v2[t] = "same"

Handoff == validated' = (validated \/ "user_turns" \in tables)

----------------------------------------------------------------------------
(* Commands.                                                               *)

Start(p, doing) ==
    /\ proc[p] = Idle
    /\ commands < MaxCommands
    /\ proc' = [proc EXCEPT ![p] = doing]
    /\ commands' = commands + 1
    /\ UNCHANGED <<store, marker, baseline, crashes>>

Run(p) == \E todo \in {SourceOrder} \cup {<<s>> : s \in Source} : Start(p, Doing("run", todo))

Validate(p) == Start(p, Doing("validate", AllKinds))

\* The preflight of compact, up to the validators it runs again.
Compact(p) ==
    /\ ~Running(Scope)
    /\ tables # {} => ValidatorsCompleted
    /\ Start(p, Doing("compact", IF tables # {} THEN RerunKinds ELSE <<>>))

\* reset refuses while a marker of the phase runs, unless forced; the operator
\* forces it when no other process is alive.  The delete is a later statement.
Reset(p) ==
    \E ph \in DOMAIN PhaseScopes :
        /\ Running(PhaseScopes[ph]) => \A q \in Process : proc[q] = Idle
        /\ Start(p, Doing("reset", <<ph>>))

Delete(p) ==
    /\ At(p, {"reset"}, "next")
    /\ marker' = [s \in Scope |-> IF s \in PhaseScopes[Now(p)] THEN "absent" ELSE marker[s]]
    /\ baseline' = IF Now(p) \in {"validate", "all"} THEN NoBaseline ELSE baseline
    /\ proc' = [proc EXCEPT ![p] = Idle]
    /\ UNCHANGED <<store, commands, crashes>>

----------------------------------------------------------------------------
(* One scope of a command: read its marker, write "running", work, write   *)
(* the outcome.  Each is a statement of its own.                           *)

\* A failed source ends migration run; a failed validator does not end validate.
NextScope(p, failed) ==
    proc' = [proc EXCEPT ![p] =
        IF \/ @.cmd = "drop"
           \/ @.cmd = "run" /\ failed
           \/ @.cmd # "compact" /\ Len(@.todo) = 1
        THEN Idle
        ELSE [cmd |-> @.cmd, todo |-> Tail(@.todo), at |-> "next",
              failed |-> @.failed \/ (failed /\ @.cmd = "compact"), cursor |-> NoBaseline]]

CursorOf(scope) == IF scope = "v1-payload-digest" THEN baseline ELSE NoBaseline

\* The cursor of the scope at hand becomes the one the process holds.
WriteCursor(p) == baseline' = IF Now(p) = "v1-payload-digest" THEN proc[p].cursor ELSE baseline

ReadMarker(p) ==
    /\ At(p, Doer, "next")
    /\ proc[p].todo # <<>>
    /\ UNCHANGED <<store, marker, baseline, commands, crashes>>
    /\ \/ /\ marker[Now(p)] \in {"running", "aborted"}
          /\ IF proc[p].cmd = "drop" THEN Go(p, "abort") ELSE NextScope(p, TRUE)
       \/ /\ marker[Now(p)] = "completed" /\ proc[p].cmd = "run"
          /\ NextScope(p, FALSE)
       \/ /\ marker[Now(p)] \in {"absent", IF proc[p].cmd = "run" THEN "absent" ELSE "completed"}
          /\ proc' = [proc EXCEPT ![p] = [@ EXCEPT !.at = "mark", !.cursor = CursorOf(Now(p))]]

\* Mutation of MarkRunning: a scope run before is marked with a status of its own.
MarkResumed(p) ==
    /\ At(p, Doer, "mark")
    /\ SetMarker(Now(p), IF marker[Now(p)] = "absent" THEN "running" ELSE "resumed")
    /\ WriteCursor(p)
    /\ Go(p, "work")
    /\ UNCHANGED <<store, commands, crashes>>

\* The upsert does not look at the status again, and writes back the cursor that
\* was read with it.
MarkRunning(p) ==
    /\ At(p, Doer, "mark")
    /\ SetMarker(Now(p), "running")
    /\ WriteCursor(p)
    /\ Go(p, "work")
    /\ UNCHANGED <<store, commands, crashes>>

\* Mutation of Backfill: an error is taken for "nothing to do".
BackfillShrugs(p) ==
    /\ At(p, {"run"}, "work")
    /\ UNCHANGED <<tables, raw, validated, purged, marker, baseline, commands, crashes>>
    /\ UNCHANGED <<v2, withdrawn>> /\ Go(p, "complete")

\* One transaction: V2 of the source is emptied and written from V1.  It may
\* fail, and does without both V1 tables; it is rolled back then.
Backfill(p) ==
    /\ At(p, {"run"}, "work")
    /\ UNCHANGED <<tables, raw, validated, purged, marker, baseline, commands, crashes>>
    /\ \/ /\ tables = V1Tables
          /\ v2' = [t \in Turn |->
                       IF SourceOf[t] # Now(p) THEN v2[t]
                       ELSE IF t \in V1Turns THEN "same" ELSE "none"]
          /\ withdrawn' = withdrawn \ (V1Turns \cap TurnsOf(Now(p)))
          /\ Go(p, "complete")
       \/ UNCHANGED <<v2, withdrawn>> /\ Go(p, "abort")

\* The pre-migration bundle may agree or not.
Check(p) ==
    /\ At(p, {"validate", "compact"}, "work")
    /\ \E passes \in BOOLEAN :
        /\ Now(p) # "bundle" => passes = Passes(Now(p))
        /\ proc' = [proc EXCEPT ![p] =
            [cmd |-> @.cmd, todo |-> @.todo, failed |-> @.failed,
             at |-> IF passes THEN "complete" ELSE "abort",
             cursor |-> IF Now(p) # "v1-payload-digest" THEN NoBaseline
                        ELSE IF baseline = NoBaseline THEN Capture ELSE baseline]]
    /\ UNCHANGED <<store, marker, baseline, commands, crashes>>

Complete(p) ==
    /\ At(p, Doer, "complete")
    /\ IF marker[Now(p)] = "absent"
       THEN UNCHANGED <<marker, baseline>>
       ELSE /\ SetMarker(Now(p), "completed")
            /\ WriteCursor(p)
    /\ NextScope(p, FALSE)
    /\ UNCHANGED <<store, commands, crashes>>

\* Mutation of Abort: the error is reported, the marker is not written.
AbortReports(p) ==
    /\ At(p, Doer, "abort")
    /\ NextScope(p, TRUE)
    /\ UNCHANGED <<store, marker, baseline, commands, crashes>>

Abort(p) ==
    /\ At(p, Doer, "abort")
    /\ IF marker[Now(p)] = "absent" THEN UNCHANGED marker ELSE SetMarker(Now(p), "aborted")
    /\ NextScope(p, TRUE)
    /\ UNCHANGED <<store, baseline, commands, crashes>>

----------------------------------------------------------------------------
(* compact after its validators.                                           *)

\* The markers are read again, the validators are not run again.
Recheck(p) ==
    /\ At(p, {"compact"}, "next")
    /\ proc[p].todo = <<>>
    /\ proc' = [proc EXCEPT ![p] =
        IF ~@.failed /\ ~Running(Scope) /\ (tables # {} => ValidatorsCompleted)
        THEN Doing("drop", <<"compact">>) ELSE Idle]
    /\ UNCHANGED <<store, marker, baseline, commands, crashes>>

DropTable(p) ==
    /\ At(p, {"drop"}, "work") \/ At(p, {"drop"}, "work2")
    /\ tables' = tables \ {IF proc[p].at = "work" THEN "user_turns" ELSE "turn_contexts"}
    /\ Go(p, IF proc[p].at = "work" THEN "work2" ELSE "complete")
    /\ UNCHANGED <<v2, raw, validated, purged, withdrawn, marker, baseline, commands, crashes>>

----------------------------------------------------------------------------
(* Everything else that writes.                                            *)

Crash(p) ==
    /\ proc[p] # Idle
    /\ crashes < MaxCrashes
    /\ crashes' = crashes + 1
    /\ proc' = [proc EXCEPT ![p] = Idle]
    /\ UNCHANGED <<store, marker, baseline, commands>>

\* A resolved read settles the handoff without writing anything else.
Read ==
    /\ HandoffComplete
    /\ Handoff
    /\ UNCHANGED <<tables, v2, raw, purged, withdrawn, marker, baseline, proc, commands, crashes>>

\* A sync rewrites or adds some turns of a source and drops those its files lost.
Sync(s) ==
    /\ HandoffComplete
    /\ raw < MaxWrites
    /\ \E new, lost \in SUBSET TurnsOf(s) :
        /\ new \cap lost = {}
        /\ lost \subseteq InV2
        /\ v2' = [t \in Turn |-> IF t \in new THEN "newer" ELSE IF t \in lost THEN "none" ELSE v2[t]]
        /\ withdrawn' = (withdrawn \cup lost) \ new
    /\ raw' = raw + 1
    /\ Handoff
    /\ UNCHANGED <<tables, purged, marker, baseline, proc, commands, crashes>>

\* Captured blobs nothing refers to any more go with the turn.
Purge(t) ==
    /\ HandoffComplete
    /\ t \in InV2
    /\ Cardinality(purged) < MaxWrites
    /\ v2' = [v2 EXCEPT ![t] = "none"]
    /\ purged' = purged \cup {t}
    /\ withdrawn' = withdrawn \cup {t}
    /\ raw' \in {raw, raw + 1}
    /\ Handoff
    /\ UNCHANGED <<tables, marker, baseline, proc, commands, crashes>>

\* A store from before the migration, where V2 has some of the turns V1 has; or
\* one that has been validated already, where it has them all.
Init ==
    /\ tables = V1Tables
    /\ v2 \in {f \in [Turn -> {"none", "same"}] : \A t \in Turn \ V1Turns : f[t] = "none"}
    /\ \/ marker = [x \in Scope |-> "absent"] /\ baseline = NoBaseline
       \/ /\ InV2 = V1Turns
          /\ marker = [x \in Scope |-> IF x \in Kinds THEN "completed" ELSE "absent"]
          /\ baseline = 0
    /\ raw = 0
    /\ validated = FALSE
    /\ purged = {}
    /\ withdrawn = {}
    /\ proc = [p \in Process |-> Idle]
    /\ commands = 0
    /\ crashes = 0

Step(p) ==
    \/ ReadMarker(p) \/ MarkRunning(p) \/ Backfill(p) \/ Check(p)
    \/ Complete(p) \/ Abort(p) \/ Recheck(p) \/ DropTable(p) \/ Delete(p)

Next ==
    \/ \E p \in Process : Step(p) \/ Run(p) \/ Validate(p) \/ Compact(p) \/ Reset(p) \/ Crash(p)
    \/ \E s \in Source : Sync(s)
    \/ \E t \in Turn : Purge(t)
    \/ Read

Spec == Init /\ [][Next]_vars

\* A process that lives runs its command to the end.
FairSpec == Spec /\ \A p \in Process : WF_vars(Step(p))

----------------------------------------------------------------------------
(* Properties.                                                             *)

\* Types of the variables.
TypeOK ==
    /\ tables \subseteq V1Tables
    /\ v2 \in [Turn -> {"none", "same", "newer"}]
    /\ raw \in Nat
    /\ validated \in BOOLEAN
    /\ purged \subseteq Turn
    /\ withdrawn \subseteq Turn
    /\ marker \in [Scope -> Status]
    /\ baseline \in Nat \cup {NoBaseline}
    /\ proc \in [Process -> Doings]
    /\ commands \in 0 .. MaxCommands
    /\ crashes \in 0 .. MaxCrashes

\* Dropping the V1 tables loses no turn: what V1 had is in V2, or a sync or a
\* purge has taken it out since (migration compact after its validators).
DroppedTurnsAreKept == "user_turns" \notin tables => V1Turns \subseteq InV2 \cup withdrawn

\* A source whose write marker says completed has all its V1 turns in V2, but
\* for those taken out since, whatever other processes and crashes do.
BackfilledSourcesAreComplete ==
    \A s \in Source : marker[s] = "completed" => V1Turns \cap TurnsOf(s) \subseteq InV2 \cup withdrawn

\* Once a read or a write has gone by V2 alone, V2 has every V1 turn that was
\* not taken out since: the handoff never has to be checked again.
HandoffKeepsTurns == validated => V1Turns \subseteq InV2 \cup withdrawn

\* While no process dies, running markers get an outcome: no path of run,
\* validate or compact leaves one behind, which would stop every later compact.
RunningEnds == Running(Scope) ~> ~Running(Scope) \/ crashes > 0
=============================================================================
