-------------------------- MODULE MCEvidenceStore --------------------------
(***************************************************************************)
(* Small stores for TLC: two processes; one file under one host name, or   *)
(* one slot seen under two host identities, with equal contents.           *)
(***************************************************************************)
EXTENDS EvidenceStore, TLC

CONSTANTS q1, q2, s1, s2, p1, p2, c1, c2, slotA, slotB

OneSlot == [x \in Source \cup Path |-> slotA]

\* c2 is c1 with one more user turn appended.
Appended == (c1 :> {1}) @@ (c2 :> {1, 2})
OneTurn == [c \in Content |-> {1}]

\* A syncing process beside one that runs the given commands.
Beside(ops) == (q1 :> {"sync"}) @@ (q2 :> ops)
BesidePurges == Beside({"purge", "gc_candidates", "gc_evidence"})
BesideUploads == Beside({"upload", "sync", "delete_project"})

\* Every process knows every source; or the first runs under the first host
\* name only and the second under the second.
SeesAll == [q \in Proc |-> Source]
SeesOwn == (q1 :> {s1}) @@ (q2 :> {s2})
=============================================================================
