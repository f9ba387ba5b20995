------------------------------ MODULE Retention ------------------------------
(***************************************************************************)
(* What cchistory promises about the prompts it has shown once, however    *)
(* the files they came from come and go (the retention contract): a file   *)
(* that disappears or cannot be read takes nothing away.  A prompt goes    *)
(* only when its file is there, or was last seen, without it.              *)
(* SessionMerge implements this specification.                             *)
(***************************************************************************)
CONSTANTS
    Path,       \* files of the source
    Content,    \* what a file may hold
    PathOf,     \* [Content -> Path]
    PromptsOf,  \* [Content -> set of prompts]
    Gone        \* "no file at this path"

VARIABLES
    held,       \* what a path holds: a content of it, or Gone
    seen,       \* the content the store last accepted from a path, or Gone
    shown       \* prompts the store shows

retentionVars == <<held, seen, shown>>

ContentsOf(p) == {c \in Content : PathOf[c] = p}
Latest(p) == IF held[p] # Gone THEN held[p] ELSE seen[p]

\* Prompts of a path the latest known content of which does not have them.
Withdrawn ==
    {m \in UNION {PromptsOf[c] : c \in Content} :
        \E c \in Content : /\ m \in PromptsOf[c]
                           /\ Latest(PathOf[c]) # Gone
                           /\ m \notin PromptsOf[Latest(PathOf[c])]}

Available == UNION {PromptsOf[Latest(p)] : p \in {q \in Path : Latest(q) # Gone}}

Edit(p) ==
    /\ held' \in [Path -> Content \cup {Gone}]
    /\ held'[p] \in ContentsOf(p) \cup {Gone}
    /\ \A q \in Path \ {p} : held'[q] = held[q]
    /\ UNCHANGED <<seen, shown>>

Sync ==
    /\ \A p \in Path : seen'[p] # seen[p] => held[p] # Gone /\ seen'[p] = held[p]
    /\ shown \ shown' \subseteq Withdrawn
    /\ shown' \ shown \subseteq Available
    /\ UNCHANGED held

Init ==
    /\ held \in {f \in [Path -> Content \cup {Gone}] :
                    \A p \in Path : f[p] # Gone => PathOf[f[p]] = p}
    /\ seen = [p \in Path |-> Gone]
    /\ shown = {}

Next == Sync \/ \E p \in Path : Edit(p)

Spec == Init /\ [][Next]_retentionVars
=============================================================================
