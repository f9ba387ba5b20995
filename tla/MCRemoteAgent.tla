--------------------------- MODULE MCRemoteAgent ---------------------------
(***************************************************************************)
(* One host with one agent and one or two CLI processes.                   *)
(***************************************************************************)
EXTENDS RemoteAgent, TLC

CONSTANTS a1, a2, h1, cli, cron, x1, x2, k1, k2, l1

OneHost == [c \in Client |-> h1]
OwnedByIt == [s \in Source |-> h1]

\* One process does everything; or another one uploads on a schedule beside it.
Alone == [c \in Client |-> {"pair", "upload", "pull"}]
WithUploads == [c \in Client |-> IF c = cron THEN {"upload"} ELSE Alone[c]]

SameConn == Permutations(Conn)

AllSources == {Source}
ForAll == {Everyone}
ForLabel == {{l1}}
NoExpectation == {0}
AlwaysExpected == {1}
=============================================================================
