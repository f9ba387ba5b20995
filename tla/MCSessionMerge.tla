--------------------------- MODULE MCSessionMerge ---------------------------
(***************************************************************************)
(* Two files for TLC.  a1 opens session1 with a prompt and its reply, a2  *)
(* appends a prompt, a3 is a rewrite that belongs to session2; b1 adds a  *)
(* later prompt and reply to session1, b2 is b1 with a line that does not parse.  *)
(***************************************************************************)
EXTENDS SessionMerge, TLC

CONSTANTS path1, path2, session1, session2, a1, a2, a3, b1, b2

Prompts == {1, 3, 5, 6}

PathOfContent == [c \in Content |-> IF c \in {b1, b2} THEN path2 ELSE path1]
SessionOfContent == [c \in Content |-> IF c = a3 THEN session2 ELSE session1]
MsgsOfContent == [c \in Content |->
    CASE c = a1 -> {1, 2} [] c = a2 -> {1, 2, 5} [] c = a3 -> {6}
      [] c = b1 -> {3, 4} [] c = b2 -> {3, 4, 7}]
SizeOfContent == [c \in Content |-> Cardinality(MsgsOfContent[c])]
=============================================================================
