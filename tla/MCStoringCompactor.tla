-------------------------- MODULE MCStoringCompactor -------------------------
(***************************************************************************)
(* StoringCompactor for TLC.  Request "r1" has a deterministic artifact;   *)
(* "r2" one of two texts, the empty text, or no text at all.               *)
(***************************************************************************)
EXTENDS StoringCompactor, TLC

CONSTANTS A, B

MCRequests == {"r1", "r2"}

MCConversationOf == [r \in MCRequests |-> CHOOSE c \in Conversations : TRUE]

MCSummaries == [r1 |-> {A}, r2 |-> {A, B, Blank, NoText}]

Symmetry == Permutations(Tasks)
==============================================================================
