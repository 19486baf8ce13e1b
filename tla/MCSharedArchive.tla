--------------------------- MODULE MCSharedArchive ---------------------------
(***************************************************************************)
(* SharedArchive for TLC: a batch of one message and one with a duplicate  *)
(* around an image; an artifact that may render to no text.                *)
(***************************************************************************)
EXTENDS SharedArchive

CONSTANTS A, B, S

MCMessages == {"a", "b", "image"}

MCTextOf ==
    [m \in MCMessages |-> CASE m = "a" -> A [] m = "b" -> B [] m = "image" -> NoText]

MCBatches == {<<"a">>, <<"b", "image", "b">>}

MCRequests == {"r"}

MCConversationOf == [r \in MCRequests |-> CHOOSE c \in Conversations : TRUE]

MCSummaries == [r \in MCRequests |-> {S, NoText}]
==============================================================================
