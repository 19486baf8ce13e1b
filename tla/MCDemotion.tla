----------------------------- MODULE MCDemotion ------------------------------
(***************************************************************************)
(* Demotion for TLC.  Two texts and the two kinds of message that leave no *)
(* frame; the batches have a second message, the same text twice, and      *)
(* messages without a frame around one with a frame.                       *)
(***************************************************************************)
EXTENDS Demotion, TLC

CONSTANTS A, B    \* the texts

MCMessages == {"a", "b", "empty", "image"}

MCTextOf ==
    [m \in MCMessages |-> CASE m = "a" -> A [] m = "b" -> B
                            [] m = "empty" -> Blank [] m = "image" -> NoText]

MCBatches == {<<"a">>, <<"b", "a">>}

MCMixedBatches == {<<"a", "b">>, <<"b", "image", "empty", "b">>}

Symmetry == Permutations(Tasks)
==============================================================================
