---------------------------- MODULE MCPersistHook ----------------------------
(***************************************************************************)
(* PersistHook for TLC: a text with a card, one without, and an answer of  *)
(* two items with text.                                                    *)
(***************************************************************************)
EXTENDS PersistHook

CONSTANTS A, B

MCCardsOf == [t \in {A, B} |-> IF t = A THEN <<1, 2>> ELSE <<>>]

MCPrompts == {A, Blank}

MCResponses == {<<B, NoText, A>>}

(* Every policy (a custom callback may do what "warn" does), and either    *)
(* value of both switches where the policy can tell.                       *)
MCConfigs ==
    [on_write_failure : {"halt", "custom"}, persist_assistant : {FALSE}, commit_each_turn : {TRUE}]
      \cup [on_write_failure : {"halt"}, persist_assistant : {TRUE}, commit_each_turn : BOOLEAN]
      \cup [on_write_failure : {"warn", "custom"}, persist_assistant : {TRUE}, commit_each_turn : {FALSE}]

Symmetry == Permutations(Runs)
==============================================================================
