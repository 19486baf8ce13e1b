------------------------------- MODULE MCRecall -------------------------------
(***************************************************************************)
(* Recall for TLC: a user called Alice who states facts about herself in   *)
(* the first person, in the words of the README's examples, and asks.      *)
(* Stated has all that a text says, so far as the cards of the hook are    *)
(* meant to cover it: allergies and what is avoided, managers with their   *)
(* employers and titles, and who reports to whom.                          *)
(***************************************************************************)
EXTENDS Recall

MCLowerOf ==
    "Alice" :> "alice" @@ "Alice's" :> "alice's" @@ "I" :> "i" @@ "My" :> "my" @@ "He" :> "he"
    @@ "Bob" :> "bob" @@ "Eve" :> "eve" @@ "Carol" :> "carol" @@ "Dan" :> "dan" @@ "Acme" :> "acme"
    @@ "Inc" :> "inc" @@ "VP" :> "vp"

(* Words, and words that end in a mark.                                    *)
Word(word, marks) == [pre |-> <<>>, word |-> word, post |-> marks, nl |-> FALSE]

W(word)     == Word(word, <<>>)
Comma(word) == Word(word, <<"comma">>)
Stop(word)  == Word(word, <<"stop">>)

MCUtterance ==
    [manager |-> <<W("Bob"), W("is"), W("my"), Stop("manager"),
                   W("He"), W("reports"), W("to"), Comma("Carol"), W("the"), Stop("VP")>>,
     allergy |-> <<W("My"), W("name"), W("is"), W("Alice"), W("and"), W("I"), W("am"), W("allergic"),
                   W("to"), Comma("eggs"), Stop("thanks"),
                   W("Eve"), W("is"), W("my"), W("manager"), W("at"), W("Acme"), Stop("Inc")>>]

(* A fact, and whom it is of in lower case.                                *)
Says(kind, entity, slot, value) ==
    [kind |-> kind, entity |-> entity, slot |-> slot, value |-> value]

MCStated ==
    [manager |-> {Says("rel", <<"alice">>, "manager", <<"Bob">>),
                  Says("rel", <<"bob">>, "reports_to", <<"Carol">>),
                  Says("profile", <<"carol">>, "title", <<"VP">>)},
     allergy |-> {Says("profile", <<"alice">>, "allergy", <<"eggs">>),
                  Says("rel", <<"alice">>, "manager", <<"Eve">>),
                  Says("fact", <<"eve">>, "employer", <<"Acme">>)}]

MCTexts == DOMAIN MCUtterance

(* A sentence of two statements, one of them about someone else.           *)
MCUtteranceOfTwo ==
    [two |-> <<W("Dan"), W("is"), W("allergic"), W("to"), Comma("eggs"),
               W("and"), W("I"), W("cannot"), W("have"), Stop("cake")>>]
MCStatedOfTwo ==
    [two |-> {Says("profile", <<"dan">>, "allergy", <<"eggs">>),
              Says("profile", <<"alice">>, "allergy", <<"cake">>)}]
MCTextsOfTwo == DOMAIN MCUtteranceOfTwo

(* Cards found by memvid's extractor, spelled in its ways; one of them     *)
(* cites the first frame of the archive.                                   *)
MCOtherCards ==
    {[kind |-> "pref", entity |-> <<"Alice">>, slot |-> "drink", value |-> <<"espresso">>, frame |-> 1],
     [kind |-> "fact", entity |-> <<"Eve">>, slot |-> "city", value |-> <<"Rome">>, frame |-> 0],
     [kind |-> "rel", entity |-> <<"alice", "smith">>, slot |-> "manager", value |-> <<"Bob">>, frame |-> 0]}

(* The hypothesis of StatedFactsAreSelected about these cards.             *)
ASSUME MCOthersAgree == OthersAgree

MCAsks ==
    {[by |-> "principal", names |-> <<<<"Alice">>>>, samples |-> 3,
        query |-> <<"what", "should", "I", "avoid">>],
     [by |-> "mentions", names |-> <<>>, samples |-> 8, query |-> <<"where", "does", "Eve", "work">>],
     [by |-> "recent", names |-> <<>>, samples |-> 2, query |-> <<"which", "drink">>],
     [by |-> "preferences", names |-> <<<<"alice">>, <<"Alice">>>>, samples |-> 8,
        query |-> <<"what", "does", "Alice", "prefer">>]}

MCConfigs ==
    {[on_write_failure |-> "halt", persist_assistant |-> FALSE, commit_each_turn |-> FALSE]}

(* Nothing is asked of what comes after the last selection.                *)
Unanswered == ~(asked = MaxAsks /\ stage = "idle")

MCShortWords == {"I", "i", "VP", "is", "so", "to", "vp"}
MCPrompts == Texts
MCResponses == {<<>>}
==============================================================================
