-------------------------------- MODULE Recall --------------------------------
(***************************************************************************)
(* The way of a fact through the crate: a user states it in a turn, the    *)
(* persist hook binds the text to the principal, stores it and the cards   *)
(* it finds in it (hook.rs), and a MemoryCardContext on a clone of the     *)
(* store selects cards for a query (cards_context.rs), while the hook and  *)
(* other writers of cards go on.                                           *)
(*                                                                         *)
(* Utterance gives the tokens of a text, Stated the facts a reader finds   *)
(* in it; they are independent of what the hook makes of the text.         *)
(***************************************************************************)
EXTENDS PrincipalText

CONSTANTS
    Utterance,     \* the tokens of a text
    Stated,        \* the facts stated in a text
    OtherCards,    \* the cards that others put (memvid's extractor, the application),
                   \* with the frame that they cite, 0 if none
    MaxOthers,     \* bound on their number
    Runs, Texts, Blank, NoText, Prompts, Responses, Configs, MaxTurns, Faults, \* see PersistHook
    Folded, Asks, ShortWords, MaxCards, MaxAsks                                \* see CardContext

VARIABLES
    log, durable, poisoned,
    config, halt, pc, turn, role, texts, next, frame, cards, latched, continued,
    stage, ask, hits, todo, reply, before, asked,
    said           \* the turns that had returned when the selection began

ExtractedCards == [t \in Texts |-> SupplementalMemoryCards(BindPrincipal(Utterance[t]))]

ASSUME UtteranceAssumption ==
    /\ DOMAIN Utterance = Texts
    /\ DOMAIN Stated = Texts
    /\ \A t \in Texts : Utterance[t] # <<>>

(* What top_n is called with; a principal has a name.                      *)
ASSUME AsksAssumption ==
    /\ MaxCards \in Nat
    /\ \A a \in Asks :
          /\ a.by \in {"mentions", "recent", "principal", "preferences"}
          /\ a.names \in Seq(ToSet(a.names))
          /\ a.by = "principal" => a.names # <<>>
          /\ a.samples \in Nat

(* What PersistHook assumes of a prompt.                                   *)
ASSUME HookAssumption ==
    /\ Prompts \subseteq Texts \cup {Blank, NoText}
    /\ Texts \cap {Blank, NoText} = {}

H == INSTANCE PersistHook WITH CardsOf <- ExtractedCards

(* The cards of the archive.  Time passes between turns and stands still   *)
(* within one, so that the cards of one write are equally old.             *)
Stored(card, cited, time) ==
    [kind |-> card.kind, entity |-> card.entity, slot |-> card.slot, value |-> card.value,
     frame |-> cited, at |-> time]

Graph ==
    LET put[n \in 0..Len(log)] ==
            IF n = 0 THEN <<>>
            ELSE IF "other" \in DOMAIN log[n]
                 THEN Append(put[n - 1], Stored(log[n].other, log[n].other.frame, log[n].at))
            ELSE IF "cites" \in DOMAIN log[n]
                 THEN Append(put[n - 1], Stored(log[n].card, log[n].cites, log[n].of.turn))
            ELSE put[n - 1]
    IN  put[Len(log)]

C == INSTANCE CardContext WITH graph <- Graph

turns     == <<config, halt, pc, turn, role, texts, next, frame, cards, latched, continued>>
selection == <<stage, ask, hits, todo, reply, before, asked>>
vars      == <<log, durable, poisoned, turns, selection, said>>

Init == H!Init /\ C!CardContextInit /\ said = {}

(* put_memory_card by anyone else, of a card that cites no frame, or one   *)
(* that is in the archive.                                                 *)
PutOtherCard ==
    /\ \E c \in OtherCards, r \in Runs :
          LET e == [other |-> c, at |-> turn[r]] IN
          /\ c.frame = 0 \/ (c.frame \in DOMAIN log /\ "text" \in DOMAIN log[c.frame])
          /\ Cardinality({i \in DOMAIN log : "other" \in DOMAIN log[i]}) < MaxOthers
          /\ H!PutSucceeds(e)
    /\ UNCHANGED <<turns, selection, said>>

Hook(r) == H!Run(r) /\ UNCHANGED <<selection, said>>

AskCards ==
    /\ C!TopN
    /\ said' = continued
    /\ UNCHANGED <<log, durable, poisoned, turns>>

Selecting == C!Select /\ UNCHANGED <<log, durable, poisoned, turns, said>>

Next ==
    \/ \E r \in Runs : Hook(r)
    \/ PutOtherCard
    \/ AskCards
    \/ Selecting

Spec == Init /\ [][Next]_vars

------------------------------------------------------------------------------
(* The selection is well-formed: it looks names up only while it has some, *)
(* and what it has selected are cards of the graph (the locals of top_n    *)
(* and select_for_principal).                                              *)
SelectionOK ==
    /\ stage \in {"idle", "rank", "cards_for_query", "all_cards", "preferences", "principal",
                  "principal_lower", "scan", "related", "related_lower"}
    /\ stage \in {"preferences", "principal", "principal_lower", "scan", "related", "related_lower"}
          => todo # <<>>
    /\ ToSet(reply) \subseteq ToSet(hits)
    /\ ToSet(hits) \subseteq ToSet(Graph)
    /\ before <= Len(Graph)

RankedByRelevance == C!RankedByRelevance

NoCardTwice == C!NoCardTwice

NothingOlderIsMissed == C!NothingOlderIsMissed

(* The card c tells the fact f.                                            *)
Tells(c, f) ==
    c.kind = f.kind /\ c.entity = f.entity /\ c.slot = f.slot /\ c.value = f.value

(* The facts of a text about the principal, and about the entities that    *)
(* the same text relates to him.                                           *)
Own(t) == {f \in Stated[t] : f.entity = <<Lower(Principal)>>}

OfPrincipal(t) ==
    LET related == {LowerAll(f.value) : f \in {f \in Own(t) : f.kind = "rel"}}
    IN  Own(t) \cup {f \in Stated[t] : f.entity \in related}

(* What a user says of himself is there when it is asked for: under        *)
(* WriteFailure::Halt, a fact stated in a turn that let the agent go on,   *)
(* about the principal or about an entity that the same turn relates to    *)
(* him, is selected for the principal from then on (README, "Personal      *)
(* assistant memory"), whatever failed, and whoever writes meanwhile.      *)
StatedIsRecalled ==
    /\ stage = "rank"
    /\ ask.by = "principal"
    /\ ask.names[1] = <<Principal>>
    /\ config.on_write_failure = "halt"
    /\ C!OneSpelling
    => \A e \in {e \in said : e.role = "user"} :
          \A f \in OfPrincipal(e.text) : \E i \in DOMAIN hits : Tells(hits[i], f)

(* The phrases of supplemental_memory_cards find these facts in a text.    *)
StatedIsFound ==
    \A t \in Texts : \A f \in OfPrincipal(t) : \E c \in ToSet(ExtractedCards[t]) : Tells(c, f)

(* The other way round: what they find in a text is stated in it.          *)
OnlyStatedIsFound == \A t \in Texts : ToSet(ExtractedCards[t]) \subseteq Stated[t]

(* Others who put the same card twice, or one the hook may find in the     *)
(* frame that they cite, put it as one of the same kind.                   *)
OthersAgree ==
    \A c \in OtherCards :
        /\ \A d \in OtherCards : C!SameCard(c, d) => c.kind = d.kind
        /\ \A t \in Texts : \A d \in ToSet(ExtractedCards[t]) :
              c.frame # 0 /\ c.entity = d.entity /\ c.slot = d.slot /\ c.value = d.value
                  => c.kind = d.kind

(* "Small deterministic cards for principal-bound user turns", for the     *)
(* statements in them, "after Self::principal has bound first-person       *)
(* pronouns to the stable entity" (hook.rs, supplemental_profile_cards): a *)
(* card that the hook adds for a turn is a fact that the user stated in    *)
(* it, ascribed to whom the user stated it of.                             *)
CardsAreStated ==
    \A i \in DOMAIN log :
        "cites" \in DOMAIN log[i] =>
            log[i].card \in Stated[log[log[i].cites].text]

(* And the other way round: "currently covers allergy / avoidance          *)
(* statements and simple manager / reporting statements" (hook.rs,         *)
(* supplemental_profile_cards), so that under WriteFailure::Halt the cards *)
(* of a user's turn that was let go on are the facts stated in it, all of  *)
(* them and no other.                                                      *)
CardsAreExact ==
    config.on_write_failure = "halt" =>
        \A e \in {e \in continued : e.role = "user"} :
            {log[i].card : i \in {i \in DOMAIN log : "cites" \in DOMAIN log[i] /\ log[i].of = e}}
                = Stated[e.text]
==============================================================================
