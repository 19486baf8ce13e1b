----------------------------- MODULE CardContext -----------------------------
(***************************************************************************)
(* MemoryCardContext (cards_context.rs) over a MemoryGraph                 *)
(* (memory_graph.rs): top_n selects memory cards by several reads of the   *)
(* graph, with no lock held between them while others write, ranks them    *)
(* for the query and cuts the list off.                                    *)
(*                                                                         *)
(* A card has a kind, an entity and a value (sequences of words), a slot   *)
(* (a word), the frame it cites and the time at which it was created;      *)
(* what ranking and selection do not read is left out, and so are filters, *)
(* which top_n ignores.  The graph keeps cards in the order of insertion.  *)
(***************************************************************************)
EXTENDS Words

CONSTANTS
    Folded,       \* whether the graph compares entities without regard to case
    Asks,         \* what top_n may be called with
    ShortWords,   \* the words of at most two letters
    MaxCards,     \* with_max_cards
    MaxAsks       \* bound on the number of calls

VARIABLES
    graph,     \* the cards

    stage,     \* the read top_n does next
    ask,       \* its strategy, the names the strategy is given, query, samples
    hits,      \* the cards selected so far
    todo,      \* the names it has yet to look up
    reply,     \* the cards returned by the last call
    before,    \* how many cards there were when the call began
    asked      \* number of calls

selection == <<stage, ask, hits, todo, reply, before, asked>>

NoAsk == [by |-> "none", names |-> <<>>, query |-> <<>>, samples |-> 0]

CardContextInit ==
    /\ stage = "idle"
    /\ ask = NoAsk
    /\ hits = <<>>
    /\ todo = <<>>
    /\ reply = <<>>
    /\ before = 0
    /\ asked = 0

------------------------------------------------------------------------------
(* Reads of the graph.                                                     *)

EntityMemories(name) ==
    Chosen(graph, {c \in ToSet(graph) :
        IF Folded THEN LowerAll(c.entity) = LowerAll(name) ELSE c.entity = name})

EntityPreferences(name) ==
    LET cards == EntityMemories(name) IN Chosen(cards, {c \in ToSet(cards) : c.kind = "pref"})

CardsForQuery(query) ==
    Chosen(graph, {c \in ToSet(graph) : ContainsWord(LowerAll(query), LowerAll(c.entity))})

SameCard(c, d) ==
    c.entity = d.entity /\ c.slot = d.slot /\ c.value = d.value /\ c.frame = d.frame

(* Mutant of AddNew: cards that were selected before are added again.      *)
AddAll(cards, more) == cards \o more

AddNew(cards, more) ==
    LET known[n \in 0..Len(more)] ==
            IF n = 0 THEN cards
            ELSE LET sofar == known[n - 1] IN
                 IF \E c \in ToSet(sofar) : SameCard(c, more[n]) THEN sofar
                 ELSE Append(sofar, more[n])
    IN  known[Len(more)]

------------------------------------------------------------------------------
(* The ranking.  Relevance is counted in halves of a point.                *)

SlotIntents ==
    {[slots |-> {"location", "city", "home", "address"},
      terms |-> {"where", "live", "lives", "located", "location", "city", "reside", "resides",
                 "from", "grew"}],
     [slots |-> {"allergy", "allergic", "avoidance"},
      terms |-> {"avoid", "serve", "food", "allergic", "allergy", "eat", "cannot", "can't", "safe"}],
     [slots |-> {"preference", "drink", "food", "coffee"},
      terms |-> {"like", "likes", "prefer", "prefers", "preference", "preferences", "drink",
                 "coffee", "dislike", "dislikes"}],
     [slots |-> {"manager", "reports_to", "reports", "boss"},
      terms |-> {"manager", "boss", "reports", "report", "supervisor"}],
     [slots |-> {"employer", "company", "work"},
      terms |-> {"work", "works", "employer", "company", "job", "role"}]}

KindTerms(kind) ==
    CASE kind = "pref"    -> {"like", "likes", "prefer", "prefers", "preference", "preferences",
                              "dislike", "dislikes"}
      [] kind = "profile" -> {"allergic", "allergy", "avoid", "serve", "food", "profile", "about"}
      [] kind = "rel"     -> {"manager", "boss", "reports", "report", "relationship"}
      [] OTHER            -> {}

Mentions(query, terms) == ToSet(query) \cap terms # {}

Points(condition, n) == IF condition THEN n ELSE 0

EntityMatches(query, c) == ContainsWord(query, LowerAll(c.entity))

CardMatches(query, c) ==
    \/ EntityMatches(query, c)
    \/ ContainsWord(query, <<c.slot>>)
    \/ ContainsWord(query, LowerAll(c.value))

SlotIntent(query, c) == \E s \in SlotIntents : c.slot \in s.slots /\ Mentions(query, s.terms)

KindIntentScore(query, c) ==
    IF c.kind = "fact" THEN 1
    ELSE Points(CardMatches(query, c) /\ Mentions(query, KindTerms(c.kind)), 4)

TermsMatch(query, words) == Mentions(query, ToSet(words) \ ShortWords)

CardRelevanceScore(query, c) ==
    Points(EntityMatches(query, c), 10)
    + Points(EntityMatches(query, c) /\ c.kind = "rel" /\ Mentions(query, KindTerms("rel")), 8)
    + Points(ContainsWord(query, <<c.slot>>), 8)
    + Points(ContainsWord(query, LowerAll(c.value)), 4)
    + Points(SlotIntent(query, c), 12)
    + KindIntentScore(query, c)
    + Points(TermsMatch(query, <<c.slot>>), 2)
    + Points(TermsMatch(query, LowerAll(c.value)), 2)

(* A stable sort, greater keys first; a key is a pair of numbers.          *)
Precedes(key, i, j) ==
    \/ key[i][1] > key[j][1]
    \/ key[i][1] = key[j][1] /\ key[i][2] > key[j][2]
    \/ key[i] = key[j] /\ i < j

SortBy(items, key) ==
    LET place == [i \in DOMAIN items |->
                     Cardinality({j \in DOMAIN items : j = i \/ Precedes(key, j, i)})]
    IN  [n \in DOMAIN items |-> items[CHOOSE i \in DOMAIN items : place[i] = n]]

ByRecency(cards) == SortBy(cards, [i \in DOMAIN cards |-> <<0, cards[i].at>>])

(* Mutant of Score: recency weighs as much as a match.                     *)
ScoreByRecency(query, cards, i) ==
    (Len(cards) - 1) * CardRelevanceScore(query, cards[i]) + 12 * (Len(cards) - i)

(* The relevance and a hundredth of the recency, which falls from 1 at the *)
(* first card to 0 at the last, both times 200 times the number of steps.  *)
Score(query, cards, i) ==
    100 * (Len(cards) - 1) * CardRelevanceScore(query, cards[i]) + 2 * (Len(cards) - i)

RankKeys(query, cards) == [i \in DOMAIN cards |-> <<Score(query, cards, i), cards[i].at>>]

Limit == IF MaxCards < ask.samples THEN MaxCards ELSE ask.samples

------------------------------------------------------------------------------
(* top_n; each action but the first and the last is one read of the graph. *)

First(a) ==
    CASE a.by = "mentions"    -> "cards_for_query"
      [] a.by = "recent"      -> "all_cards"
      [] a.by = "principal"   -> "principal"
      [] a.by = "preferences" -> IF a.names = <<>> THEN "rank" ELSE "preferences"

TopN ==
    /\ stage = "idle"
    /\ asked < MaxAsks
    /\ \E a \in Asks : ask' = a /\ stage' = First(a) /\ todo' = a.names
    /\ hits' = <<>>
    /\ reply' = <<>>
    /\ before' = Len(graph)
    /\ asked' = asked + 1

Reading(at) ==
    /\ stage = at
    /\ UNCHANGED <<ask, reply, before, asked>>

(* A backend may fail at any read; MemvidStore does once it is poisoned.   *)
ReadFails ==
    /\ stage \notin {"idle", "rank"}
    /\ stage' = "idle"
    /\ hits' = <<>>
    /\ todo' = <<>>
    /\ UNCHANGED <<ask, reply, before, asked>>

SelectEntityMentions ==
    /\ Reading("cards_for_query")
    /\ hits' = CardsForQuery(ask.query)
    /\ stage' = "rank"
    /\ UNCHANGED todo

SelectRecent ==
    /\ Reading("all_cards")
    /\ hits' = graph
    /\ stage' = "rank"
    /\ UNCHANGED todo

SelectPreferences ==
    /\ Reading("preferences")
    /\ hits' = hits \o EntityPreferences(Head(todo))
    /\ todo' = Tail(todo)
    /\ stage' = IF Len(todo) = 1 THEN "rank" ELSE "preferences"

(* select_for_principal asks for the name in lower case when the name as   *)
(* it is spelled has no card.                                              *)
ReadPrincipal ==
    /\ Reading("principal")
    /\ hits' = EntityMemories(todo[1])
    /\ stage' = IF hits' = <<>> /\ LowerAll(todo[1]) # todo[1] THEN "principal_lower" ELSE "scan"
    /\ UNCHANGED todo

ReadPrincipalLower ==
    /\ Reading("principal_lower")
    /\ hits' = EntityMemories(LowerAll(todo[1]))
    /\ stage' = "scan"
    /\ UNCHANGED todo

(* The cards of every entity that contains the name, and then the names    *)
(* the relationships among all of these lead to.                           *)
ScanAll ==
    /\ Reading("scan")
    /\ hits' = AddNew(hits, Chosen(graph, {c \in ToSet(graph) :
                                ContainsWord(LowerAll(c.entity), LowerAll(todo[1]))}))
    /\ LET rels == Chosen(hits', {c \in ToSet(hits') : c.kind = "rel"}) IN
          /\ todo' = [i \in DOMAIN rels |-> rels[i].value]
          /\ stage' = IF rels = <<>> THEN "rank" ELSE "related"

(* Mutant of ReadRelated: a related name is looked up as it is spelled     *)
(* and in no other way.                                                    *)
ReadRelatedAsSpelled ==
    /\ Reading("related")
    /\ hits' = AddNew(hits, EntityMemories(todo[1]))
    /\ todo' = Tail(todo)
    /\ stage' = IF Len(todo) = 1 THEN "rank" ELSE "related"

(* Mutant of ReadRelated: it goes on behind the last name.                 *)
ReadRelatedPastTheLast ==
    /\ Reading("related")
    /\ IF EntityMemories(todo[1]) = <<>> /\ LowerAll(todo[1]) # todo[1]
       THEN stage' = "related_lower" /\ UNCHANGED <<hits, todo>>
       ELSE /\ hits' = AddNew(hits, EntityMemories(todo[1]))
            /\ todo' = Tail(todo)
            /\ UNCHANGED stage

(* related_entity_memories, for the next name.                             *)
ReadRelated ==
    /\ Reading("related")
    /\ IF EntityMemories(todo[1]) = <<>> /\ LowerAll(todo[1]) # todo[1]
       THEN stage' = "related_lower" /\ UNCHANGED <<hits, todo>>
       ELSE /\ hits' = AddNew(hits, EntityMemories(todo[1]))
            /\ todo' = Tail(todo)
            /\ stage' = IF Len(todo) = 1 THEN "rank" ELSE "related"

ReadRelatedLower ==
    /\ Reading("related_lower")
    /\ hits' = AddNew(hits, EntityMemories(LowerAll(todo[1])))
    /\ todo' = Tail(todo)
    /\ stage' = IF Len(todo) = 1 THEN "rank" ELSE "related"

(* select sorts what it found by age; top_n ranks it and cuts it off.      *)
(* (\E x \in {e} names a value that TLC is to compute once.)               *)
Rank ==
    /\ stage = "rank"
    /\ \E cards \in {ByRecency(hits)} : \E keys \in {RankKeys(LowerAll(ask.query), cards)} :
          reply' = SubSeq(SortBy(cards, keys), 1, IF Len(hits) < Limit THEN Len(hits) ELSE Limit)
    /\ stage' = "idle"
    /\ UNCHANGED <<ask, hits, todo, before, asked>>

Select ==
    \/ SelectEntityMentions \/ SelectRecent \/ SelectPreferences
    \/ ReadPrincipal \/ ReadPrincipalLower \/ ScanAll \/ ReadRelated \/ ReadRelatedLower
    \/ ReadFails \/ Rank

------------------------------------------------------------------------------
Answered == stage = "idle" /\ reply # <<>>

(* "Slot / kind / value matches beat recency, while recency remains a      *)
(* tie-breaker ... without letting the newest card dominate unrelated      *)
(* questions" (README): a card whose slot answers the question is neither  *)
(* behind nor cut off for a card that has nothing to do with it, however   *)
(* new that is, and cards of one relevance come newest first.              *)
RankedByRelevance ==
    LET query == LowerAll(ask.query)
        unrelated(c) == ~CardMatches(query, c) /\ ~SlotIntent(query, c)
                          /\ ~TermsMatch(query, <<c.slot>>) /\ ~TermsMatch(query, LowerAll(c.value))
    IN  Answered =>
            /\ \A i, j \in DOMAIN reply : i < j =>
                  /\ unrelated(reply[i]) => ~SlotIntent(query, reply[j])
                  /\ CardRelevanceScore(query, reply[i]) = CardRelevanceScore(query, reply[j]) =>
                        reply[i].at >= reply[j].at
            /\ \A c \in ToSet(hits) \ ToSet(reply), d \in ToSet(reply) :
                  SlotIntent(query, c) => ~unrelated(d)

(* A selection for a principal is put together from several reads, and     *)
(* returns no card twice that the graph does not hold twice, whatever is   *)
(* written in between.  (What its first read returns is not looked through *)
(* for equal cards.)                                                       *)
EachOnce(cards) == \A i, j \in DOMAIN cards : i # j => ~SameCard(cards[i], cards[j])

NoCardTwice ==
    Answered /\ ask.by = "principal" /\ EachOnce(graph) => EachOnce(reply)

(* The cards a selection for a principal is about: those of an entity that *)
(* contains the name, and of the entities its relationships name.          *)
About(cards, name) ==
    LET own == {c \in cards : ContainsWord(LowerAll(c.entity), LowerAll(name))}
        names == {LowerAll(c.value) : c \in {c \in own : c.kind = "rel"}}
    IN  {c \in cards : c \in own \/ LowerAll(c.entity) \in names}

(* Entities are spelled in one way, or the graph does not regard it.       *)
OneSpelling == Folded \/ \A c \in ToSet(graph) : c.entity = LowerAll(c.entity)

(* Cards that same_card takes for one card are of one kind.                *)
OneKind ==
    \A c, d \in ToSet(graph) : SameCard(c, d) => c.kind = d.kind

(* "The worst case is missing a card that lands mid-selection" (comment of *)
(* select): whatever is written during the selection, it misses no card    *)
(* that was there when it began.                                           *)
NothingOlderIsMissed ==
    /\ Answered \/ stage = "rank"
    /\ ask.by = "principal"
    /\ OneSpelling
    /\ OneKind
    => \A c \in About(ToSet(SubSeq(graph, 1, before)), ask.names[1]) :
          \E i \in DOMAIN hits : SameCard(hits[i], c)
==============================================================================
