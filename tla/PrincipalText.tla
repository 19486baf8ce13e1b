---------------------------- MODULE PrincipalText ----------------------------
(***************************************************************************)
(* What MemvidPersistHook::write does to the text of a user turn when a    *)
(* principal is set (hook.rs): bind_principal puts the principal in the    *)
(* place of first-person words, and supplemental_memory_cards extracts     *)
(* facts from the result by a few phrases.                                 *)
(*                                                                         *)
(* A text is a sequence of tokens between white space.  A token is a word  *)
(* (letters, digits and apostrophes) with the marks before and after it;   *)
(* nl says that a line break, not a space, stands before it.  Marks have   *)
(* names: "quote", "fence" (three backticks), "comma", and "stop" for each *)
(* of . ! ? ;  Where the code searches for the position of a character,    *)
(* the model searches for that of a token.  Marks inside a value, and      *)
(* words that merely begin with a word of a phrase, are left out.          *)
(***************************************************************************)
EXTENDS Words

CONSTANTS
    Principal,     \* MemoryConfig::principal, a word
    PrincipalS     \* its possessive

Plain(word) == [pre |-> <<>>, word |-> word, post |-> <<>>, nl |-> FALSE]

Core(text, i) == IF i \in 1..Len(text) THEN Lower(text[i].word) ELSE ""

------------------------------------------------------------------------------
(* bind_principal.                                                         *)

Verb(core) ==
    CASE core = "am" -> "is"       [] core = "have" -> "has"   [] core = "like" -> "likes"
      [] core = "live" -> "lives"  [] core = "work" -> "works" [] core = "love" -> "loves"
      [] core = "hate" -> "hates"  [] core = "want" -> "wants" [] core = "need" -> "needs"
      [] core = "grew" -> "grew"   [] core = "prefer" -> "prefers"
      [] core = "dislike" -> "dislikes"
      [] OTHER -> ""

(* Mutant of Replacement: "my" and "mine" are no longer replaced.          *)
ReplacementOfSubjects(core) ==
    CASE core \in {"i", "me", "myself"} -> <<Principal>>
      [] core \in {"i'm", "im"}         -> <<Principal, "is">>
      [] OTHER                          -> <<>>

Replacement(core) ==
    CASE core \in {"i", "me", "myself"} -> <<Principal>>
      [] core \in {"my", "mine"}        -> <<PrincipalS>>
      [] core \in {"i'm", "im"}         -> <<Principal, "is">>
      [] core \in {"i've", "ive"}       -> <<Principal, "has">>
      [] core \in {"i'd", "id"}         -> <<Principal, "would">>
      [] core \in {"i'll", "ill"}       -> <<Principal, "will">>
      [] OTHER                          -> <<>>

(* Words in the place of a token keep the marks after it, not those before. *)
InPlaceOf(words, token) ==
    [i \in DOMAIN words |->
        [Plain(words[i]) EXCEPT !.post = IF i = Len(words) THEN token.post ELSE <<>>]]

Kept(token) == <<[token EXCEPT !.nl = FALSE]>>

BindToken(token) ==
    LET words == Replacement(Lower(token.word)) IN
    IF words = <<>> THEN Kept(token) ELSE InPlaceOf(words, token)

(* The loop over the tokens; the output is joined by single spaces.        *)
BindTokens(text) ==
    LET verbAt(i) == Verb(Core(text, i))
        bound(i) == InPlaceOf(<<verbAt(i)>>, text[i])
        from[i \in 1..Len(text) + 3] ==
            IF i > Len(text) THEN <<>>
            ELSE IF Core(text, i) # "i" THEN BindToken(text[i]) \o from[i + 1]
            ELSE IF Core(text, i + 1) = "really" THEN
                <<Plain(Principal)>> \o Kept(text[i + 1]) \o
                    (IF verbAt(i + 2) = "" THEN from[i + 2] ELSE bound(i + 2) \o from[i + 3])
            ELSE IF verbAt(i + 1) # "" THEN
                <<Plain(Principal)>> \o bound(i + 1) \o from[i + 2]
            ELSE Kept(text[i]) \o from[i + 1]
    IN  from[1]

Quotes(marks) == Len(SelectSeq(marks, LAMBDA m : m = "quote"))

(* The quotes of a text up to its i-th word.                               *)
QuotesBefore(text, i) ==
    FoldLeft(LAMBDA n, token : n + Quotes(token.pre) + Quotes(token.post), 0, SubSeq(text, 1, i - 1))
        + (IF i > Len(text) THEN 0 ELSE Quotes(text[i].pre))

QuotedSpanContainsFirstPerson(text) ==
    \E i \in DOMAIN text :
        /\ text[i].word = "I"
        /\ QuotesBefore(text, i) % 2 = 1
        /\ QuotesBefore(text, i) < QuotesBefore(text, Len(text) + 1)

HasCodeFence(text) ==
    \E i \in DOMAIN text : "fence" \in ToSet(text[i].pre) \cup ToSet(text[i].post)

(* Whether words and a space stand at position i, with only spaces and no  *)
(* marks between them; and whether a space stands before them.             *)
Phrase(text, i, words) ==
    LET end == i + Len(words) IN
    /\ end <= Len(text)
    /\ \A k \in DOMAIN words : Core(text, i + k - 1) = words[k] /\ text[i + k - 1].post = <<>>
    /\ \A k \in i + 1..end : ~text[k].nl /\ (k < end => text[k].pre = <<>>)

BehindSpace(text, i) == i > 1 /\ text[i].pre = <<>> /\ ~text[i].nl

NamePrefix == <<"my", "name", "is", Lower(Principal), "and", "i">>

BindPrincipal(text) ==
    IF HasCodeFence(text) \/ QuotedSpanContainsFirstPerson(text) THEN text
    ELSE IF text[1].pre = <<>> /\ Phrase(text, 1, NamePrefix)
         THEN BindTokens(SubSeq(text, Len(NamePrefix), Len(text)))
    ELSE BindTokens(text)

------------------------------------------------------------------------------
(* supplemental_memory_cards, on the text write has stored.                *)

Ends(text, i, delimiters) ==
    ToSet(text[i].post) \cap delimiters # {}

(* The words from position i to the first delimiter; a line break is one.  *)
Clause(text, i, delimiters) ==
    LET last == CHOOSE j \in i..Len(text) :
                    /\ j = Len(text) \/ Ends(text, j, delimiters) \/ text[j + 1].nl
                    /\ \A k \in i..j - 1 : ~Ends(text, k, delimiters) /\ ~text[k + 1].nl
    IN  SubSeq(text, i, last)

WordsOf(tokens) == [i \in DOMAIN tokens |-> tokens[i].word]

CorpSuffixes == {"incorporated", "corporation", "company", "limited", "inc", "corp", "llc", "ltd", "co"}

CleanClause(tokens) ==
    IF Len(tokens) > 1 /\ Lower(tokens[Len(tokens)].word) \in CorpSuffixes
    THEN Front(tokens) ELSE tokens

CleanTitle(words) == IF Len(words) > 1 /\ words[1] = "the" THEN Tail(words) ELSE words

(* Where text goes on behind the first of a phrase; {} if it has none.     *)
(* inside says that a space must stand before the phrase.                  *)
Behind(text, phrase, inside) ==
    LET at == {i \in 1..Len(text) : Phrase(text, i, phrase) /\ (inside => BehindSpace(text, i))}
    IN  IF at = {} THEN {} ELSE {(CHOOSE i \in at : \A j \in at : i <= j) + Len(phrase)}

(* The first of several phrases that the text has, in order of preference. *)
FirstOf(positions) ==
    FoldLeft(LAMBDA found, next : IF found = {} THEN next ELSE found, {}, positions)

AllergyValue(text) ==
    {WordsOf(Clause(text, i, {"stop", "comma"})) :
        i \in FirstOf(<<Behind(text, <<"allergic", "to">>, TRUE), Behind(text, <<"allergy", "to">>, TRUE),
                        Behind(text, <<"cannot", "have">>, TRUE), Behind(text, <<"can't", "have">>, TRUE)>>)}

ManagerOf == <<"is", Lower(PrincipalS)>>

(* last_name of what stands before "is P's manager".                       *)
ManagerSubject(text) ==
    LET at == {i \in 1..Len(text) - 2 :
                  /\ BehindSpace(text, i) /\ Phrase(text, i, ManagerOf)
                  /\ Core(text, i + 2) = "manager" /\ text[i + 2].pre = <<>>}
    IN  IF at = {} THEN {} ELSE {text[(CHOOSE i \in at : \A j \in at : i <= j) - 1].word}

ManagerEmployer(text) ==
    {WordsOf(CleanClause(Clause(text, i, {"stop", "comma"}))) :
        i \in Behind(text, ManagerOf \o <<"manager", "at">>, TRUE)}

(* reports_to: the sentence behind the phrase, and its part before the     *)
(* first comma.                                                            *)
ReportsTo(text, subject) ==
    {CleanClause(Clause(text, i, {"stop"})) :
        i \in FirstOf(<<Behind(text, <<Lower(subject), "reports", "to">>, FALSE),
                        Behind(text, <<"he", "reports", "to">>, TRUE),
                        Behind(text, <<"she", "reports", "to">>, TRUE)>>)}

(* Mutant of BeforeComma: the title is taken for a part of the name.        *)
WholeSentence(sentence) == WordsOf(sentence)

BeforeComma(sentence) == WordsOf(Clause(sentence, 1, {"comma"}))

AfterComma(sentence) ==
    CleanTitle(SubSeq(WordsOf(sentence), Len(BeforeComma(sentence)) + 1, Len(sentence)))

Fact(kind, entity, slot, value) ==
    [kind |-> kind, entity |-> LowerAll(entity), slot |-> slot, value |-> value]

ProfileCards(text) ==
    {Fact("profile", <<Principal>>, "allergy", value) : value \in AllergyValue(text)}

RelationshipCards(text) ==
    UNION {
        {Fact("rel", <<Principal>>, "manager", <<m>>)}
          \cup {Fact("fact", <<m>>, "employer", e) : e \in ManagerEmployer(text)}
          \cup UNION {
              {Fact("rel", <<m>>, "reports_to", BeforeComma(s))}
                \cup (IF AfterComma(s) = <<>> THEN {}
                      ELSE {Fact("profile", BeforeComma(s), "title", AfterComma(s))}) :
              s \in ReportsTo(text, m)} :
        m \in ManagerSubject(text)}

(* The cards in the order in which write inserts them, one of a slot.      *)
SlotOrder == <<"allergy", "manager", "employer", "reports_to", "title">>

SupplementalMemoryCards(text) ==
    LET cards == ProfileCards(text) \cup RelationshipCards(text)
        slots == Chosen(SlotOrder, {c.slot : c \in cards})
    IN  [i \in DOMAIN slots |-> CHOOSE c \in cards : c.slot = slots[i]]
==============================================================================
