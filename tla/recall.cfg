SPECIFICATION Spec
CONSTANTS
    Runs = {r1}
    Texts <- MCTexts
    Blank = Blank
    NoText = NoText
    Prompts <- MCPrompts
    Responses <- MCResponses
    Configs <- MCConfigs
    Faults = {"card"}
    MaxTurns = 2
    Principal = "Alice"
    PrincipalS = "Alice's"
    LowerOf <- MCLowerOf
    Utterance <- MCUtterance
    Stated <- MCStated
    OtherCards <- MCOtherCards
    MaxOthers = 1
    Folded = FALSE
    Asks <- MCAsks
    ShortWords <- MCShortWords
    MaxCards = 8
    MaxAsks = 1
CONSTRAINT Unanswered
INVARIANTS
    SelectionOK
    RankedByRelevance
    NoCardTwice
    NothingOlderIsMissed
    StatedIsRecalled
    CardsAreStated
CHECK_DEADLOCK FALSE
