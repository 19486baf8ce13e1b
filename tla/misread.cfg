SPECIFICATION Spec
CONSTANTS
    Runs = {r1}
    Texts <- MCTextsOfTwo
    Blank = Blank
    NoText = NoText
    Prompts <- MCPrompts
    Responses <- MCResponses
    Configs <- MCConfigs
    Faults = {"card"}
    MaxTurns = 2
    Principal = "Alice"
    PrincipalS = "Alice's"
    LowerOf <- MCLowerOf
    Utterance <- MCUtteranceOfTwo
    Stated <- MCStatedOfTwo
    OtherCards <- MCOtherCards
    MaxOthers = 1
    Folded = TRUE
    Asks <- MCAsks
    ShortWords <- MCShortWords
    MaxCards = 8
    MaxAsks = 1
INVARIANT CardsAreExact
CHECK_DEADLOCK FALSE
