SPECIFICATION Spec
CONSTANTS
    Runs = {r1, r2}
    A = A
    B = B
    Texts = {A, B}
    Blank = Blank
    NoText = NoText
    CardsOf <- MCCardsOf
    Prompts <- MCPrompts
    Responses <- MCResponses
    Configs <- MCConfigs
    Faults = {"put"}
    MaxTurns = 1
INVARIANT HaltEndsRun
CHECK_DEADLOCK FALSE
