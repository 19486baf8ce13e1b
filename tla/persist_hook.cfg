SPECIFICATION Spec
CONSTANTS
    Runs = {r1, r2}
    A = A
    B = B
    Texts = {A, B}
    Blank = Blank
    NoText = NoText
    CardsOf <- MCCardsOf
    Prompts <- MCPrompts
    Responses <- MCResponses
    Configs <- MCConfigs
    Faults = {"put", "card", "commit", "panic"}
    MaxTurns = 1
SYMMETRY Symmetry
INVARIANTS
    TypeOK
    ContinuedIsDurable
    CardCitesItsFrame
    HaltEndsRecordingRun
PROPERTIES
    MethodsAdvance
    MemorySpec
CHECK_DEADLOCK FALSE
