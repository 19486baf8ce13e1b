SPECIFICATION Spec
CONSTANTS
    Tasks = {t1, t2}
    Conversations = {c1}
    A = A
    B = B
    Texts = {A, B}
    Blank = Blank
    NoText = NoText
    None = None
    Requests <- MCRequests
    ConversationOf <- MCConversationOf
    Summaries <- MCSummaries
    CommitEachTurn = FALSE
    Faults = {"inner", "put", "commit", "panic"}
    Sidecar = "clean"
    Graceful = FALSE
    MaxRestarts = 1
SYMMETRY Symmetry
INVARIANTS
    TypeOK
    ReplacedIsWritten
    CompactorInv
