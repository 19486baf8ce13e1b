SPECIFICATION Spec
CONSTANTS
    Tasks = {t1}
    Conversations = {c1}
    A = A
    B = B
    Texts = {A, B}
    Blank = Blank
    NoText = NoText
    None = None
    Requests <- MCRequests
    ConversationOf <- MCConversationOf
    Summaries <- MCSummaries
    CommitEachTurn = TRUE
    Faults = {"inner", "commit"}
    Sidecar = "clean"
    Graceful = TRUE
    MaxRestarts = 0
INVARIANT ReplacedIsDurable
