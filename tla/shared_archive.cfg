SPECIFICATION FairSpec
CONSTANTS
    Demoter = demoter
    Compactor = compactor
    Conversations = {c1}
    A = A
    B = B
    S = S
    Texts = {A, B}
    SummaryTexts = {S}
    Blank = Blank
    NoText = NoText
    NoCall = NoCall
    None = None
    Messages <- MCMessages
    TextOf <- MCTextOf
    Batches <- MCBatches
    Requests <- MCRequests
    ConversationOf <- MCConversationOf
    Summaries <- MCSummaries
    CommitEachTurn = TRUE
    Faults = {"inner", "put", "commit"}
    Sidecar = "clean"
    Graceful = TRUE
    MaxRestarts = 1
INVARIANTS
    TypeOK
    OneFrameEach
    ReplacedUnlessCommitFailed
    SharedInv
PROPERTIES
    OnceOnlySpec
    EveryBatchIsEvicted
    EveryRequestIsAnswered
