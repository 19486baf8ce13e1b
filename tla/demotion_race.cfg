SPECIFICATION Spec
CONSTANTS
    Tasks = {t1, t2}
    Conversations = {c1}
    A = A
    B = B
    Texts = {A, B}
    Blank = Blank
    NoText = NoText
    NoCall = NoCall
    Messages <- MCMessages
    TextOf <- MCTextOf
    Batches <- MCBatches
    CommitEachTurn = TRUE
    Faults = {}
    Sidecar = "none"
    Graceful = TRUE
    MaxRestarts = 0
INVARIANT OneFrameEach
