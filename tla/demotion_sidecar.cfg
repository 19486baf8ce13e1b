SPECIFICATION Spec
CONSTANTS
    Tasks = {t1}
    Conversations = {c1}
    A = A
    B = B
    Texts = {A, B}
    Blank = Blank
    NoText = NoText
    NoCall = NoCall
    Messages <- MCMessages
    TextOf <- MCTextOf
    Batches <- MCBatches
    CommitEachTurn = TRUE
    Faults = {"commit"}
    Sidecar = "always"
    Graceful = TRUE
    MaxRestarts = 1
INVARIANT EvictedIsDurable
