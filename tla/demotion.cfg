SPECIFICATION Spec
CONSTANTS
    Tasks = {t1, t2}
    Conversations = {c1}
    A = A
    B = B
    Texts = {A, B}
    Blank = Blank
    NoText = NoText
    NoCall = NoCall
    Messages <- MCMessages
    TextOf <- MCTextOf
    Batches <- MCBatches
    CommitEachTurn = TRUE
    Faults = {"put", "commit", "panic"}
    Sidecar = "clean"
    Graceful = FALSE
    MaxRestarts = 1
SYMMETRY Symmetry
INVARIANTS
    TypeOK
    EvictedIsDurable
    DedupIsWritten
    DemotionInv
PROPERTY AtLeastOnceSpec
