SPECIFICATION Spec
CONSTANTS
    Clients <- MCClients
    Call <- MCCall
    Expressions <- MCExpressions
    Samples = {1, 3, 4}
    Width = 5
    Mantissa = 3
    MaxSamples = 3
    Faults = {"encode", "put", "commit", "panic"}
    MaxAttempts <- MCMaxAttempts
    MaxRestarts = 1
INVARIANTS
    TypeOK
    AckedIsDurable
    BatchesAreContiguous
    RefusesExactly
    ClausesAreApplied
    
PROPERTIES
    MemorySpec
CHECK_DEADLOCK FALSE
