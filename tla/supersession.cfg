SPECIFICATION Spec
CONSTANTS
    F = F
    G = G
    MaxLen = 4
    Facts = {F, G}
    Inputs <- MCInputs
    NoKey = NoKey
    NoRecency = NoRecency
    Vacant = Vacant
INVARIANTS
    TypeOK
    SurvivorIsNewest
    KeptMatchesReference
    RolesSupersedeAlone
    EachCandidateOnce
    SupersessionInv
CHECK_DEADLOCK FALSE
