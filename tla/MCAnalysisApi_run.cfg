SPECIFICATION FairApiSpec
CONSTANTS
    NoPlan = NoPlan
    Findings = {}
    Rules = {r1}
    RuleOf <- MCRuleOf
    Docs = {}
    Covers <- MCCovers
    Unsound = {}
    MaxClaims = 1
    Texts <- NoTexts
INVARIANTS
    ReplicaAgrees
    ClosedStreamIsWhole
    EndIsConsistent
PROPERTY StreamCloses
CHECK_DEADLOCK FALSE
