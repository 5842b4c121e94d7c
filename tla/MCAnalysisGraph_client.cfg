SPECIFICATION Spec
CONSTANTS
    f1 = f1
    f2 = f2
    d1 = d1
    d2 = d2
    r1 = r1
    r2 = r2
    NoPlan = NoPlan
    Findings = {f1, f2}
    Rules = {r1, r2}
    RuleOf <- MCRuleOf
    Docs = {d1, d2}
    Covers <- MCCovers
    Unsound = {d2}
    MaxClaims = 2
    Texts <- MCTexts
INVARIANTS
    TypeOK
    CourseIsSound
    ValidatedIsSound
PROPERTIES
    RepairAddsNoEvidence
    StructuralIsFinal
CHECK_DEADLOCK FALSE
