SPECIFICATION FairAgentsSpec
CONSTANTS
    f1 = f1
    f2 = f2
    f3 = f3
    f4 = f4
    f5 = f5
    r1 = r1
    r2 = r2
    r3 = r3
    r4 = r4
    r5 = r5
    guide = guide
    config = config
    blog = blog
    other = other
    Findings <- MCFindings
    RuleOf <- MCRuleOf
    FindingLists <- MCFindingLists
    Catalog <- MCCatalog
    Sources <- MCSources
    Trusted <- MCTrusted
    Cites <- MCCites
    Snapshot <- MCSnapshot
    Live <- MCLive
    MaxRetries = 2
    TokenBudget = 5
    Selections <- MCSelections
    Interpretations <- MCInterpretations
INVARIANTS
    EvidenceIsGrounded
    SnapshotsSuffice
    CompletedIsWhole
PROPERTY AgentsEnd
CHECK_DEADLOCK FALSE
