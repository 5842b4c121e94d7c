SPECIFICATION Spec
CONSTANTS
    Analyses = {a1, a2}
    Nodes = {docs, tests}
    Researcher = docs
    Tool = Tool
    Reporter = Reporter
    Attempts = 2
    NoSession = NoSession
    NoReport = NoReport
    MaxInPlay = 4
SYMMETRY Interchangeable
CONSTRAINT FewRuns
INVARIANTS
    GaugeCountsRuns
    ReportTellsOutage
    SubmittedIsWhole
CHECK_DEADLOCK FALSE
