SPECIFICATION Spec
CONSTANTS
    models = models
    views = views
    decorator = decorator
    import = import
    pattern = pattern
    Rules = {decorator, import, pattern}
    MatcherKind <- MCMatcherKind
    TextRules = {decorator, import}
    Exclusions = {decorator}
    MaxEvidence = 8
    RiskRules <- MCRiskRules
    Levels = {0, 3, 7}
    MaxPoints = 10
    Files = {models, views}
    Contents <- MCContents
    MaxRuns = 2
INVARIANT SnippetsAreExact
CHECK_DEADLOCK FALSE
