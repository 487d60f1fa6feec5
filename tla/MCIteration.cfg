SPECIFICATION IterationFairSpec
CONSTANTS
    plain = plain
    secret = secret
    Junk = Junk
    Files <- MCFiles
    Keywords <- MCKeywords
    UserPaths = {}
    DefaultKeywords <- MCKeywords
    DefaultMaxFiles = 2
    Contains <- MCContains
    Under <- MCUnder
    Plans <- MCPlans
    Reviews <- MCReviews
    StaleDecisions = {}
    PolicyFiles <- MCPolicyFiles
    MaxTargetCommands = 1
    MaxRuntimeCommands = 2
    Deletable = {"summary.md"}
    Inventories <- MCInventories
    LlmReviews <- MCLlmReviews
    MaxRuns = 2
INVARIANTS GatesSeeOwnOutputs ProtectedNeverAllowed
    ExitCodeMatchesReports NewestReportsBelongTogether
PROPERTIES EveryRunExits
CHECK_DEADLOCK FALSE
