SPECIFICATION FairSpec
CONSTANTS
    plain = plain
    secret = secret
    mine = mine
    Junk = Junk
    Files <- MCFiles
    Keywords <- MCKeywords
    UserPaths <- MCUserPaths
    DefaultKeywords <- MCKeywords
    DefaultMaxFiles = 2
    Contains <- MCContains
    Under <- MCUnder
    Plans <- MCPlans
    Reviews <- MCReviews
    StaleDecisions = {"allow_next_iteration"}
    PolicyFiles <- MCPolicyFiles
    MaxTargetCommands = 2
    MaxRuntimeCommands = 2
    Deletable = {"summary.md"}
INVARIANTS TypeOK AllowIsEarned HardFailureBlocks ReportsAgree
PROPERTIES NoEarlyVerdict CallEnds ImplementsIterationGate
CHECK_DEADLOCK FALSE
