SPECIFICATION FairSpec
CONSTANTS
    plain = plain
    other = other
    secret = secret
    foreign = foreign
    Junk = Junk
    Files <- MCFiles
    RepoFiles <- MCRepoFiles
    FileRank <- MCFileRank
    PlanWindow = 2
    Keywords <- MCKeywords
    UserPaths = {}
    DefaultKeywords = {}
    DefaultMaxFiles = 2
    Contains <- MCContains
    Under <- MCUnder
    FindingLists <- MCFindingLists
    Inventories <- MCInventories
    PolicyFiles <- MCPolicyFiles
    LlmVerdicts <- MCLlmVerdicts
    LlmPlans <- MCLlmPlans
    LlmReviews <- MCLlmReviews
INVARIANTS OneVerdictPerFinding ModeIsHonest RejectedNeverPlanned
    PlanStaysInside WorstFirst ModelCannotLiftReview OutageEqualsNoClient
PROPERTIES AnalysisEnds
CHECK_DEADLOCK FALSE
