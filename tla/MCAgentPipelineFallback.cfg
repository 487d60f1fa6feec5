SPECIFICATION Spec
CONSTANTS
    plain = plain
    other = other
    secret = secret
    foreign = foreign
    Junk = Junk
    Files <- MCFiles
    RepoFiles <- MCRepoFiles
    FileRank <- MCFileRank
    PlanWindow = 2
    Keywords <- MCKeywords
    UserPaths = {}
    DefaultKeywords = {}
    DefaultMaxFiles = 2
    Contains <- MCContains
    Under <- MCUnder
    FindingLists <- MCFindingLists
    Inventories <- MCInventories
    PolicyFiles <- MCLoadable
    LlmVerdicts <- MCLlmVerdicts
    LlmPlans <- MCLlmPlans
    LlmReviews <- MCLlmReviews
INVARIANTS FailuresFallBack
CHECK_DEADLOCK FALSE
