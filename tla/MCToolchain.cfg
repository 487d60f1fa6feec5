SPECIFICATION Spec
CONSTANTS
    Junk = Junk
    Files <- MCFiles
    Rank <- MCRank
    PathOf <- MCPathOf
    PathRank <- MCPathRank
    HandlerFiles <- MCHandlerFiles
    DataAccessFiles <- MCDataAccessFiles
    BusinessFiles <- MCBusinessFiles
    NonProductFiles <- MCNonProductFiles
    UtilsParts <- MCUtilsParts
    UTILS_OVERUSE_THRESHOLD = 5
    UTILS_CONSUMER_PACKAGE_THRESHOLD = 3
    OVERSIZED_FILE_LINE_THRESHOLD = 500
    OVERSIZED_FILE_STRONG_LINE_THRESHOLD = 800
    OVERSIZED_CLASS_METHOD_THRESHOLD = 15
    OVERSIZED_CLASS_STRONG_METHOD_THRESHOLD = 25
    ImportedCallNames <- MCImportedCallNames
    HighConfidenceMethods <- MCHighConfidenceMethods
    LowConfidenceMethods <- MCLowConfidenceMethods
    RootNameHints <- MCRootNameHints
    GenericRootHints <- MCGenericRootHints
    MutationMethods <- MCMutationMethods
    SafeMethods <- MCSafeMethods
    IgnoredNames <- MCIgnoredNames
    Repositories <- MCRepositories
INVARIANTS FindsTheCycles StackInOrder LowlinksAreReached EdgesFollowImports
    HandlersAreCovered  MutationsAreSeen
PROPERTIES ToolchainEnds
CHECK_DEADLOCK FALSE
