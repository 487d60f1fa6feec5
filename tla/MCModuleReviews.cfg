SPECIFICATION Spec
CONSTANTS
    Junk = Junk
    MaxDetailed = 2
    Repos <- MCRepos
    Findings <- MCFindings
    Histories <- MCHistories
    WeightFiles <- MCWeightFiles
    Answers <- MCAnswers
INVARIANTS RankedAlike NobodyIsPassedOver ModeTellsTheAuthor
CHECK_DEADLOCK FALSE
