SPECIFICATION FairSpec
CONSTANTS
    MaxRetries = 5
INVARIANTS TypeOK GivesUpForAReason
PROPERTIES AnsweredOnce CallReturns ImplementsChatCall
CHECK_DEADLOCK FALSE
