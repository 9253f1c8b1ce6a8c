SPECIFICATION FairSpec
CONSTANTS
    None = None
    Files = {f1, f2}
    MaxCalls = 3
    MaxWorkers = 3
INVARIANTS
    TypeOK
    AnswersOwnText
    NoStrayProcess
    LatestWins
PROPERTIES
    EveryLintSettles
