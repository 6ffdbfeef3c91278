CONSTANTS
    SIZE = 2
    WinValue = 8
    MAX_SCORE = 10000000
    OldGames <- MCOldGames
    MaxMoves = 8
    MaxNew = 1
    MaxLost = 1
SPECIFICATION FairGameSpec
INVARIANTS
    GameTypeOK
    CollapseIsByRuns
    OverMeansStuck
    SavedIsWhatWasLeft
PROPERTIES
    FinishedGamesCount
CHECK_DEADLOCK FALSE
