SPECIFICATION FairSpec
CONSTANT MaxProcs = 3
PROPERTY EveryReadyRuns
CHECK_DEADLOCK FALSE
