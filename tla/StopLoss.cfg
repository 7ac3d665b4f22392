SPECIFICATION FairSpec
CONSTANTS
    Prices = {8, 10}
    Gap = 2
    Starts <- NoPositions
    MaxBuys = 1
    MaxFailures = 1
PROPERTIES LossesAreCut
CHECK_DEADLOCK FALSE
