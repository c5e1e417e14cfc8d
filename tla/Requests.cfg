CONSTANTS
    Reqs = {r1}
    Handlers = {h1, h2}
    StaleAfter = 0
    RenudgeAfter = 2
    Hour = 2
    Horizon = 1
    MaxTime = 4
    MaxOps = 3
    MaxFaults = 1
CHECK_DEADLOCK FALSE
SPECIFICATION FairSpec
INVARIANT ToldTheTruth
PROPERTIES NudgesSpaced 
