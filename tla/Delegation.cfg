SPECIFICATION FairSpec
CONSTANTS
    Delegations = {d1, d2}
    NoDelegation = none
    Handlers = {h1, h2}
    MaxReports = 1
    MaxCrashes = 1
   
PROPERTY LedgerSettles
CHECK_DEADLOCK FALSE
