SPECIFICATION CPFairSpec
CONSTANTS
    CPOperators = {o1}
    Restarter = auto
    None = none
    MaxBoxes = 3
    MaxCPOps = 2
    MaxFaults = 1
 
PROPERTIES SparesLiving  DeadHealed MachinesImplementCycles
CHECK_DEADLOCK FALSE
