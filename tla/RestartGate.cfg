CONSTANTS
    Triggers = {g1, g2}
    Manuals = {m1, m2}
    NoThread = NoThread
    MaxRequests = 3
    MaxPanics = 1
SPECIFICATION LiveSpec
INVARIANTS GateGuardsProvision AcceptedCovered CyclesEarned
PROPERTIES BootNeverRegresses RunnerEnds ImplementsCycles
