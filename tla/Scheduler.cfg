SPECIFICATION CronFairSpec
CONSTANTS
    Schedules = {a, b}
    Periods = {2}
    Day = 2
    BatchLimit = 2
    FireSlots = 1
    PhantomThreshold = 1
    SweepEvery = 1
    SdkLimit = 2
    MaxLate = 1
    MaxMishaps = 1
PROPERTIES SlotFiredOnce 
