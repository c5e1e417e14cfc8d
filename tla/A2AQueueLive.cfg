CONSTANTS
    t1 = t1
    t2 = t2
    k1 = k1
    u1 = u1
    s1 = s1
    Messages = {k1, u1}
    Unkeyed = {u1}
    Expiring = {}
    Schedules = {s1}
    TickOf <- MCTickOf
    NoKey = NoKey
    Callers = {c1}
    Drainers = {sweep, beat}
    Sweeper = sweep
    MaxAttempts = 2
    MaxCapacity = 2
    MaxRows = 2
    MaxFaults = 0
SPECIFICATION LiveSpec
PROPERTY QueueDrains
