CONSTANTS
    t1 = t1
    t2 = t2
    k1 = k1
    u1 = u1
    s1 = s1
    Messages = {t1, k1, u1}
    Unkeyed = {u1}
    Expiring = {k1}
    Schedules = {s1}
    TickOf <- MCTickOf
    NoKey = NoKey
    Callers = {c1}
    Drainers = {sweep, beat}
    Sweeper = sweep
    MaxAttempts = 2
    MaxCapacity = 1
    MaxRows = 2
    MaxFaults = 1
SPECIFICATION Spec
INVARIANTS ExclusiveClaim CapCountsCharges AckedAccounted
PROPERTY ImplementsLease
