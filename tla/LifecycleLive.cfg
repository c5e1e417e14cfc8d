CONSTANTS
    Operators = {o1, o2}
    Senders = {}
    MaxOps = 2
    MaxFailures = 1
CHECK_DEADLOCK FALSE
SPECIFICATION LiveSpec
PROPERTIES  RemovedReaped DeadNoticed
