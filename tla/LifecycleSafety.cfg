CONSTANTS
    Operators = {o1}
    Senders = {s1}
    MaxOps = 3
    MaxFailures = 0
CHECK_DEADLOCK FALSE
SPECIFICATION Spec
PROPERTIES OnlyInFlightResurrects LifecycleImplementsCycles
