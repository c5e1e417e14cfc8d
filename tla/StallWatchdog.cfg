CONSTANTS
    StaleAfter = 4
    ProbeGrace = 1
    Cooldown = 10
    PhantomAfter = 4
    MaxUpsets = 3
SPECIFICATION Spec
PROPERTIES RestartsSpaced SilentSinceProbe AgentWasAsked HungRestarted
