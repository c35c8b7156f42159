SPECIFICATION Spec
CONSTANTS
    MaxClients = 3
    MaxDeaths = 2
INVARIANTS
    PlaysForTheOpenOne
    ClosedIsUnbound
PROPERTIES
    OpenIsStarted
CHECK_DEADLOCK FALSE
