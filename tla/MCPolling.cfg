SPECIFICATION FairSpec
CONSTANTS
    Off = Off
    None = None
    Coordinators <- MCCoordinators
    Interval <- MCInterval
    Headers <- MCHeaders
INVARIANTS
    WaitIsAsked
PROPERTIES
    PollingGoesOn
