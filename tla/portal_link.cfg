SPECIFICATION Spec
CONSTANTS
    Channel = {1, 2}
    MaxEvents = 1
    MaxCrashes = 1
INVARIANTS
    TypeOK
    PortalKnowsDevices
PROPERTIES
    Forwarded
CHECK_DEADLOCK FALSE
