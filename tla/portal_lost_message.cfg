SPECIFICATION Spec
CONSTANTS
    Channel = {1, 2}
    MaxEvents = 1
    MaxCrashes = 0
PROPERTIES
    Reenqueued
CHECK_DEADLOCK FALSE
