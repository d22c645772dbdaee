\* A replica installs a snapshot and goes on with the log.
SPECIFICATION Spec
CONSTANTS
    WordMod = 16
    Replicas = {r1, r2}
    Slots <- OneSlot
    MaxItems = 1
    MaxLog = 2
    MaxSnapshots = 1
    MaxCrashes = 0
CHECK_DEADLOCK FALSE
INVARIANT IDsMonotonic
