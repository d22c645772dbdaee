\* Two replicas group the log differently, crash, and send and install one snapshot.
SPECIFICATION FairSpec
CONSTANTS
    WordMod = 16
    Replicas = {r1, r2}
    Slots <- OneSlot
    MaxItems = 2
    MaxLog = 3
    MaxSnapshots = 1
    MaxCrashes = 1
CHECK_DEADLOCK FALSE
INVARIANTS StoreIsLogPrefix NoEntrySkipped
PROPERTY CatchesUp
