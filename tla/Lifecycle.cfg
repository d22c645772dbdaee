\* Two keys marked twice in all, one failing flush, one stream; with and without Raft.
SPECIFICATION FairSpec
CONSTANTS
    IDs = {k1, k2}
    MaxMarks = 2
    MaxErrors = 1
    Passes = {"dispatcher"}
CHECK_DEADLOCK FALSE
INVARIANTS TypeOK MarksInOrder ShutCtxIsSet StoreClosedQuietly AcksBeforeStopFlushed
PROPERTIES ImplementsDeleteQueue ShutdownTerminates
