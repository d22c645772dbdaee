\* Two nodes, one of which may restart; two elections, membership changes, restarts or faults in all.
SPECIFICATION FairSpec
CONSTANTS
    A = A
    B = B
    Nodes = {A, B}
    Unstable = {B}
    NoNode = NoNode
    MaxChanges = 2
    SnapshotEntries = 2
    MaxLog = 3
CHECK_DEADLOCK FALSE
INVARIANTS StateIsOfLog OneLeaderPerTerm StartAdvertisesSelf
PROPERTY TopologyConverges
