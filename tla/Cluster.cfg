\* Two nodes, one message, one client, and one failover, restart or proposal given up.
SPECIFICATION FairSpec
CONSTANTS
    Nodes = {n1, n2}
    Messages = {m1}
    Batches = {{m1}}
    NoNode = none
    Clients = 1
    MinAckLevel = "none"
    MaxFaults = 1
    MaxLag = 1
INVARIANTS TypeOK AckedPublishIsCommitted DeliveredIsCommitted
PROPERTIES ImplementsQueue MarkedIsRemoved RedeliveredAfterFailover
