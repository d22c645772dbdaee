\* One message, two consumers, buckets of 1ms (the default), an in-flight timeout of 1.
SPECIFICATION FairSpec
CONSTANTS
    WordMod = 64
    IDs = {1}
    c1 = c1
    c2 = c2
    Consumers = {c1, c2}
    Topics = {"orders"}
    Groups = {"workers"}
    NoGroup = ""
    BucketMs = 1
    InFlightTimeout = 1
    ChanCap = 1
    Handshakes <- MCHandshakes
    Offers <- MCOffers
    MaxTime = 1
    MaxFaults = 1
INVARIANTS TypeOK NoLoss NeverEarly AckNotForgotten
PROPERTIES ImplementsQueue RedispatchAfterTimeout RedeliveredUntilRemoved SettledIsRemoved
