\* Buckets of 2ms: the message of a bucket that has begun is sent before it is due.
SPECIFICATION Spec
CONSTANTS
    WordMod = 64
    IDs = {1}
    c1 = c1
    c2 = c2
    Consumers = {c1, c2}
    Topics = {"orders"}
    Groups = {"workers"}
    NoGroup = ""
    BucketMs = 2
    InFlightTimeout = 1
    ChanCap = 1
    Handshakes <- MCHandshakes
    Offers <- MCOffers
    MaxTime = 1
    MaxFaults = 1
INVARIANT NeverEarly
