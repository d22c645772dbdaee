\* A consumer rejects the message (with MaxFaults = 1: or disconnects with it).
SPECIFICATION Spec
CONSTANTS
    WordMod = 64
    IDs = {1}
    c1 = c1
    c2 = c2
    Consumers = {c1, c2}
    Topics = {"orders"}
    Groups = {"workers"}
    NoGroup = ""
    BucketMs = 1
    InFlightTimeout = 1
    ChanCap = 1
    Handshakes <- MCHandshakes
    Offers <- MCOffers
    MaxTime = 1
    MaxFaults = 0
PROPERTY ReturnedIsEligible
