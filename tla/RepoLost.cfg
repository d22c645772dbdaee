\* Two publish streams commit out of order, then the process restarts.
SPECIFICATION Spec
CONSTANTS
    WordMod = 16
    Producers = {p1, p2}
    Topics = {"orders", "mails"}
    TopicHash <- MCTopicHash
    BucketMs = 1
    Times = {0}
    Delays = {0}
    MaxMessages = 3
    MaxCrashes = 1
INVARIANT NoOverwrite
