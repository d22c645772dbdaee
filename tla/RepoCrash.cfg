\* One publish stream, crashes and restarts, buckets of 2ms.
SPECIFICATION Spec
CONSTANTS
    WordMod = 16
    Producers = {p1}
    Topics = {"orders", "mails"}
    TopicHash <- MCTopicHash
    BucketMs = 2
    Times = {0, 1, 2}
    Delays = {0, 3}
    MaxMessages = 3
    MaxCrashes = 2
INVARIANTS NoOverwrite CounterCoversStore DueScanOnTime
