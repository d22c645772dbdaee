\* Three consumers come and go while a message is dispatched four times.
SPECIFICATION Spec
CONSTANTS
    Consumers = {c1, c2, c3}
    Topics = {"orders"}
    Groups = {"workers"}
    NoGroup = ""
    Keys = {k1}
    ChanCap = 1
    MaxCalls = 4
CHECK_DEADLOCK FALSE
SYMMETRY ConsumerSymmetry
INVARIANTS IndexesAgree RoundRobinFair OutstandingIsTracked
