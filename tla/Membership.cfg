\* Two founders, two joiners with two seeds each; one other request to join or leave, two crashes or timeouts.
SPECIFICATION FairSpec
CONSTANTS
    f1 = f1
    f2 = f2
    j1 = j1
    j2 = j2
    Founders = {f1, f2}
    Joiners = {j1, j2}
    Seeds = 2
    MaxStarts = 2
    MaxRequests = 1
    MaxFaults = 2
CHECK_DEADLOCK FALSE
INVARIANTS EventVotersAreInMetadata JoinedIsVoter LeftStaysOut
PROPERTY JoinersStart
