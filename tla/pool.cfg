SPECIFICATION FairSpec
CONSTANTS
    Slots = {s1, s2, s3, s4}
    None = None
    Capacity = 2
    Timeout = 3
INVARIANTS TypeOK HoldersAreDone
PROPERTIES Answered ConnectionsReturn
