CONSTANTS
    Row = {"r1", "r2"}
    Start = {"r1"}
    Field = {"f", "g"}
    Value = {0, 1, 2}
    First <- Zero
    Seed <- Zero
    Sent <- Bodies
    Rejected = {2}
    MaxRequests = 3
    MaxEdits = 3
    MaxWork = 5
SPECIFICATION Spec
CHECK_DEADLOCK FALSE
INVARIANT CreateFailureCompensated
