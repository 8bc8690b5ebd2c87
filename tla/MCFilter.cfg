CONSTANTS
    Attr = {"s", "i", "b", "k"}
    Type <- TypeOf
    Foreign = {"k"}
    LeafOp = {"eq", "gt", "contains", "regexp", "empty"}
    Start <- Starts
    Addition <- Additions
    Limits <- ServerLimits
    MaxEdits = 4
    MaxFlight = 2
SPECIFICATION FilterSpec
INVARIANT ExecutedIsValid
INVARIANT FreshUnlessEdited
INVARIANT NestingBounded
CHECK_DEADLOCK FALSE
