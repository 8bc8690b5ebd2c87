CONSTANTS
    d1 = d1
    d2 = d2
    Dest = {d1, d2}
    NoDest = NoDest
    Baseline <- BaselineOf
    Columns <- ColumnsOf
    Record = {1, 2, 3}
    Value <- ValueOf
    Kind <- KindOf
    SortAttr = {"n"}
    QuickInput <- Inputs
    ExecPred <- ExecPreds
    PerPage = {1, 2}
    DefaultPerPage = 1
    MinWidth = 1
    Width = {0}
    MaxUse <- Bounds
    MaxAll = 4
SPECIFICATION Spec
INVARIANT RowsOfThisList
INVARIANT ShownIsAsked
INVARIANT BusyExplained
PROPERTY ReorderLands
CHECK_DEADLOCK FALSE
