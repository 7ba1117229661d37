SPECIFICATION Spec
CONSTANTS
    Absent = Absent
    Garbage = Garbage
    maxNestedLevels = 2
    maxElements = 5
    GoValues <- MCGoValues
    Foreign <- MCForeign
CHECK_DEADLOCK FALSE
INVARIANTS
    OneReading
    SealedIsRead
    WalletAgrees
