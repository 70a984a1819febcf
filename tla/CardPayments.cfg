SPECIFICATION Spec
CONSTANTS
    Users = {"u1"}
    Orders = {"first", "second"}
    Buyer <- OneStudent
    Products = {"PACKAGE"}
    Channels = {"REDIRECT", "WEBHOOK"}
    PackageDays = 2
    MaxPolicy = 1
INVARIANTS OneCycleHoldsTheDeposit
PROPERTIES DaysAreUsedUp
CHECK_DEADLOCK FALSE
