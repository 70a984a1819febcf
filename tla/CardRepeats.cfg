SPECIFICATION Spec
CONSTANTS
    Users = {"u1"}
    Orders = {"first"}
    Buyer <- OneStudent
    Products = {"PACKAGE"}
    Channels = {"REDIRECT", "WEBHOOK"}
    PackageDays = 2
    MaxPolicy = 1
INVARIANT RepeatsAreAccepted
CHECK_DEADLOCK FALSE
