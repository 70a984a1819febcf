SPECIFICATION LiveSpec
CONSTANTS
    Users = {"u1"}
    Orders = {"first"}
    Buyer <- OneStudent
    Products = {"PACKAGE", "MOCK"}
    Channels = {"REDIRECT", "REFRESH", "WEBHOOK"}
    PackageDays = 2
    MaxPolicy = 2
INVARIANTS TypeOK GrantedOnce PaidIsGranted
PROPERTIES CaptureIsGranted
CHECK_DEADLOCK FALSE
