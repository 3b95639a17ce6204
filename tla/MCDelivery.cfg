SPECIFICATION DeliverySpec
CONSTANTS
    Regions = {"eu", "us"}
    Accounts = {"ours", "theirs"}
    Documents <- MCDocuments
    MaxStarts = 2
    MaxMishaps = 1
    Expected = "ours"
    Plans <- MCPlans
    Assigned <- MCAssigned
INVARIANTS NoNilSource NothingLeftBehind ProductionIsManaged PreflightPredicts
     
PROPERTY VouchedComesUp
CHECK_DEADLOCK FALSE
