CONSTANTS
    a = a
    p = p
    q = q
    Validators = {a, p, q}
    Self = p
    Orders <- MCOrders
    Stored <- MCStored
    Hashes = {0, 1}
    Scores = {4, 10}
    Values = 3
    RetargetWindow = 2
    TargetMinValidators = 2
    TargetMaxValidators = 2
    MaxHeight = 2
    MaxChanges = 1
    MaxCrashes = 1
SPECIFICATION FairSpec
INVARIANTS TypeOK OneWinner
PROPERTIES StandstillExplained
CHECK_DEADLOCK FALSE
