CONSTANTS
    g = g
    v = v
    Validators = {g, v}
    Genesis = {g}
    Subjects = {v}
    Heights = {1}
    Hashes = {A, B}
    MinValidators = 1
    MaxValidators = 2
    MinDuration = 1
    MaxDuration = 2
    FeePerTick = 1
    InitialBalance <- MCBalance
    ExitDelay = 1
    SuspensionTicks <- MCTicks
    MaxAge = 1
    MaxTime = 3
    MaxSlashes = 2
    MaxRestarts = 1
    None = None
    NoAccount = NoAccount
SPECIFICATION FairSpec
INVARIANTS TypeOK StoresAgree
PROPERTIES SuspensionServed RegisteredReleased
