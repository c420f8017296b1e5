CONSTANTS
    a = a
    b = b
    p = p
    m = m
    n = n
    t1 = t1
    t2 = t2
    t3 = t3
    t4 = t4
    t5 = t5
    Accounts = {a, b, p, m, n}
    Txs = {t1, t2, t3, t4, t5}
    Tx <- MCTx
    Genesis <- MCGenesis
    Self = p
    Networks <- MCNetworks
    Rewarded <- MCRewarded
    Capacity = 3
    MaxNewAddressesPerBlock = 1
    InitialBlockReward = 40
    MinBlockReward = 1
    BlockRewardReduction = 39
    BlockReductionInterval = 2
    MaxHeight = 2
    MaxSubmissions = 3
    MaxCrashes = 1
    NoAccount = NoAccount
SPECIFICATION FairSpec
INVARIANTS TypeOK AppliedOnce OverdraftExplained ValueConserved
PROPERTIES PendingResolved
