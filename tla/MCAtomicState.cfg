CONSTANTS
    a = a
    b = b
    d = d
    e = e
    t1 = t1
    t2 = t2
    t3 = t3
    t4 = t4
    t5 = t5
    t6 = t6
    Clients = {c1, c2}
    Accounts = {a, b, d, e}
    Txs = {t1, t2, t3, t4, t5, t6}
    Tx <- MCTx
    Genesis <- MCGenesis
    MaxBalance = 3
    None = None
SPECIFICATION Spec
INVARIANTS TypeOK MemoryFollowsDisk
PROPERTIES Atomicity
