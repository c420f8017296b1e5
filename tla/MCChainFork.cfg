CONSTANTS
    g = g
    p1 = p1
    p2 = p2
    f2 = f2
    m1 = m1
    m3 = m3
    o1 = o1
    o2 = o2
    o3 = o3
    Blocks = {g, p1, p2, f2, m1, m3, o1, o2, o3}
    Genesis = g
    OwnBlocks = {o1, o2, o3}
    Parent <- MCParent
    Height <- MCHeight
    PoBWeight <- MCWeight
    MaxFaults = 2
    None = None
SPECIFICATION Spec
PROPERTY HeavierForkAdopted
