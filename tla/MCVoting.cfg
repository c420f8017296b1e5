CONSTANTS
    v1 = v1
    v2 = v2
    v3 = v3
    b1 = b1
    b2 = b2
    Validators = {v1, v2, v3}
    Self = v1
    Blocks = {b1}
    Churn = {v3}
    Height <- MCHeight
    LegacyVotes <- MCLegacy
    VotingPhase = 1
    MaxAges = {1}
    MaxTime = 2
    MaxCrashes = 2
    NoSession = NoSession
    NoBlock = NoBlock
SPECIFICATION Spec
INVARIANTS TypeOK ReplayShield MarkedHasQuorum
PROPERTIES NoReplay ClosedSessionsFrozen
