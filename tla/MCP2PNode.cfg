CONSTANTS
    Peers = {p}
    Self = self
    Streams = {s1, s2}
    MaxChallenges = 2
    AuthTimeout = 1
    ChallengeTTL = 1
    Burst = 2
    Refill = 1
    MaxBytes = 1
    RequestViolations = 3
    ByteViolations = 2
    LongBan = 2
    ShortBan = 1
    IdleLimit = 2
    Sizes = {1, 2}
    Txs = {t}
    Fetchers = {f}
    NoTx = NoTx
    None = None
SPECIFICATION FairSpec
INVARIANTS TypeOK RateHeld OncePerStay
PROPERTIES BanHolds FailedFetchForgotten
