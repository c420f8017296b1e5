CONSTANTS
    Testers = {t1}
    Pings = 2
    MaxChunks = 2
    ChunkUnits = 2
    Validators = {c, v1, v2, v3}
    Candidate = c
    CommitteeSize = 3
    MinValid = 2
SPECIFICATION FairTestsSpec
INVARIANTS UploadEarned
PROPERTIES TestsEnd
CHECK_DEADLOCK FALSE
