CONSTANTS
    MaxHeight = 3
    MaxRequests = 1
    BatchSize = 2
    Lag = 1
    Writers = {"producer", "handler"}
    Kind <- MCKind
    Nothing = Nothing
SPECIFICATION SyncSpec
INVARIANTS SyncTypeOK AncestorsStored SyncEnds
