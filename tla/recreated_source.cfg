\* One source, deleted and created again.
SPECIFICATION FairSpec
CONSTANTS
    Namespace = {"src", "app"}
    Pattern = {"*", "src", "app", "web", "["}
    Star = "*"
    Malformed = {"["}
    Hits <- MCHits
    Kind = {"Secret"}
    Name = {"n"}
    NoID = NoID
    Template = {}
    Rule = {}
    Manifest <- OneSecret
    Volatile = {}
    Budget <- Deletion
    MaxRevision = 100
    Worker <- AllWorkers
    Request <- AllWorkers
    Ptr = {1, 2, 3, 4, 5, 6}
INVARIANTS
    SyncedWhenQuiet
CHECK_DEADLOCK FALSE
