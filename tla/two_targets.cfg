\* One source, two targets, one failing write.
SPECIFICATION ControllersSpec
CONSTANTS
    Namespace = {"src", "app", "web"}
    Pattern = {"*", "src", "app", "web", "["}
    Star = "*"
    Malformed = {"["}
    Hits <- MCHits
    Kind = {"Secret"}
    Name = {"n"}
    NoID = NoID
    Template = {}
    Rule = {}
    Manifest <- TwoTargets
    Volatile = {}
    Budget <- FailedWrites
    MaxRevision = 100
    Worker <- AllWorkers
    Request <- AllWorkers
    Ptr = {1, 2, 3, 4, 5, 6}
INVARIANTS
    FaultsContained
    Converging
CHECK_DEADLOCK FALSE
