\* The policy of the source is narrowed (or widened).
SPECIFICATION FairSpec
CONSTANTS
    Namespace = {"src", "app"}
    Pattern = {"*", "src", "app", "web", "["}
    Star = "*"
    Malformed = {"["}
    Hits <- MCHits
    Kind = {"Secret"}
    Name = {"n"}
    NoID = NoID
    Template = {}
    Rule = {}
    Manifest <- WidenedAndRevoked
    Volatile = {}
    Budget <- Changes
    MaxRevision = 100
    Worker <- AllWorkers
    Request <- AllWorkers
    Ptr = {1, 2, 3, 4, 5, 6}
INVARIANTS
    RevokedMirrorsGone
CHECK_DEADLOCK FALSE
