\* One source, one deletion of the source or of the mirror, one edit of the
\* mirror, one target whose namespace is deleted and created again.
SPECIFICATION FairSpec
CONSTANTS
    Namespace = {"src", "app"}
    Pattern = {"*", "src", "app", "web", "["}
    Star = "*"
    Malformed = {"["}
    Hits <- MCHits
    Kind = {"Secret"}
    Name = {"n"}
    NoID = NoID
    Template = {}
    Rule = {}
    Manifest <- OneSecret
    Volatile = {"app"}
    Budget <- Lifecycle
    MaxRevision = 100
    Worker <- AllWorkers
    Request <- AllWorkers
    Ptr = {1, 2, 3, 4, 5, 6}
PROPERTIES
    EventuallyQuiet
CHECK_DEADLOCK FALSE
