\* One source, one target, one failing write, one restart, one resync or
\* one event of the Certificate that names the source.
SPECIFICATION ControllersSpec
CONSTANTS
    Namespace = {"src", "app"}
    Pattern = {"*", "src", "app", "web", "["}
    Star = "*"
    Malformed = {"["}
    Hits <- MCHits
    Kind = {"Secret"}
    Name = {"n"}
    NoID = NoID
    Template = {}
    Rule = {}
    Manifest <- OneSecret
    Volatile = {}
    Budget <- FailureAndRestart
    MaxRevision = 100
    Worker <- WithCertificate
    Request <- WithCertificate
    Ptr = {1, 2, 3, 4, 5, 6}
PROPERTIES
    RestartHeals
CHECK_DEADLOCK FALSE
