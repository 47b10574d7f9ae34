\* Two manifests out of eight, in any order. Two sources of one target may
\* overwrite each other without end: MaxRevision cuts that off.
SPECIFICATION ControllersSpec
CONSTANTS
    Namespace = {"src", "app", "web"}
    Pattern = {"*", "src", "app", "web", "["}
    Star = "*"
    Malformed = {"["}
    Hits <- MCHits
    Kind = {"Secret", "ConfigMap"}
    Name = {"n"}
    NoID = NoID
    Template = {}
    Rule = {}
    Manifest <- EveryRole
    Volatile = {}
    Budget <- ChangesAndExpiry
    MaxRevision = 8
    Worker <- AllWorkers
    Request <- AllWorkers
    Ptr = {1, 2, 3, 4, 5, 6}
INVARIANTS
    TypeOK
    RegistryAgrees
    CopiesHaveReasons
PROPERTIES
    MirrorsAreHonest
CHECK_DEADLOCK FALSE
