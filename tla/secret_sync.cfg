\* One Secret, edited once, one resync or one event of an Ingress that names it.
SPECIFICATION ControllersSpec
CONSTANTS
    Namespace = {"src", "app"}
    Pattern = {"*", "src", "app", "web", "["}
    Star = "*"
    Malformed = {"["}
    Hits <- MCHits
    Kind = {"Secret"}
    Name = {"n"}
    NoID = NoID
    Template <- IngressTemplate
    Rule = {}
    Manifest <- SourceOrNot
    Volatile = {}
    Budget <- EditsAndEvent
    MaxRevision = 100
    Worker <- WithIngress
    Request <- WithIngress
    Ptr = {1, 2, 3, 4, 5, 6}
INVARIANTS
    SyncedWhenQuiet
CHECK_DEADLOCK FALSE
