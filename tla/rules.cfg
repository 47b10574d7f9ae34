\* One rule written twice, one Secret; a resync, or an edit, or a restart
\* and a failing write.
SPECIFICATION RuleFairSpec
CONSTANTS
    Namespace = {"src", "app"}
    Pattern = {"*", "src", "app", "web", "["}
    Star = "*"
    Malformed = {"["}
    Hits <- MCHits
    Kind = {"Secret"}
    Name = {"n", "m"}
    NoID = NoID
    Template = {}
    Rule <- Rules
    Manifest <- Unannotated
    Volatile = {}
    Budget <- RulesDisturbed
    MaxRevision = 100
    Worker <- RuleWorkers
    Request <- MirrorWorkers
    Ptr = {1, 2, 3, 4, 5, 6}
    RuleName = {r1}
INVARIANTS
    RulesInv
    StatusCounts
    Reporting
    CopiesAreAskedFor
PROPERTIES
    RuleReaches
CONSTRAINT OneThingAtATime
CHECK_DEADLOCK FALSE
