\* One rule, one Secret that it covers.
SPECIFICATION FairRulesSpec
CONSTANTS
    Namespace = {"src", "app"}
    Pattern = {"*", "src", "app", "web", "["}
    Star = "*"
    Malformed = {"["}
    Hits <- MCHits
    Kind = {"Secret"}
    Name = {"n"}
    NoID = NoID
    Template = {}
    Rule <- OneRule
    Manifest <- Unannotated
    Volatile = {}
    Budget <- RuleOnly
    MaxRevision = 100
    Worker <- RuleWorkers
    Request <- MirrorWorkers
    Ptr = {1, 2, 3, 4, 5, 6}
    RuleName = {r1}
PROPERTIES
    RulesComeToRest
CHECK_DEADLOCK FALSE
