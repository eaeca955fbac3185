\* Requests that overlap, with their fairness.
SPECIFICATION RunFairSpec
CONSTANTS
    Handlers = {"h1", "h2"}
    Scenarios <- MCScenarios
    Sizes = {2}
    MaxOps = 3
    MaxLoops = 4
    MaxTime = 2
INVARIANTS
    OneLoop
    ScenarioOnItsTopology
    ClientsFollow
PROPERTIES
    AllPhasesFire
