SPECIFICATION Spec
CONSTANTS
    Node <- MCNode
    Configs <- MCConfigs
    MaxSaneWcet = 3
    TightBudget = 2
    MaxEdges = 2
    Wcets = {0, 1, 3, 4}
    MaxChildren = 2
INVARIANTS
    AcceptsOnlyAcyclic
    RejectsOnlyCyclic
    BuildIffValid
    LintSeesDeadTrip
PROPERTIES
    LoadingEnds
\* a load ends
CHECK_DEADLOCK FALSE
