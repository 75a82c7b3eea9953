\* Safety and liveness of the reconciler and the refresher.
SPECIFICATION ReconcilerFairSpec
CONSTANTS
    a1 = a1
    a2 = a2
    s1 = s1
    Alerts = {a1, a2}
    Silences = {s1}
    Covers <- MCCovers
    Labels = {l}
    Annotations = {n}
    Operators = {}
    Assignees = {}
    NoOne = NoOne
    AgeCap = 1
    QueueCap = 1
    MaxChanges = 3
    MaxRestarts = 1
    MaxOccurrence = 2
PROPERTIES
    ResolvedAfterTwoAbsences
    EndedAlertsAreNoticed
    SuppressionSettles
