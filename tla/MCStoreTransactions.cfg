\* Two alerts, five overlapping transactions, one failure.
SPECIFICATION FairSpec
CONSTANTS
    a1 = a1
    a2 = a2
    s1 = s1
    l1 = l1
    l2 = l2
    n1 = n1
    op1 = op1
    w1 = w1
    w2 = w2
    close = close
    sweep = sweep
    pass = pass
    Alerts = {a1, a2}
    Sources = {s1}
    SourceOf <- MCSourceOf
    Labels = {l1, l2}
    Annotations = {n1}
    Silences = {}
    Operators = {op1}
    Assignees = {}
    OperateScope <- MCScope
    NoOne = NoOne
    NoWindow = NoWindow
    Timeout <- MCTimeout
    StaleAfter <- MCStaleAfter
    DefaultStaleAfter = 1
    AgeCap = 2
    MaxOccurrence = 9
    MaxNotes = 9
    Requests = {w1, w2, close, sweep, pass}
    RequestOf <- MCRequestOf
    expiryBatchSize = 1
    MaxFailures = 1
INVARIANTS
    DeadlockTakesTwoBatches
PROPERTIES
    ImplementsStore
    EveryDeliveryLands
