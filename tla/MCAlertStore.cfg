\* One alert, two label sets, two operators (one of limited scope).
SPECIFICATION FairSpec
CONSTANTS
    a1 = a1
    s1 = s1
    l1 = l1
    l2 = l2
    op1 = op1
    op2 = op2
    Alerts = {a1}
    Sources = {s1}
    SourceOf <- MCSourceOf
    Labels = {l1, l2}
    Annotations = {n1, n2}
    Silences = {sil}
    Operators = {op1, op2}
    Assignees = {rota}
    OperateScope <- MCScope
    NoOne = NoOne
    NoWindow = NoWindow
    Timeout <- MCTimeout
    StaleAfter <- MCStaleAfter
    DefaultStaleAfter = 1
    AgeCap = 2
    MaxOccurrence = 2
    MaxNotes = 1
INVARIANTS
    HistoryExplainsRow
    JudgementsOfThisOccurrence
    ChangesAreAnnounced
    ResolvedEventMeansGone
    SilencesImplySuppressed
PROPERTIES
    QuietAlertsLeaveFiring
