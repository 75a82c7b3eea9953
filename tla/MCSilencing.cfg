\* Previews, confirmations and the silences they write.
SPECIFICATION Spec
CONSTANTS
    a1 = a1
    a2 = a2
    a3 = a3
    b1 = b1
    c1 = c1
    d1 = d1
    s1 = s1
    s2 = s2
    s3 = s3
    Sources = {s1, s2, s3}
    Reachable = {s1, s2}
    Alerts = {a1, a2, a3, b1, c1, d1}
    SourceOf <- MCSourceOf
    LabelsOf <- MCLabelsOf
    Groups <- MCGroups
    Grants <- MCGrants
    Finds <- MCFinds
    Durations = {0, 2, 3, 6}
    Second = 3
    Width = 4
    SilenceDefaultDuration = 2
    SilenceMaxDuration = 5
    MaxChanges = 1
INVARIANTS
    BroadeningNeedsARace
    DoneMeansCovered
    BeyondScopeOnlyByFolding
    EverySilenceEnds
