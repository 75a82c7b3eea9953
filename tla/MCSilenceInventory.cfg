\* Listings of two loops, creations and removals.
SPECIFICATION FairSpec
CONSTANTS
    a1 = a1
    Ids = {i1}
    Alerts = {a1}
    Matched <- MCMatched
    Syncers = {pass, refresh}
    MaxEnd = 2
    MaxFailures = 1
PROPERTIES
    RecordsSettle
