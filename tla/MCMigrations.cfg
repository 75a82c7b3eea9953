\* Two releases, every legacy volume, two crashes.
SPECIFICATION FairSpec
CONSTANTS
    oldJob = oldJob
    newJob = newJob
    oldServer = oldServer
    newServer = newServer
    Runners = {oldJob, newJob}
    Servers = {oldServer, newServer}
    Latest <- MCLatest
    LegacyLast = 3
    Known <- MCKnown
    NoRunner = NoRunner
    MaxCrashes = 2
INVARIANTS
    ServingMeansMigrated
    OnlyACutBaselineBlocks
PROPERTIES
    EveryJobCompletes
\* After a cut baseline every job fails and no server starts: the system stops.
CHECK_DEADLOCK FALSE
