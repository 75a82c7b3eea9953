\* Safety and liveness: overtaking writers, sweeps, drops, gaps and polls that
\* show nothing.
SPECIFICATION FairSpec
CONSTANTS
    w1 = w1
    w2 = w2
    p1 = p1
    p2 = p2
    Writers = {w1, w2}
    Sweepers = {p1, p2}
    Visible = {1, 3}
    PollLimit = 1
    PruneLimit = 2
    MaxEvents = 3
    MaxDrops = 1
INVARIANTS
    WatermarkCoversDeleted
    OnlyKnownLosses
PROPERTIES
    EveryChangeArrives
