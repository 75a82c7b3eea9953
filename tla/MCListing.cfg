\* Two changes of anything, anywhere between two statements.
SPECIFICATION Spec
CONSTANTS
    Finds <- MCFinds
    None = None
    MaxAlert = 3
    LabelSets <- MCLabelSets
    FirstLabels <- MCFirstLabels
    Bindings <- MCBindings
    FirstBindings <- MCFirstBindings
    SavedViews <- MCSavedViews
    Directory = {"sre"}
    ViewGroups = {"g"}
    Selectors <- MCSelectors
    Queries <- MCQueries
    Modes = {""}
    TextRank <- MCTextRank
    Limit = 1
    PollLimit = 1
    MaxChanges = 2
INVARIANTS
    SteadyEntriesAppearOnce
    StreamAgreesWithList
    SummariesAddUp
PROPERTIES
    ShownWasReadable
    ErasedOnlyInARace
    RevokedStreamsEnd
