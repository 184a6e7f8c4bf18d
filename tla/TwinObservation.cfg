SPECIFICATION Spec
CONSTANTS
    Clusters <- MCClusters
    Releases <- MCReleases
    Calls <- MCCalls
    Plans <- MCPlans
    Edits <- MCEdits
    MaxEdits = 2
INVARIANTS
    TypeOK
    NoFalseCreate
    DeletionShown
PROPERTIES
    DriftHasCause
    LossIsSeen
