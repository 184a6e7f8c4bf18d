SPECIFICATION Spec
CONSTANTS
    PolicyInputs <- MCPolicyInputs
    RuntimeInputs <- MCRuntimeInputs
    RollbackInputs <- MCRollbackInputs
    NoteInputs <- MCNoteInputs
    GraphInputs <- MCGraphInputs
    Orders <- MCOrders
INVARIANTS
    FinalizeMatchesFresh
    WorseIsNeverGreener
    MoreSignalsNeverCalmer
    EnrichAgreesWithAssess
    NoSilentCategory
    CycleIsReported
    PlannedIsNeverMissing
CHECK_DEADLOCK FALSE
