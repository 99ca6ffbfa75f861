SPECIFICATION Spec
CONSTANTS
    Stubborn <- MCNone
    MayCancel = FALSE
INVARIANT GroupIsTerminated
CHECK_DEADLOCK FALSE
