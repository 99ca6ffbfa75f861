SPECIFICATION FairSpec
CONSTANTS
    Stubborn <- MCBoth
    MayCancel = TRUE
INVARIANTS IInv ReturnedIsOver OnlyCancelledLeaves
 
\* A call that has returned or raised is over.
CHECK_DEADLOCK FALSE
