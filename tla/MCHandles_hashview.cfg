SPECIFICATION Spec
CONSTANTS
    Nil = Nil
    Wrapper <- Wrappers4
    Handle <- Handles2
    Thread = {t1}
    Classes <- ChainClasses
    Closes <- ClosesHashViews
    MayFail <- SafeFailures
    AliasedCopies <- SpentOutputsOnly
    ReuseUnchecked = FALSE
CONSTRAINT InOrder
INVARIANT MemorySafe
