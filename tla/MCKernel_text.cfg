SPECIFICATION Spec
CHECK_DEADLOCK FALSE
CONSTANTS
    k1 = k1
    k2 = k2
    t1 = t1
    t2 = t2
    Nil = Nil
    Kernel = {k1}
    Thread = {t1, t2}
    MayFail <- NoFailures
    Events <- WithText
INVARIANT
    EveryEventIsLogged
