SPECIFICATION Spec
CHECK_DEADLOCK FALSE
CONSTANTS
    t1 = t1
    t2 = t2
    n1 = n1
    n2 = n2
    v1 = v1
    o1 = o1
    x1 = x1
    x2 = x2
    p1 = p1
    m1 = m1
    m2 = m2
    Nil = Nil
    Thread = {t1, t2}
    Notifier = {n1}
    Validator = {v1}
    Options = {o1}
    Ctx = {x1}
    ChainOpts = {p1}
    Chainman = {m1, m2}
    MayFail <- EveryFailure
    Events <- AllEvents
    Careless <- Mistakes
INVARIANTS
    RefsExact
PROPERTIES
    ContextKeepsCallbacks
