CONSTANTS
    None = None
    Dispatcher = Dispatcher
    Photos = {p1}
    Retriers = {r1, r2}
    Handlers = {h1, h2}
    MaxMishaps = 3
    ReplaceWhileOpen = FALSE
SPECIFICATION Spec
SYMMETRY Symmetry
INVARIANTS
    TypeOK
    PendingIsWhole
    SentOrQueued
    NeverLost
    ServedWhole
