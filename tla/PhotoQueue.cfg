CONSTANTS
    None = None
    Dispatcher = Dispatcher
    Photos = {p1, p2}
    Retriers = {r1}
    Handlers = {h1}
    MaxMishaps = 1
    ReplaceWhileOpen = FALSE
SPECIFICATION Spec
SYMMETRY Symmetry
INVARIANTS
    SentOrQueued
    NeverLost
