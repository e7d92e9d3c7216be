CONSTANTS
    None = None
    Dispatcher = Dispatcher
    Photos = {p1}
    Retriers = {r1}
    Handlers = {h1, h2}
    MaxMishaps = 0
    ReplaceWhileOpen = TRUE
SPECIFICATION Spec
SYMMETRY Symmetry
INVARIANTS
    ServedWhole
