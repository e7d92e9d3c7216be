CONSTANTS
    None = None
    Sessions = {s1, s2}
    Cameras = {c1, c2}
    MaxRecovery = 1
    MaxDelays = 1
    MaxRequests = 1
    MissedTransitions = TRUE
SPECIFICATION Spec
SYMMETRY Symmetry
INVARIANTS
    TypeOK
    NoOrphanCamera
    NoOrphanSession
    ShownSessionIsHeld
    LiveStreamIsServed
    IdleIsExplained
    IInv
