SPECIFICATION FairSpec
CONSTANTS
    Pinches = {p1, p2}
    Words = {w1}
    None = None
INVARIANTS
    TypeOK
    ResumedByOne
    CallerIsKnown
    NewestSpeaks
    OverBeforeCapture
PROPERTIES
    PinchEnds
