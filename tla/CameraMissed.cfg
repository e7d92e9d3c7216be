CONSTANTS
    None = None
    Sessions = {s1, s2}
    Cameras = {c1}
    MaxRecovery = 0
    MaxDelays = 0
    MaxRequests = 0
    MissedTransitions = TRUE
SPECIFICATION FairSpec
PROPERTIES
    EndedSessionReleasesStream
