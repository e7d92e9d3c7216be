SPECIFICATION FairSpec
CONSTANTS
    Utterances = {u1}
    MaxChains = 1
    Hasty = FALSE
    None = None
PROPERTIES
    ListeningFollowsStream
