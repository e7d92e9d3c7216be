SPECIFICATION FairSpec
CONSTANTS
    Utterances = {u1, u2}
    MaxChains = 1
    Hasty = FALSE
    None = None
INVARIANTS
    TypeOK
    SubtitlesKept
    NeverDeaf
PROPERTIES
    ShownPauseStopsListening
    ShownStreamingBringsBack
