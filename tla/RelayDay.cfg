SPECIFICATION FairSpec
CONSTANTS
    evening = evening
    morning = morning
    lunch = lunch
    dinner = dinner
    Records = {evening, morning}
    Photos = {lunch, dinner}
    At <- MCAt
    Days = {0}
    Models = {m1, m2}
    Requests = {q1, q2}
    None = None
INVARIANTS
    TypeOK
    KnownPhotosDescribed
PROPERTIES
    NoRegressUnlessRaced
    KeepsThePromise
    SummaryArrives
