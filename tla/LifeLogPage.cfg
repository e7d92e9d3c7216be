SPECIFICATION FairSpec
CONSTANTS
    now = now
    theirs = theirs
    before = before
    today = today
    yesterday = yesterday
    Records = {now, theirs, before}
    Mine = {now, before}
    DayOf <- MCDayOf
    Days = {today, yesterday}
    Today = today
    Requests = {q1}
    MaxOpens = 1
    MaxLoads = 3
    None = None
INVARIANTS
    TypeOK
    SettledPanelIsSelected
    LoadedIsStored
PROPERTIES
    ReportCoversHeld
    WaitingEnds
