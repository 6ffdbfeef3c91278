SPECIFICATION TabletSpec
CONSTANTS
    m1 = m1
    m2 = m2
    t1 = t1
    Meetups = {m1, m2}
    Titles = {t1}
    TitleOf <- MCTitleOf
    WithMap = {m1}
    NotifyMembers = FALSE
    Blank = Blank
    Mixed = Mixed
    MaxJobs = 2
INVARIANTS EventsAreProper RegisteredMeansCreated LeftoversDoNoHarm
PROPERTIES EventsChangeAsAsked HandlerContractKept
CHECK_DEADLOCK FALSE
