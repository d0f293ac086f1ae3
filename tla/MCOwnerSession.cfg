\* Two tabs, two logins, one cookie that expires, one session request of a tab and
\* two other requests on their way at a time.
SPECIFICATION FairSpec
CONSTANTS
    None = None
    t1 = t1
    t2 = t2
    Tabs = {t1, t2}
    Empty = Empty
    Notes = {n1}
    n1 = n1
    MaxLogins = 2
    MaxRefreshes = 1
    MaxCommands = 2
    MaxExpiries = 1
INVARIANTS
    LastLoginSurvives
PROPERTIES
    WritesAreAuthorized
    SignedOutTabsLearn
\* The bounded logins are used up in the end.
CHECK_DEADLOCK FALSE
