\* The page at /try: one session, one fault, a reload, a sign-in and a request
\* of the account's controls.  The user waits for the page.
SPECIFICATION FairSpec
CONSTANTS
    Mode = "try"
    Returning = TRUE
    Speech = {"record", "listen"}
    Patient = TRUE
    Budget <- TryBudget
INVARIANTS
    ActiveSessionIsOurs
    TokenMatches
    FreshAfterDelete
PROPERTIES
    TrialStays
    BusyEnds
CHECK_DEADLOCK FALSE
