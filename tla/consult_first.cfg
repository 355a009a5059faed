\* A browser's first visit to the page at /, and one session; nothing fails.
SPECIFICATION Spec
CONSTANTS
    Mode = "personal"
    Returning = FALSE
    Speech = {"record", "listen"}
    Patient = FALSE
    Budget <- FirstBudget
INVARIANT ActiveSessionIsOurs
CHECK_DEADLOCK FALSE
