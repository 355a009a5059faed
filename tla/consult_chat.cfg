\* The page at /: two sessions, two things said, three posts, one fault, and
\* the page is left once and come back to.  The user waits for nothing.
SPECIFICATION Spec
CONSTANTS
    Mode = "personal"
    Returning = TRUE
    Speech = {}
    Patient = FALSE
    Budget <- ChatBudget
INVARIANTS
    TypeOK
    AnswersInOrder
    TranscriptAgrees
    Accounted
    StoredOncePerFailure
    EndedIsKnown
CHECK_DEADLOCK FALSE
