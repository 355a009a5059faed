\* Two sessions whose transactions overlap, each with one draft.
SPECIFICATION Spec
CONSTANTS
    Seeds = {a, b}
    Sessions = {s1, s2}
    Summaries = {}
    MaxDrafts = 1
    MaxOpen = 2
    DraftTypes = {"fact"}
    Confidences = {75}
    Cap = 30
    GateCaps = {}
    NoMemory = NoMemory
    NoSession = NoSession
INVARIANT OnlyActiveVersion
CHECK_DEADLOCK FALSE
