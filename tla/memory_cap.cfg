\* One session after the other, with plausible and implausible drafts;
\* Qwen keeps to the 0.3 that its prompt asks for.
SPECIFICATION Spec
CONSTANTS
    Seeds = {a, b}
    Sessions = {s1, s2}
    Summaries = {}
    MaxDrafts = 2
    MaxOpen = 1
    DraftTypes = {"fact"}
    Confidences = {20, 75}
    Cap = 30
    GateCaps = {10, 30}
    NoMemory = NoMemory
    NoSession = NoSession
INVARIANT ImplausibleStaysCapped
CHECK_DEADLOCK FALSE
