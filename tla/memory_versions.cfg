\* Two sessions of up to two drafts each and one consolidation, over two old
\* memories.  Everything may have ended.
SPECIFICATION FairSpec
CONSTANTS
    Seeds = {a, b}
    Sessions = {s1, s2}
    Summaries = {c}
    MaxDrafts = 2
    MaxOpen = 2
    DraftTypes = {"fact"}
    Confidences = {75}
    Cap = 30
    GateCaps = {}
    NoMemory = NoMemory
    NoSession = NoSession
INVARIANTS
    TypeOK
    NothingForgotten
    CountsSessions
    HistoryAgrees
PROPERTY WriterFinishes
CHECK_DEADLOCK FALSE
