\* One session, three overlapping invocations that may be suspended for any
\* time between their steps, two of which may die.
SPECIFICATION Spec
SYMMETRY Interchangeable
CONSTANTS
    Sessions = {s1}
    Messages = {m1, m2}
    Keys = {k1}
    Workers = {w1, w2, w3}
    Tokens = {t1, t2, t3, t4}
    NoSession = NoSession
    NoToken = NoToken
    NoKey = NoKey
    Lease = 2
    MaxLag = 1
    RequestLimit = 9
    MaxFaults = 2
INVARIANTS
    TypeOK
    ReceiptIsWhatWasWritten
    EndedIffCompleted
    CallersAgree
    FencedWriter
PROPERTIES
    FailsOnlyOwnLease
    ReceiptImmutable
    ImplementsReceipts
