\* One session, two invocations: the conversation stays open for messages
\* between the transaction that reads the transcript and the one that ends it.
SPECIFICATION Spec
CONSTANTS
    Sessions = {s1}
    Messages = {m1}
    Keys = {k1}
    Workers = {w1, w2}
    Tokens = {t1, t2, t3}
    NoSession = NoSession
    NoToken = NoToken
    NoKey = NoKey
    Lease = 2
    MaxLag = 1
    RequestLimit = 1
    MaxFaults = 2
PROPERTY FullTranscriptExtracted
