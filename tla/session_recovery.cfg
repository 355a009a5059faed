\* One session, two keys, two invocations and fairness: two invocations die,
\* the platform stops every other one before its lease runs out.
SPECIFICATION FairSpec
CONSTANTS
    Sessions = {s1}
    Messages = {m1}
    Keys = {k1, k2}
    Workers = {w1, w2}
    Tokens = {t1, t2, t3}
    NoSession = NoSession
    NoToken = NoToken
    NoKey = NoKey
    Lease = 2
    MaxLag = 1
    RequestLimit = 1
    MaxFaults = 2
INVARIANT LiveLeaseNotStolen
PROPERTY InterruptedSessionRecovers
