\* A session that is started, used and ended, a link that two calls follow,
\* and an erasure.  Everything may have ended.
SPECIFICATION FairSpec
CONSTANTS
    Sessions = {s1}
    Past = past
    Links = {l1}
    Verifiers = {v1, v2}
    Workspace = workspace
    NoLink = NoLink
INVARIANTS
    TypeOK
    ContentErased
    AccountErased
    LinkUsedOnce
PROPERTY ErasureEnds
CHECK_DEADLOCK FALSE
