\* One session that is ended while the workspace is erased.
SPECIFICATION Spec
CONSTANTS
    Sessions = {s1}
    Past = past
    Links = {}
    Verifiers = {}
    Workspace = workspace
    NoLink = NoLink
INVARIANT NothingRemembered
CHECK_DEADLOCK FALSE
