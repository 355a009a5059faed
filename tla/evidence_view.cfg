\* Three writes to the memories of a workspace while answers, receipts and the
\* map are loaded and shown.
SPECIFICATION Spec
CONSTANT MaxWrites = 3
INVARIANTS
    TypeOK
    LinksAreTrue
    LineageShown
    EvidenceReachable
    SelectionFollowsAddress
    EmptyIsTrue
    OneGroupEach
    QuotesAreOwn
CHECK_DEADLOCK FALSE
