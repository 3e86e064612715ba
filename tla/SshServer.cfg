\* Four clients, two of which may wait while one is served; one failure.
CONSTANTS
    Clients <- AllClients
    User <- Account
    NoClient = NoClient
    Backlog = 2
    MaxAttempts = 3
    MaxFailures = 1
SPECIFICATION FairSpec
INVARIANTS
    TypeOK
    NothingLeaks
    ServedAsAsked
PROPERTIES
    NextClientServed
    ListensUnlessFailed
\* A device without credentials, or whose server gave up, has nothing to do.
CHECK_DEADLOCK FALSE
