\* One app that arrives as a signed bundle, two control blocks: every interleaving of the shell, the
\* supervisor and two tasks of that app; a fair supervisor and a running tick.
CONSTANTS
    diag = diag
    blinker = blinker
    h1 = h1
    h2 = h2
    NoTask = NoTask
    NoApp = NoApp
    Names <- OneSigned
    Builtins <- NoBuiltin
    SignedNames <- OneSigned
    Handles <- TwoHandles
    MaxApps = 1
    MaxRestarts = 1
    Timeout <- ShortTimeout
    MaxTick = 3
    TickMod = 16
SPECIFICATION FairSpec
INVARIANTS
    TypeOK
    RestartBudget
    IInv
    SerialLifecycle
PROPERTIES
    DownStaysDown
    HeartbeatSupervised
\* Two callers that deleted themselves leave nothing to do once the apps are
\* gone: the device really stops there.
CHECK_DEADLOCK FALSE
