\* Does the supervisor restart only stalled apps?
CONSTANTS
    diag = diag
    blinker = blinker
    h1 = h1
    h2 = h2
    NoTask = NoTask
    NoApp = NoApp
    Names <- OneName
    Builtins <- OneBuiltin
    SignedNames = {}
    Handles <- TwoHandles
    MaxApps = 1
    MaxRestarts = 1
    Timeout <- ShortTimeout
    MaxTick = 2
    TickMod = 16
SPECIFICATION Spec
PROPERTY RestartsOnlyStalled
\* Two callers that deleted themselves leave nothing to do once the apps are
\* gone: the device really stops there.
CHECK_DEADLOCK FALSE
