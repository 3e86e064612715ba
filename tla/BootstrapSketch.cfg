\* A provisioning tool run twice, two commands of an operator or a tester, one
\* reset and one failing call anywhere, and a clock that wraps.
CONSTANTS
    home = home
    away = away
    wide = wide
    long = long
    blank = blank
    half = half
    cut = cut
    old = old
    new = new
    Nil = Nil
    Creds <- AllCreds
    NewCreds <- OneCred
    Secrets <- TwoSecrets
    LongSsids <- Long
    LongPasswords <- Wide
    LongNames <- Old
    Clip <- Shorter
    Parse <- Split
    Situations <- SixSituations
    TickMod = 3
    Retry = 2
    Cooldown = 1
    MaxCommands = 2
    MaxRuns = 2
    MaxResets = 1
    MaxFaults = 1
SPECIFICATION Spec
INVARIANTS
    TypeOK
    ReadyForRuntime
    RamIsStored
    ImagesAgree
    LinkIsConfigured
    LedDark
    AppsAgree
PROPERTIES
    EachProfileOffered
