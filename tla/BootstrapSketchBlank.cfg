\* One run of the tool with a blank in the SSID; nothing fails.
CONSTANTS
    home = home
    away = away
    wide = wide
    long = long
    blank = blank
    half = half
    cut = cut
    old = old
    new = new
    Nil = Nil
    Creds <- AllCreds
    NewCreds <- OneCred
    Secrets <- TwoSecrets
    LongSsids <- Long
    LongPasswords <- Wide
    LongNames <- Old
    Clip <- Shorter
    Parse <- Split
    Situations <- BlankInSsid
    TickMod = 3
    Retry = 2
    Cooldown = 1
    MaxCommands = 0
    MaxRuns = 1
    MaxResets = 0
    MaxFaults = 0
SPECIFICATION Spec
INVARIANTS
    ProvisioningCompleted
