\* Is the station online again and again if wifi-status runs once?
CONSTANTS
    Sites <- ServedSite
    AttemptTicks = 4
    CooldownTicks = 2
    MaxEvents = 3
    MaxRaces = 2
    MaxAsks = 1
SPECIFICATION FairSpec
PROPERTIES
    ReachesAccessPoint
