\* Every interleaving of event loop, failover task, driver and one wifi-status,
\* at the places of AnySite.  Where the second access point leases addresses the
\* station gets online; where none does, each profile is tried nevertheless.
CONSTANTS
    Sites <- AnySite
    AttemptTicks = 3
    CooldownTicks = 1
    MaxEvents = 3
    MaxRaces = 2
    MaxAsks = 1
SPECIFICATION FairSpec
INVARIANTS
    TypeOK
    ConnectedIsUp
PROPERTIES
    OnlineUnlessAsked
    EachProfileTried
