---------------------------- MODULE WifiStation ----------------------------
(***************************************************************************)
(* The Wi-Fi station (src/firmware/esp-idf/main/wifi_station.cpp).  Three  *)
(* tasks share its flags without a lock: the event loop, which runs the    *)
(* handlers in the order the driver posted their events, the failover      *)
(* task, and the shell, whose wifi-status also writes `connected`.         *)
(*                                                                         *)
(* The unit of time is one poll of the failover task (250 ms); a pass of   *)
(* that task takes less.  The driver and the access points are external.   *)
(***************************************************************************)
EXTENDS Integers, Sequences

CONSTANTS
    Sites,          \* what the device may find when it is powered on
    AttemptTicks,   \* kAttemptTicks, in polls
    CooldownTicks,  \* kSwitchCooldownTicks, in polls
    MaxEvents,      \* bound on the events posted and not yet handled
    MaxRaces,       \* bound on the coincidences of Race
    MaxAsks         \* bound on the wifi-status commands

Profiles == 0..1
Keys == {"ssid_0", "password_0", "ssid_1", "password_1", "ssid", "password"}

ASSUME WifiAssumption ==
    /\ Sites \subseteq
           [keys : SUBSET Keys, joinable : SUBSET Profiles, serving : SUBSET Profiles]
    /\ \A place \in Sites : place.serving \subseteq place.joinable
    /\ CooldownTicks \in Nat \ {0} /\ AttemptTicks \in Nat
    /\ CooldownTicks < AttemptTicks
    /\ MaxEvents \in Nat \ {0} /\ MaxRaces \in Nat /\ MaxAsks \in Nat

VARIABLES
    site,        \* the keys in NVS with a value, the profiles whose access point
                 \* lets the station join, and those where it leases an address
    configured, connecting, connected,
    activeSlot, nextSlot,
    attempted,   \* attemptStarted # 0
    age,         \* polls since attemptStarted, up to AttemptTicks
    failover,    \* where the failover task is
    offset,      \* its loop variable
    link, ap,    \* the driver's station, and the profile it talks to
    config,      \* the profile of the last esp_wifi_set_config
    events,      \* posted, not yet handled
    races,       \* how many coincidences there were
    shell, asks  \* where wifi-status is, and how many there were

flags == <<configured, connecting, connected>>
slots == <<activeSlot, nextSlot>>
clock == <<attempted, age>>
driver == <<link, ap, config, events>>
asking == <<shell, asks>>
vars == <<site, flags, slots, clock, failover, offset, driver, races, asking>>

\* loadProfiles(): profile 0 falls back on the keys without a number.
Enabled(slot) ==
    \/ slot = 0 /\ {"ssid_0", "password_0"} \subseteq site.keys
    \/ slot = 1 /\ {"ssid_1", "password_1"} \subseteq site.keys
    \/ slot = 0 /\ {"ssid", "password"} \subseteq site.keys

Other(slot) == (slot + 1) % 2

Init ==
    /\ site \in Sites
    /\ configured = FALSE /\ connecting = FALSE /\ connected = FALSE
    /\ activeSlot = 0 /\ nextSlot = 0
    /\ attempted = FALSE /\ age = 0
    /\ failover = "boot" /\ offset = 0
    /\ link = "idle" /\ ap = 0 /\ config = 0 /\ events = << >>
    /\ races = 0
    /\ shell = "idle" /\ asks = 0

-----------------------------------------------------------------------------
(* esp32shell_wifi_start(): one pass at boot; an ESP_ERROR_CHECK that      *)
(* fails reboots the device.                                               *)

Start ==
    /\ failover = "boot"
    /\ configured' = (\E slot \in Profiles : Enabled(slot))
    /\ failover' \in IF configured' THEN {"poll", "none"} ELSE {"none"}
    /\ UNCHANGED <<site, connecting, connected, slots, clock, offset, driver,
                   races, asking>>

-----------------------------------------------------------------------------
(* The event loop                                                          *)

Post(event) ==
    /\ Len(events) < MaxEvents
    /\ events' = Append(events, event)

\* A poll or an attempt overtakes an event that waits for the event loop, or an
\* attempt ends in the middle of a pass of the failover task.
Race(won) ==
    /\ won => races < MaxRaces
    /\ races' = IF won THEN races + 1 ELSE races

\* Variant: the handler only ends the attempt.
Disconnected_StillConnected ==
    /\ events # << >> /\ Head(events) = "disconnected"
    /\ events' = Tail(events)
    /\ connected' = connected
    /\ connecting' = FALSE
    /\ UNCHANGED <<site, configured, slots, clock, failover, offset, link, ap,
                   config, races, asking>>

Disconnected ==
    /\ events # << >> /\ Head(events) = "disconnected"
    /\ events' = Tail(events)
    /\ connecting' = FALSE /\ connected' = FALSE
    /\ UNCHANGED <<site, configured, slots, clock, failover, offset, link, ap,
                   config, races, asking>>

GotIp ==
    /\ events # << >> /\ Head(events) = "got_ip"
    /\ events' = Tail(events)
    /\ connected' = TRUE /\ connecting' = FALSE
    /\ UNCHANGED <<site, configured, slots, clock, failover, offset, link, ap,
                   config, races, asking>>

-----------------------------------------------------------------------------
(* wifi_failover_task()                                                    *)

FailoverOnly == UNCHANGED <<site, configured, driver, races, asking>>

Poll ==
    /\ failover = "poll"
    /\ failover' = IF configured /\ ~connected THEN "weigh" ELSE "sleep"
    /\ FailoverOnly /\ UNCHANGED <<connecting, connected, slots, clock, offset>>

Cooled == ~attempted \/ age >= CooldownTicks

Weigh ==
    /\ failover = "weigh"
    /\ failover' = IF ~connecting /\ Cooled THEN "config" ELSE "expire"
    /\ offset' = 0
    /\ FailoverOnly /\ UNCHANGED <<connecting, connected, slots, clock>>

\* `connecting` is read again.
Expire ==
    /\ failover = "expire"
    /\ failover' = IF connecting /\ age >= AttemptTicks THEN "disconnect" ELSE "sleep"
    /\ FailoverOnly /\ UNCHANGED <<connecting, connected, slots, clock, offset>>

\* esp_wifi_disconnect()
Disconnect ==
    /\ failover = "disconnect"
    /\ failover' = "rotate"
    /\ IF link = "idle"
       THEN UNCHANGED <<link, events>>
       ELSE link' = "idle" /\ Post("disconnected")
    /\ UNCHANGED <<site, flags, slots, clock, offset, ap, config, races, asking>>

\* Variant: the profile that timed out is the next one.
Rotate_Same ==
    /\ failover = "rotate"
    /\ connecting' = FALSE
    /\ attempted' = TRUE /\ age' = 0
    /\ nextSlot' = activeSlot
    /\ failover' = "sleep"
    /\ FailoverOnly /\ UNCHANGED <<connected, activeSlot, offset>>

\* Variant: the slot is not wrapped.
Rotate_Unwrapped ==
    /\ failover = "rotate"
    /\ connecting' = FALSE
    /\ attempted' = TRUE /\ age' = 0
    /\ nextSlot' = activeSlot + 1
    /\ failover' = "sleep"
    /\ FailoverOnly /\ UNCHANGED <<connected, activeSlot, offset>>

Rotate ==
    /\ failover = "rotate"
    /\ connecting' = FALSE
    /\ attempted' = TRUE /\ age' = 0
    /\ nextSlot' = Other(activeSlot)
    /\ failover' = "sleep"
    /\ FailoverOnly /\ UNCHANGED <<connected, activeSlot, offset>>

-----------------------------------------------------------------------------
(* The loop over applyProfile().  nextSlot moves under the loop: after a   *)
(* refused connect the second pass names the same profile again.           *)

Candidate == (nextSlot + offset) % 2

NextOffset ==
    /\ offset' = offset + 1
    /\ failover' = IF offset = 0 THEN "config" ELSE "sleep"

\* The profile is disabled, or the driver does not take its configuration.
Reject ==
    /\ failover = "config"
    /\ ~Enabled(Candidate) \/ link = "trying"
    /\ NextOffset
    /\ FailoverOnly /\ UNCHANGED <<connecting, connected, slots, clock>>

Configure ==
    /\ failover = "config"
    /\ Enabled(Candidate) /\ link # "trying"
    /\ config' = Candidate
    /\ failover' = "claim"
    /\ UNCHANGED <<site, flags, slots, clock, offset, link, ap, events, races, asking>>

\* Variant: the same profile stays the next one.
Claim_NoRotation ==
    /\ failover = "claim"
    /\ activeSlot' = config /\ nextSlot' = config
    /\ connecting' = TRUE
    /\ failover' = "begin"
    /\ FailoverOnly /\ UNCHANGED <<connected, clock, offset>>

\* The task's local `slot` is `config` from here on.
Claim ==
    /\ failover = "claim"
    /\ activeSlot' = config /\ nextSlot' = Other(config)
    /\ connecting' = TRUE
    /\ failover' = "begin"
    /\ FailoverOnly /\ UNCHANGED <<connected, clock, offset>>

Begin ==
    /\ failover = "begin"
    /\ connected' = FALSE
    /\ attempted' = TRUE /\ age' = 0
    /\ failover' = "connect"
    /\ FailoverOnly /\ UNCHANGED <<connecting, slots, offset>>

\* esp_wifi_connect() succeeds; a station that is up leaves its network first.
Connect ==
    /\ failover = "connect" /\ link # "trying"
    /\ IF link = "idle" THEN UNCHANGED events ELSE Post("disconnected")
    /\ link' = "trying" /\ ap' = config
    /\ failover' = "sleep"
    /\ Race(events # << >>)
    /\ UNCHANGED <<site, flags, slots, clock, offset, config, asking>>

ConnectRefused ==
    /\ failover = "connect"
    /\ NextOffset
    /\ FailoverOnly /\ UNCHANGED <<connecting, connected, slots, clock>>

-----------------------------------------------------------------------------
(* esp32shell_wifi_status(): any answer of esp_wifi_sta_get_ap_info() sets *)
(* `connected`.                                                            *)

Ask ==
    /\ shell = "idle" /\ asks < MaxAsks
    /\ asks' = asks + 1
    /\ shell' = IF link \in {"joined", "online"} THEN "found" ELSE "idle"
    /\ UNCHANGED <<site, flags, slots, clock, failover, offset, driver, races>>

Answer ==
    /\ shell = "found"
    /\ connected' = TRUE
    /\ shell' = "idle"
    /\ UNCHANGED <<site, configured, connecting, slots, clock, failover, offset,
                   driver, races, asks>>

-----------------------------------------------------------------------------
(* The driver and time                                                     *)

DriverOnly == UNCHANGED <<site, flags, slots, clock, failover, offset, ap,
                          config, races, asking>>

Join ==
    /\ link = "trying" /\ ap \in site.joinable
    /\ link' = "joined"
    /\ DriverOnly /\ UNCHANGED events

Lease ==
    /\ link = "joined" /\ ap \in site.serving
    /\ link' = "online"
    /\ Post("got_ip")
    /\ DriverOnly

\* The attempt fails.
Fail ==
    /\ link = "trying"
    /\ link' = "idle"
    /\ Post("disconnected")
    /\ Race(failover \notin {"poll", "sleep", "none"})
    /\ UNCHANGED <<site, flags, slots, clock, failover, offset, ap, config, asking>>

\* The access point goes away.
Drop ==
    /\ link \in {"joined", "online"}
    /\ link' = "idle"
    /\ Post("disconnected")
    /\ DriverOnly

Tick ==
    /\ failover \in {"sleep", "none"}
    /\ Race(events # << >>)
    /\ age' = IF age < AttemptTicks THEN age + 1 ELSE age
    /\ failover' = IF failover = "sleep" THEN "poll" ELSE failover
    /\ UNCHANGED <<site, flags, slots, attempted, offset, driver, asking>>

-----------------------------------------------------------------------------
EventLoop == Disconnected \/ GotIp
Failover ==
    \/ Poll \/ Weigh \/ Expire \/ Disconnect \/ Rotate
    \/ Reject \/ Configure \/ Claim \/ Begin \/ Connect \/ ConnectRefused
Shell == Ask \/ Answer
Driver == Join \/ Lease \/ Fail \/ Drop

Next == Start \/ EventLoop \/ Failover \/ Shell \/ Driver \/ Tick

Spec == Init /\ [][Next]_vars

\* The scheduler runs every ready task and time passes; an attempt ends, the
\* driver does not refuse every connect to a profile, and an access point that serves
\* does so in one of the attempts made on it.
Fairness ==
    /\ WF_vars(Start) /\ WF_vars(EventLoop) /\ WF_vars(Failover) /\ WF_vars(Tick)
    /\ SF_vars(Fail)
    /\ \A slot \in Profiles : SF_vars(config = slot /\ Connect)
    /\ \A slot \in Profiles :
           SF_vars(ap = slot /\ slot \in site.serving /\ Join) /\ SF_vars(ap = slot /\ Lease)

FairSpec == Spec /\ Fairness

-----------------------------------------------------------------------------
(* Properties                                                              *)

TypeOK ==
    /\ site \in Sites
    /\ configured \in BOOLEAN /\ connecting \in BOOLEAN /\ connected \in BOOLEAN
    /\ activeSlot \in Profiles /\ nextSlot \in Profiles
    /\ attempted \in BOOLEAN /\ age \in 0..AttemptTicks
    /\ failover \in {"boot", "none", "poll", "sleep", "weigh", "expire", "disconnect",
                     "rotate", "config", "claim", "begin", "connect"}
    /\ offset \in 0..2
    /\ link \in {"idle", "trying", "joined", "online"}
    /\ ap \in Profiles /\ config \in Profiles
    /\ events \in Seq({"disconnected", "got_ip"}) /\ Len(events) <= MaxEvents
    /\ races \in 0..MaxRaces
    /\ shell \in {"idle", "found"} /\ asks \in 0..MaxAsks

\* Until somebody runs wifi-status, the last event that waits decides what
\* `connected` will be, and it is true only while the link is up.  The failover
\* task sleeps on `connected`, so anything else would end the failover for good.
ConnectedIsUp ==
    asks = 0 /\ (connected \/ (events # << >> /\ events[Len(events)] = "got_ip")) =>
        \/ link = "online"
        \/ events # << >> /\ events[Len(events)] = "disconnected"

\* While some profile's access point serves, the station is online again and
\* again ("attempts each configured profile with bounded timeouts").
Served == failover # "none" /\ \E slot \in site.serving : Enabled(slot)
ReachesAccessPoint == []Served => []<>(link = "online")

\* The same as long as nobody runs wifi-status.
OnlineUnlessAsked == [](Served /\ asks = 0) => []<>(link = "online")

\* As long as nobody runs wifi-status, every configured profile is tried again
\* and again, unless the station gets online: neither an access point out of range
\* nor one that lets the station join and leases no address holds the others up.
Tried(slot) == link # "idle" /\ ap = slot
EachProfileTried ==
    [](failover # "none" /\ asks = 0) =>
        \A slot \in Profiles : Enabled(slot) => []<>(link = "online" \/ Tried(slot))
=============================================================================
