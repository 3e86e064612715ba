------------------------- MODULE WifiStationProofs -------------------------
(***************************************************************************)
(* Proofs about WifiStation, for every set of stores, of access points     *)
(* that can be joined and of those that serve, and for any number of       *)
(* waiting events, coincidences and wifi-status commands.                  *)
(***************************************************************************)
EXTENDS WifiStation, TLAPS

-----------------------------------------------------------------------------
(* The inductive invariant                                                 *)

\* The values of the variables that are no flags, and of the flags.
Values ==
    /\ site \in Sites
    /\ activeSlot \in Profiles /\ nextSlot \in Profiles
    /\ age \in 0..AttemptTicks
    /\ failover \in {"boot", "none", "poll", "sleep", "weigh", "expire", "disconnect",
                     "rotate", "config", "claim", "begin", "connect"}
    /\ offset \in 0..2
    /\ link \in {"idle", "trying", "joined", "online"}
    /\ ap \in Profiles /\ config \in Profiles
    /\ events \in Seq({"disconnected", "got_ip"}) /\ Len(events) <= MaxEvents
    /\ races \in 0..MaxRaces
    /\ shell \in {"idle", "found"} /\ asks \in 0..MaxAsks
Flags ==
    /\ configured \in BOOLEAN /\ connecting \in BOOLEAN /\ connected \in BOOLEAN
    /\ attempted \in BOOLEAN

\* The loop over applyProfile() makes two passes.
TwoPasses == failover \in {"config", "claim", "begin", "connect"} => offset <= 1

\* Nobody has asked.
Unasked == asks = 0 => shell = "idle"

\* What the last event that waits will make of `connected`.
Ends(event) == events # << >> /\ events[Len(events)] = event

IInv == Values /\ Flags /\ TwoPasses /\ Unasked /\ ConnectedIsUp

LEMMA TypeParts == TypeOK <=> Values /\ Flags
BY DEF TypeOK, Values, Flags

-----------------------------------------------------------------------------
(* The queue of events                                                     *)

LEMMA Posted ==
    ASSUME events \in Seq({"disconnected", "got_ip"}), NEW event \in {"disconnected", "got_ip"},
           Post(event)
    PROVE  /\ events' \in Seq({"disconnected", "got_ip"}) /\ Len(events') <= MaxEvents
           /\ events' # << >> /\ events'[Len(events')] = event
<1>1. Len(events) < MaxEvents /\ events' = Append(events, event) BY DEF Post
<1>2. Len(events') = Len(events) + 1 /\ Len(events) \in Nat BY <1>1
<1> QED BY <1>1, <1>2, WifiAssumption

LEMMA Handled ==
    ASSUME events \in Seq({"disconnected", "got_ip"}), Len(events) <= MaxEvents,
           events # << >>, events' = Tail(events)
    PROVE  /\ events' \in Seq({"disconnected", "got_ip"}) /\ Len(events') <= MaxEvents
           /\ events' # << >> => events'[Len(events')] = events[Len(events)]
           /\ events' = << >> => events[Len(events)] = Head(events)
<1>1. Len(events) \in Nat \ {0} /\ Len(events') = Len(events) - 1 OBVIOUS
<1>2. events' \in Seq({"disconnected", "got_ip"}) OBVIOUS
<1>3. Len(events') <= MaxEvents BY <1>1, WifiAssumption
<1>4. ASSUME events' # << >> PROVE events'[Len(events')] = events[Len(events)]
  <2>1. Len(events') \in 1..Len(events') BY <1>1, <1>2, <1>4
  <2>2. events'[Len(events')] = events[Len(events') + 1] BY <1>1, <2>1
  <2>3. Len(events') + 1 = Len(events) BY <1>1
  <2> QED BY <2>2, <2>3
<1>5. ASSUME events' = << >> PROVE events[Len(events)] = Head(events)
  <2>1. Len(<< >>) = 0 OBVIOUS
  <2>2. Len(events') = 0 BY <1>5, <2>1
  <2>3. Len(events) = 1 BY <1>1, <2>2
  <2> QED BY <2>3
<1> QED BY <1>2, <1>3, <1>4, <1>5

-----------------------------------------------------------------------------
(* ConnectedIsUp and the steps that bear on it                             *)

\* A step that posts the end of the association.
LEMMA Leaves ==
    ASSUME Ends("disconnected")' PROVE ConnectedIsUp'
BY DEF Ends, ConnectedIsUp

\* A step that leaves flag, link and queue alone, or only starts or ends an
\* attempt of a station that is not online.
LEMMA StaysDown ==
    ASSUME ConnectedIsUp, UNCHANGED <<connected, events, asks>>,
           link' = link \/ link # "online"
    PROVE  ConnectedIsUp'
BY DEF ConnectedIsUp

-----------------------------------------------------------------------------
(* Every step                                                              *)

LEMMA IInvInit == Init => IInv
<1> SUFFICES ASSUME Init PROVE IInv OBVIOUS
<1>1. Values BY WifiAssumption DEF Init, Values, Profiles
<1>2. Flags BY DEF Init, Flags
<1>3. TwoPasses /\ Unasked /\ ConnectedIsUp BY DEF Init, TwoPasses, Unasked, ConnectedIsUp
<1> QED BY <1>1, <1>2, <1>3 DEF IInv

LEMMA StartStep == IInv /\ Start => IInv'
<1> SUFFICES ASSUME IInv, Start PROVE IInv' OBVIOUS
<1>1. failover' \in {"poll", "none"} BY DEF Start
<1>2. UNCHANGED <<site, connecting, connected, slots, clock, offset, driver, races, asking>>
      BY DEF Start
<1>3. Values' BY <1>1, <1>2 DEF IInv, Values, slots, clock, driver, asking
<1>4. configured' \in BOOLEAN BY DEF Start
<1>5. Flags' BY <1>2, <1>4 DEF IInv, Flags, clock
<1>6. TwoPasses' BY <1>1 DEF TwoPasses
<1>7. Unasked' /\ ConnectedIsUp'
      BY <1>2 DEF IInv, Unasked, ConnectedIsUp, driver, asking
<1> QED BY <1>3, <1>5, <1>6, <1>7 DEF IInv

LEMMA EventStep == IInv /\ EventLoop => IInv'
<1> SUFFICES ASSUME IInv, EventLoop PROVE IInv' OBVIOUS
<1>1. /\ events # << >> /\ events' = Tail(events)
      /\ UNCHANGED <<site, configured, slots, clock, failover, offset, link, ap, config,
                     races, asking>>
      BY DEF EventLoop, Disconnected, GotIp
<1>2. /\ events' \in Seq({"disconnected", "got_ip"}) /\ Len(events') <= MaxEvents
      /\ events' # << >> => events'[Len(events')] = events[Len(events)]
      /\ events' = << >> => events[Len(events)] = Head(events)
      BY <1>1, Handled DEF IInv, Values
<1>3. Values' BY <1>1, <1>2 DEF IInv, Values, slots, clock, asking
<1>4. Flags' BY <1>1 DEF IInv, Flags, EventLoop, Disconnected, GotIp, clock
<1>5. TwoPasses' /\ Unasked' BY <1>1 DEF IInv, TwoPasses, Unasked, asking
<1>6. CASE Disconnected
  <2>1. ~connected' BY <1>6 DEF Disconnected
  <2> QED BY <1>1, <1>2, <1>3, <1>4, <1>5, <2>1 DEF IInv, ConnectedIsUp, asking
<1>7. CASE GotIp
  <2>1. Head(events) = "got_ip" BY <1>7 DEF GotIp
  <2>2. events[Len(events)] \in {"disconnected", "got_ip"} BY <1>1 DEF IInv, Values
  <2>3. ConnectedIsUp'
        BY <1>1, <1>2, <2>1, <2>2 DEF IInv, ConnectedIsUp, asking
  <2> QED BY <1>3, <1>4, <1>5, <2>3 DEF IInv
<1> QED BY <1>6, <1>7 DEF EventLoop

LEMMA FailoverStep == IInv /\ Failover => IInv'
<1> SUFFICES ASSUME IInv, Failover PROVE IInv' OBVIOUS
<1> USE DEF IInv
<1>1. CASE Poll \/ Weigh \/ Expire
  <2>1. /\ UNCHANGED <<site, configured, driver, races, asking, connecting, connected, slots,
                       clock>>
        /\ failover' \in {"weigh", "sleep", "config", "expire", "disconnect"}
        /\ offset' \in {0, offset} /\ (failover' = "config" => offset' = 0)
        BY <1>1 DEF Poll, Weigh, Expire, FailoverOnly
  <2>2. Values' BY <2>1 DEF Values, slots, clock, driver, asking
  <2>3. Flags' BY <2>1 DEF Flags, clock
  <2>4. TwoPasses' /\ Unasked' BY <2>1 DEF TwoPasses, Unasked, asking
  <2>5. ConnectedIsUp' BY <2>1, StaysDown DEF driver, asking
  <2> QED BY <2>2, <2>3, <2>4, <2>5
<1>2. CASE Disconnect
  <2>1. /\ failover' = "rotate" /\ link' = "idle"
        /\ UNCHANGED <<site, flags, slots, clock, offset, ap, config, races, asking>>
        BY <1>2 DEF Disconnect
  <2>2. Flags' BY <2>1 DEF Flags, flags, clock
  <2>3. TwoPasses' /\ Unasked' BY <2>1 DEF TwoPasses, Unasked, asking
  <2>4. CASE link = "idle"
    <3>1. UNCHANGED <<link, events>> BY <1>2, <2>4 DEF Disconnect
    <3>2. Values' BY <2>1, <3>1 DEF Values, slots, clock, asking
    <3>3. ConnectedIsUp' BY <2>1, <3>1, StaysDown DEF flags, asking
    <3> QED BY <2>2, <2>3, <3>2, <3>3
  <2>5. CASE link # "idle"
    <3>1. Post("disconnected") BY <1>2, <2>5 DEF Disconnect
    <3>2. /\ events' \in Seq({"disconnected", "got_ip"}) /\ Len(events') <= MaxEvents
          /\ Ends("disconnected")'
          BY <3>1, Posted DEF Values, Ends
    <3>3. Values' BY <2>1, <3>2 DEF Values, slots, clock, asking
    <3>4. ConnectedIsUp' BY <3>2, Leaves
    <3> QED BY <2>2, <2>3, <3>3, <3>4
  <2> QED BY <2>4, <2>5
<1>3. CASE Rotate \/ Claim \/ Begin
  <2>1. /\ UNCHANGED <<site, configured, driver, races, asking, offset>>
        /\ failover' \in {"sleep", "begin", "connect"}
        BY <1>3 DEF Rotate, Claim, Begin, FailoverOnly
  <2>2. activeSlot' \in Profiles /\ nextSlot' \in Profiles
        BY <1>3 DEF Rotate, Claim, Begin, Values, Other, Profiles, slots, FailoverOnly, driver
  <2>3. age' \in 0..AttemptTicks
        BY <1>3, WifiAssumption DEF Rotate, Claim, Begin, Values, clock
  <2>4. Values' BY <2>1, <2>2, <2>3 DEF Values, driver, asking
  <2>5. Flags' BY <1>3, <2>1 DEF Rotate, Claim, Begin, Flags, clock
  <2>6. TwoPasses' /\ Unasked'
        BY <1>3, <2>1 DEF Rotate, Claim, Begin, TwoPasses, Unasked, asking
  <2>7. connected' = connected \/ ~connected' BY <1>3 DEF Rotate, Claim, Begin
  <2>8. ConnectedIsUp' BY <2>1, <2>7 DEF ConnectedIsUp, driver, asking
  <2> QED BY <2>4, <2>5, <2>6, <2>8
<1>4. CASE Reject \/ ConnectRefused
  <2>1. /\ failover \in {"config", "connect"} /\ NextOffset
        /\ UNCHANGED <<site, configured, driver, races, asking, connecting, connected, slots,
                       clock>>
        BY <1>4 DEF Reject, ConnectRefused, FailoverOnly
  <2>2. offset' \in 0..2 /\ (failover' = "config" => offset' = 1)
        /\ failover' \in {"config", "sleep"}
        BY <2>1 DEF Values, TwoPasses, NextOffset
  <2>3. Values' BY <2>1, <2>2 DEF Values, slots, clock, driver, asking
  <2>4. Flags' BY <2>1 DEF Flags, clock
  <2>5. TwoPasses' /\ Unasked' BY <2>1, <2>2 DEF TwoPasses, Unasked, asking
  <2>6. ConnectedIsUp' BY <2>1, StaysDown DEF driver, asking
  <2> QED BY <2>3, <2>4, <2>5, <2>6
<1>5. CASE Configure
  <2>1. /\ failover = "config" /\ failover' = "claim" /\ config' = Candidate
        /\ UNCHANGED <<site, flags, slots, clock, offset, link, ap, events, races, asking>>
        BY <1>5 DEF Configure
  <2>2. config' \in Profiles BY <2>1 DEF Values, Candidate, Profiles
  <2>3. Values' BY <2>1, <2>2 DEF Values, slots, clock, asking
  <2>4. Flags' BY <2>1 DEF Flags, flags, clock
  <2>5. TwoPasses' /\ Unasked' BY <2>1 DEF TwoPasses, Unasked, asking
  <2>6. ConnectedIsUp' BY <2>1, StaysDown DEF flags, asking
  <2> QED BY <2>3, <2>4, <2>5, <2>6
<1>6. CASE Connect
  <2>1. /\ link' = "trying" /\ ap' = config /\ failover' = "sleep" /\ Race(events # << >>)
        /\ UNCHANGED <<site, flags, slots, clock, offset, config, asking>>
        BY <1>6 DEF Connect
  <2>2. races' \in 0..MaxRaces BY <2>1, WifiAssumption DEF Race, Values
  <2>3. Flags' BY <2>1 DEF Flags, flags, clock
  <2>4. TwoPasses' /\ Unasked' BY <2>1 DEF TwoPasses, Unasked, asking
  <2>5. CASE link = "idle"
    <3>1. UNCHANGED events BY <1>6, <2>5 DEF Connect
    <3>2. Values' BY <2>1, <2>2, <3>1 DEF Values, slots, clock, asking
    <3>3. ConnectedIsUp' BY <2>1, <2>5, <3>1, StaysDown DEF flags, asking
    <3> QED BY <2>3, <2>4, <3>2, <3>3
  <2>6. CASE link # "idle"
    <3>1. Post("disconnected") BY <1>6, <2>6 DEF Connect
    <3>2. /\ events' \in Seq({"disconnected", "got_ip"}) /\ Len(events') <= MaxEvents
          /\ Ends("disconnected")'
          BY <3>1, Posted DEF Values, Ends
    <3>3. Values' BY <2>1, <2>2, <3>2 DEF Values, slots, clock, asking
    <3>4. ConnectedIsUp' BY <3>2, Leaves
    <3> QED BY <2>3, <2>4, <3>3, <3>4
  <2> QED BY <2>5, <2>6
<1> QED BY <1>1, <1>2, <1>3, <1>4, <1>5, <1>6 DEF Failover

LEMMA ShellStep == IInv /\ Shell => IInv'
<1> SUFFICES ASSUME IInv, Shell PROVE IInv' OBVIOUS
<1> USE DEF IInv
<1>1. CASE Ask
  <2>1. /\ asks < MaxAsks /\ asks' = asks + 1 /\ shell' \in {"idle", "found"}
        /\ UNCHANGED <<site, flags, slots, clock, failover, offset, driver, races>>
        BY <1>1 DEF Ask
  <2>2. asks' \in 0..MaxAsks /\ asks' # 0 BY <2>1, WifiAssumption DEF Values
  <2>3. Values' BY <2>1, <2>2 DEF Values, slots, clock, driver
  <2>4. Flags' BY <2>1 DEF Flags, flags, clock
  <2>5. TwoPasses' /\ Unasked' /\ ConnectedIsUp'
        BY <2>1, <2>2 DEF TwoPasses, Unasked, ConnectedIsUp
  <2> QED BY <2>3, <2>4, <2>5
<1>2. CASE Answer
  <2>1. /\ shell = "found" /\ connected' = TRUE /\ shell' = "idle"
        /\ UNCHANGED <<site, configured, connecting, slots, clock, failover, offset, driver,
                       races, asks>>
        BY <1>2 DEF Answer
  <2>2. asks' # 0 BY <2>1 DEF Unasked
  <2>3. Values' BY <2>1 DEF Values, slots, clock, driver
  <2>4. connected' \in BOOLEAN BY <2>1
  <2>5. Flags' BY <2>1, <2>4 DEF Flags, clock
  <2>6. TwoPasses' /\ Unasked' /\ ConnectedIsUp'
        BY <2>1, <2>2 DEF TwoPasses, Unasked, ConnectedIsUp
  <2> QED BY <2>3, <2>5, <2>6
<1> QED BY <1>1, <1>2 DEF Shell

LEMMA DriverStep == IInv /\ Driver => IInv'
<1> SUFFICES ASSUME IInv, Driver PROVE IInv' OBVIOUS
<1> USE DEF IInv
<1>1. /\ UNCHANGED <<site, flags, slots, clock, failover, offset, ap, config, asking>>
      /\ races' = races \/ Race(failover \notin {"poll", "sleep", "none"})
      BY DEF Driver, Join, Lease, Fail, Drop, DriverOnly
<1>2. races' \in 0..MaxRaces BY <1>1, WifiAssumption DEF Race, Values
<1>3. Flags' BY <1>1 DEF Flags, flags, clock
<1>4. TwoPasses' /\ Unasked' BY <1>1 DEF TwoPasses, Unasked, asking
<1>5. CASE Join
  <2>1. link = "trying" /\ link' = "joined" /\ UNCHANGED events BY <1>5 DEF Join
  <2>2. Values' BY <1>1, <1>2, <2>1 DEF Values, slots, clock, asking
  <2>3. ConnectedIsUp' BY <1>1, <2>1, StaysDown DEF flags, asking
  <2> QED BY <1>3, <1>4, <2>2, <2>3
<1>6. CASE Lease
  <2>1. link' = "online" /\ Post("got_ip") BY <1>6 DEF Lease
  <2>2. events' \in Seq({"disconnected", "got_ip"}) /\ Len(events') <= MaxEvents
        BY <2>1, Posted DEF Values
  <2>3. Values' BY <1>1, <1>2, <2>1, <2>2 DEF Values, slots, clock, asking
  <2>4. ConnectedIsUp' BY <2>1 DEF ConnectedIsUp
  <2> QED BY <1>3, <1>4, <2>3, <2>4
<1>7. CASE Fail \/ Drop
  <2>1. link' = "idle" /\ Post("disconnected") BY <1>7 DEF Fail, Drop
  <2>2. /\ events' \in Seq({"disconnected", "got_ip"}) /\ Len(events') <= MaxEvents
        /\ Ends("disconnected")'
        BY <2>1, Posted DEF Values, Ends
  <2>3. Values' BY <1>1, <1>2, <2>1, <2>2 DEF Values, slots, clock, asking
  <2>4. ConnectedIsUp' BY <2>2, Leaves
  <2> QED BY <1>3, <1>4, <2>3, <2>4
<1> QED BY <1>5, <1>6, <1>7 DEF Driver

LEMMA TickStep == IInv /\ Tick => IInv'
<1> SUFFICES ASSUME IInv, Tick PROVE IInv' OBVIOUS
<1> USE DEF IInv
<1>1. /\ failover' \in {"none", "poll"} /\ Race(events # << >>)
      /\ age' = IF age < AttemptTicks THEN age + 1 ELSE age
      /\ UNCHANGED <<site, flags, slots, attempted, offset, driver, asking>>
      BY DEF Tick
<1>2. races' \in 0..MaxRaces BY <1>1, WifiAssumption DEF Race, Values
<1>3. age' \in 0..AttemptTicks BY <1>1, WifiAssumption DEF Values
<1>4. Values' BY <1>1, <1>2, <1>3 DEF Values, slots, driver, asking
<1>5. Flags' BY <1>1 DEF Flags, flags
<1>6. TwoPasses' /\ Unasked' BY <1>1 DEF TwoPasses, Unasked, asking
<1>7. ConnectedIsUp' BY <1>1, StaysDown DEF flags, driver, asking
<1> QED BY <1>4, <1>5, <1>6, <1>7

LEMMA IInvStep == IInv /\ [Next]_vars => IInv'
<1> SUFFICES ASSUME IInv, [Next]_vars PROVE IInv' OBVIOUS
<1>1. CASE UNCHANGED vars
  <2>1. UNCHANGED <<site, flags, slots, clock, failover, offset, driver, races, asking>>
        BY <1>1 DEF vars
  <2>2. Values' BY <2>1 DEF IInv, Values, slots, clock, driver, asking
  <2>3. Flags' BY <2>1 DEF IInv, Flags, flags, clock
  <2>4. TwoPasses' /\ Unasked' BY <2>1 DEF IInv, TwoPasses, Unasked, asking
  <2>5. ConnectedIsUp' BY <2>1, StaysDown DEF IInv, flags, driver, asking
  <2> QED BY <2>2, <2>3, <2>4, <2>5 DEF IInv
<1> QED BY <1>1, StartStep, EventStep, FailoverStep, ShellStep, DriverStep, TickStep DEF Next

\* In every reachable state the variables are in their types, the loop over
\* applyProfile() is in one of its two passes, and `connected` agrees with link
\* and queue (wifi_failover_task(), wifi_event(), ip_event()).
THEOREM Inductive == Spec => []IInv
BY IInvInit, IInvStep, PTL DEF Spec

\* Every variable stays in its type: the slots within the array of profiles, the
\* queue within its bound.
THEOREM TypeCorrect == Spec => []TypeOK
<1>1. IInv => TypeOK BY TypeParts DEF IInv
<1> QED BY <1>1, Inductive, PTL

\* Whatever order events, polls and attempts come in, and however many wait:
\* unless wifi-status was run, the failover task never takes a station for
\* connected that is down, but for a disconnection that waits to be handled.
THEOREM ConnectedAgrees == Spec => []ConnectedIsUp
<1>1. IInv => ConnectedIsUp BY DEF IInv
<1> QED BY <1>1, Inductive, PTL
=============================================================================
