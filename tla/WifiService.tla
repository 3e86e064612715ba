---------------------------- MODULE WifiService ----------------------------
(***************************************************************************)
(* WifiService of the Arduino image                                        *)
(* (src/firmware/arduino/esp32shell/wifi_service.h): two profiles in RAM,  *)
(* tried in turn by tick(), which loop() calls.  One task does everything. *)
(*                                                                         *)
(* The driver (ArduinoWifiDriver over the Arduino Wi-Fi library) is        *)
(* external: it refuses begin() while it negotiates, and connecting() only *)
(* answers yes when the station is associated and waits for an address.    *)
(* `cooldown_` is written and never changes anything; it is left out.      *)
(***************************************************************************)
EXTENDS NvsLayout

CONSTANTS
    TickMod,  \* the clock millis() wraps here
    Retry,    \* kRetryIntervalMs
    Cooldown, \* kReconnectCooldownMs
    Clip      \* what is left of a value cut to the length of its buffer

ASSUME WifiServiceAssumption ==
    /\ TickMod \in Nat /\ Retry \in 1..(TickMod - 1) /\ Cooldown \in 1..(TickMod - 1)
    /\ Nil \notin Slots

VARIABLES
    profiles,      \* the credentials in each slot, or Nil
    state,         \* what wifi-status answers
    nextAttemptAt,
    nextProfile,
    activeSlot,    \* the slot of the last begin()
    now,           \* millis()
    link,          \* driver: "idle", "joining", "associated", "online"
    joined,        \* driver: the slot whose credentials it was given
    rejected       \* driver: it refused the last begin()

service == <<profiles, state, nextAttemptAt, nextProfile, activeSlot>>
driver == <<link, joined, rejected>>
wifi == <<service, driver, now>>

WifiInit ==
    /\ profiles = [s \in Slots |-> Nil] /\ state = "Offline"
    /\ nextAttemptAt = 0 /\ nextProfile = 0 /\ activeSlot = 0 /\ now = 0
    /\ link = "idle" /\ joined = Nil /\ rejected = FALSE

Configured == \E s \in Slots : profiles[s] # Nil

\* begin(): "sta is connecting, cannot set config".
Begin(slot) ==
    IF link = "joining"
    THEN rejected' = TRUE /\ UNCHANGED <<link, joined>>
    ELSE link' = "joining" /\ joined' = slot /\ rejected' = FALSE

Disconnect == link' = "idle" /\ joined' = Nil /\ rejected' = FALSE

\* The profile's buffers cut what does not fit: they are as long as those of the
\* ESP-IDF image, which refuses it.
Clipped(p) ==
    <<IF p[1] \in LongSsids THEN Clip[p[1]] ELSE p[1],
      IF p[2] \in LongPasswords THEN Clip[p[2]] ELSE p[2]>>

\* configure(): the next tick tries it, unless the station is up.
Configure(slot, p) ==
    /\ profiles' = [profiles EXCEPT ![slot] = Clipped(p)]
    /\ nextAttemptAt' = now /\ state' = "Offline"
    /\ UNCHANGED <<nextProfile, activeSlot, driver, now>>

\* Variant: the station stays with the profile that was removed.
ClearSlot_StaysJoined(slot) ==
    /\ profiles' = [profiles EXCEPT ![slot] = Nil]
    /\ IF slot = activeSlot
       THEN state' = "Offline" /\ nextAttemptAt' = 0
       ELSE UNCHANGED <<state, nextAttemptAt>>
    /\ UNCHANGED <<nextProfile, activeSlot, driver, now>>

\* clear(slot)
ClearSlot(slot) ==
    /\ profiles' = [profiles EXCEPT ![slot] = Nil]
    /\ IF slot = activeSlot
       THEN Disconnect /\ state' = "Offline" /\ nextAttemptAt' = 0
       ELSE UNCHANGED <<driver, state, nextAttemptAt>>
    /\ UNCHANGED <<nextProfile, activeSlot, now>>

\* clear()
ClearAll ==
    /\ Disconnect
    /\ profiles' = [s \in Slots |-> Nil]
    /\ state' = "Offline" /\ nextAttemptAt' = 0
    /\ UNCHANGED <<nextProfile, activeSlot, now>>

-----------------------------------------------------------------------------
(* tick()                                                                  *)

Steady(s) ==
    /\ state' = s
    /\ UNCHANGED <<profiles, nextAttemptAt, nextProfile, activeSlot, driver, now>>

TickUnconfigured == ~Configured /\ Steady("Offline")
TickConnected == Configured /\ link = "online" /\ Steady("Connected")
TickConnecting == Configured /\ link = "associated" /\ Steady("Connecting")

Down == Configured /\ link \in {"idle", "joining"}
TickWaits == Down /\ now < nextAttemptAt /\ Steady("Offline")

\* The station was seen connecting at the last tick: the attempt is ended first.
EndAttempt ==
    /\ Down /\ now >= nextAttemptAt /\ state = "Connecting"
    /\ Disconnect
    /\ state' = "Offline" /\ nextAttemptAt' = (now + Cooldown) % TickMod
    /\ UNCHANGED <<profiles, nextProfile, activeSlot, now>>

\* nextProfile(): the other slot if the one in turn is not set.
NextProfile == IF profiles[nextProfile] # Nil THEN nextProfile ELSE Other(nextProfile)

\* Variant: the turn does not pass on.
Attempt_SameTurn(slot) ==
    /\ Down /\ now >= nextAttemptAt /\ state # "Connecting"
    /\ slot = NextProfile
    /\ Begin(slot)
    /\ activeSlot' = slot /\ state' = "Connecting"
    /\ nextAttemptAt' = (now + Retry) % TickMod
    /\ UNCHANGED <<profiles, nextProfile, now>>

\* The next profile in turn is handed to the driver, which may refuse it.
Attempt(slot) ==
    /\ Down /\ now >= nextAttemptAt /\ state # "Connecting"
    /\ slot = NextProfile
    /\ Begin(slot)
    /\ activeSlot' = slot /\ state' = "Connecting"
    /\ nextAttemptAt' = (now + Retry) % TickMod
    /\ nextProfile' = Other(slot)
    /\ UNCHANGED <<profiles, now>>

Tick ==
    \/ TickUnconfigured \/ TickConnected \/ TickConnecting \/ TickWaits
    \/ EndAttempt \/ \E slot \in Slots : Attempt(slot)

-----------------------------------------------------------------------------
(* The driver, the access points and the clock                             *)

LinkChanges(from, to) ==
    /\ link \in from /\ link' = to
    /\ IF to = "idle" THEN joined' = Nil /\ rejected' = FALSE ELSE UNCHANGED <<joined, rejected>>
    /\ UNCHANGED <<service, now>>

Associates == LinkChanges({"joining"}, "associated")
Leases == LinkChanges({"associated"}, "online")
Fails == LinkChanges({"joining"}, "idle")
Drops == LinkChanges({"associated", "online"}, "idle")

\* The time matters only while there is a profile to try.
Passes == Configured /\ now' = (now + 1) % TickMod /\ UNCHANGED <<service, driver>>
=============================================================================
