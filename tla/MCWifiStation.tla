--------------------------- MODULE MCWifiStation ---------------------------
(***************************************************************************)
(* Where the device is powered on.  NVS holds two profiles, the first one  *)
(* under the keys without a number, one profile, or half a profile; both   *)
(* access points let the station join and the second one leases addresses, *)
(* or the first one only lets it join and the second one is out of range.  *)
(***************************************************************************)
EXTENDS WifiStation

Both == {"ssid_0", "password_0", "ssid_1", "password_1"}
Legacy == {"ssid", "password", "ssid_1", "password_1"}
Second == {"ssid_1", "password_1"}
Half == {"ssid_0", "password"}

SecondServes(store) == [keys |-> store, joinable |-> {0, 1}, serving |-> {1}]
NobodyServes(store) == [keys |-> store, joinable |-> {0}, serving |-> {}]

AnySite ==
    {SecondServes(store) : store \in {Both, Legacy, Second, Half}}
        \cup {NobodyServes(store) : store \in {Both, Legacy, Second}}
ServedSite == {SecondServes(store) : store \in {Both, Second}}
=============================================================================
